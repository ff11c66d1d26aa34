---------------------------- MODULE PartsProofs ----------------------------
(***************************************************************************)
(* Theorems about the parts that run on their own (MCParts) and about the  *)
(* transport diagnostics.  The parts share no variable; each section is    *)
(* about the specification of one of them.                                 *)
(***************************************************************************)
EXTENDS VersionSync, PrepareVersion, OciMerge, FuzzCampaign, RegistryPublish, ReadTools,
        DBusClient, Subscriptions, TransportDiagnostics,
        FiniteSetTheorems, SequenceTheorems, WellFoundedInduction, TLAPS

-----------------------------------------------------------------------------
(* Numbers.                                                                 *)

\* A set of numbers has a least one.
LEMMA LeastNumber ==
  ASSUME NEW T, T \subseteq Nat, T # {}
  PROVE  \E x \in T : \A y \in T : x <= y
<1>1. IsWellFoundedOn(OpToRel(<, Nat), Nat)
  BY NatLessThanWellFounded
<1>2. PICK x \in T : \A y \in T : <<y, x>> \notin OpToRel(<, Nat)
  BY <1>1, WFMin, Zenon
<1>3. \A y \in T : ~(y < x)
  BY <1>2 DEF OpToRel
<1> QED
  BY <1>3

\* ... and one that is bounded has a greatest.
LEMMA GreatestNumber ==
  ASSUME NEW n \in Nat, NEW S, S \subseteq 0 .. n, S # {}
  PROVE  Max(S) \in S
<1> DEFINE T == {n - x : x \in S}
<1>1. T \subseteq Nat /\ T # {}
  <2>1. \A x \in S : n - x \in Nat
    OBVIOUS
  <2> QED
    BY <2>1
<1>2. PICK t \in T : \A y \in T : t <= y
  BY <1>1, LeastNumber
<1>3. PICK x \in S : t = n - x
  OBVIOUS
<1>4. ASSUME NEW y \in S PROVE x >= y
  <2>1. n - x <= n - y
    BY <1>2, <1>3
  <2> QED
    BY <2>1
<1> QED
  BY <1>4 DEF Max

LEMMA SmallestIsOne ==
  ASSUME NEW S, S \subseteq Nat, S # {}
  PROVE  Min(S) \in S
<1>1. \E x \in S : \A y \in S : x =< y
  BY LeastNumber
<1> QED
  BY <1>1 DEF Min

\* Of more numbers than are taken one is free.
LEMMA OneIsFree ==
  ASSUME NEW n \in Nat, NEW Taken, IsFiniteSet(Taken)
  PROVE  Min((n .. n + Cardinality(Taken)) \ Taken) \in (n .. n + Cardinality(Taken)) \ Taken
<1> DEFINE c == Cardinality(Taken)
           Free == (n .. n + c) \ Taken
<1>1. c \in Nat
  BY FS_CardinalityType
<1>2. Free # {}
  <2> SUFFICES ASSUME n .. n + c \subseteq Taken PROVE FALSE
    OBVIOUS
  <2>1. Cardinality(n .. n + c) = c + 1
    BY <1>1, FS_Interval
  <2>2. Cardinality(n .. n + c) <= c
    BY FS_Subset
  <2> QED
    BY <1>1, <2>1, <2>2
<1>3. Free \subseteq Nat
  BY <1>1
<1> HIDE DEF Free
<1>4. Min(Free) \in Free
  BY <1>2, <1>3, SmallestIsOne
<1> QED
  BY <1>4 DEF Free

-----------------------------------------------------------------------------
(* Subscriptions: callers, patterns and sessions of any number.             *)

\* A caller at rest has the type of a caller.
LEMMA RestingType == Resting \in [pc : {"idle", "subscribe", "unsubscribe"}, pattern : Patterns]
  BY SubscriptionAssumption DEF Resting

\* Every step keeps the shape of the state.
LEMMA SubTypeStep == SubTypeOK /\ [SubNext]_subVars => SubTypeOK'
<1> SUFFICES ASSUME SubTypeOK, [SubNext]_subVars PROVE SubTypeOK'
  OBVIOUS
<1> USE DEF SubTypeOK
<1>1. ASSUME NEW c \in Callers, NEW p \in Patterns, Register(c, p) \/ Unregister(c, p)
      PROVE SubTypeOK'
  <2>1. Removing \subseteq Patterns
    BY DEF Removing
  <2>2. callbacks' \in [Patterns -> SUBSET Callers]
    BY <1>1 DEF Register, Unregister
  <2>3. caller' \in [Callers -> [pc : {"idle", "subscribe", "unsubscribe"}, pattern : Patterns]]
    BY <1>1 DEF Register, Unregister
  <2>4. crossed' \subseteq Patterns
    BY <1>1, <2>1 DEF Register, Unregister
  <2>5. UNCHANGED <<session, link, broker, network, sessions>>
    BY <1>1 DEF Register, Unregister
  <2> QED
    BY <2>2, <2>3, <2>4, <2>5
<1>2. ASSUME NEW c \in Callers, SendSubscribe(c) \/ SendUnsubscribe(c) PROVE SubTypeOK'
  <2>1. caller[c].pattern \in Patterns
    OBVIOUS
  <2>2. caller' \in [Callers -> [pc : {"idle", "subscribe", "unsubscribe"}, pattern : Patterns]]
    BY <1>2, RestingType DEF SendSubscribe, SendUnsubscribe
  <2>3. broker' \subseteq Patterns
    BY <1>2, <2>1 DEF SendSubscribe, SendUnsubscribe
  <2> QED
    BY <1>2, <2>2, <2>3 DEF SendSubscribe, SendUnsubscribe
<1>3. CASE Accepted
  <2>1. Removing \subseteq Patterns
    BY DEF Removing
  <2> QED
    BY <1>3, <2>1 DEF Accepted
<1>4. CASE OnConnect \/ Snapshot
  <2>1. network' \in [pc : {"idle", "connect", "snapshot", "subscribe"}, todo : SUBSET Patterns]
    BY <1>4, SubscriptionAssumption DEF OnConnect, Snapshot, Registered
  <2>2. session' \in BOOLEAN /\ UNCHANGED <<callbacks, link, broker, caller, sessions, crossed>>
    BY <1>4 DEF OnConnect, Snapshot
  <2> QED
    BY <2>1, <2>2
<1>5. ASSUME NEW p \in Patterns, Resubscribe(p) PROVE SubTypeOK'
  BY <1>5 DEF Resubscribe
<1>6. CASE Resubscribed \/ Broken \/ OnDisconnect
  <2>1. network' \in [pc : {"idle", "connect", "snapshot", "subscribe"}, todo : SUBSET Patterns]
    BY <1>6 DEF Resubscribed, Broken, OnDisconnect, Quiet
  <2>2. session' \in BOOLEAN /\ link' \in BOOLEAN /\ broker' \subseteq Patterns
    BY <1>6 DEF Resubscribed, Broken, OnDisconnect
  <2>3. UNCHANGED <<callbacks, caller, sessions, crossed>>
    BY <1>6 DEF Resubscribed, Broken, OnDisconnect
  <2> QED
    BY <2>1, <2>2, <2>3
<1>7. CASE UNCHANGED subVars
  BY <1>7 DEF subVars
<1> QED
  BY <1>1, <1>2, <1>3, <1>4, <1>5, <1>6, <1>7 DEF SubNext

-----------------------------------------------------------------------------

\* A removal on its way and a new registration of its pattern are always known to
\* have crossed.
LEMMA RemovalStep == SubInv /\ [SubNext]_subVars => RemovalsAreKnown'
<1> SUFFICES ASSUME SubInv, [SubNext]_subVars PROVE RemovalsAreKnown'
  OBVIOUS
<1> USE DEF SubInv, SubTypeOK, RemovalsAreKnown
<1>1. ASSUME NEW c \in Callers, NEW p \in Patterns, Register(c, p) PROVE RemovalsAreKnown'
  <2>1. Removing' = Removing
    BY <1>1 DEF Register, Removing
  <2>2. Registered' = Registered \cup {p}
    BY <1>1 DEF Register, Registered
  <2> QED
    BY <1>1, <2>1, <2>2 DEF Register
<1>2. ASSUME NEW c \in Callers, NEW p \in Patterns, Unregister(c, p) PROVE RemovalsAreKnown'
  <2>1. Registered' \subseteq Registered /\ (callbacks[p] = {c} => p \notin Registered')
    BY <1>2 DEF Unregister, Registered
  <2>2. Removing' \subseteq Removing \cup (IF callbacks[p] = {c} THEN {p} ELSE {})
    BY <1>2 DEF Unregister, Removing
  <2> QED
    BY <1>2, <2>1, <2>2 DEF Unregister
<1>3. ASSUME NEW c \in Callers, SendSubscribe(c) \/ SendUnsubscribe(c) PROVE RemovalsAreKnown'
  <2>1. Removing' \subseteq Removing
    BY <1>3 DEF SendSubscribe, SendUnsubscribe, Removing, Resting
  <2> QED
    BY <1>3, <2>1 DEF SendSubscribe, SendUnsubscribe, Registered
<1>4. CASE Accepted
  BY <1>4 DEF Accepted, Removing, Registered
<1>5. CASE \/ OnConnect \/ Snapshot \/ Resubscribed \/ Broken \/ OnDisconnect
           \/ \E p \in Patterns : Resubscribe(p)
  BY <1>5 DEF OnConnect, Snapshot, Resubscribed, Broken, OnDisconnect, Resubscribe, Removing, Registered
<1>6. CASE UNCHANGED subVars
  BY <1>6 DEF subVars, Removing, Registered
<1> QED
  BY <1>1, <1>2, <1>3, <1>4, <1>5, <1>6 DEF SubNext

-----------------------------------------------------------------------------

\* What the broker lacks stays owed: the races of registrations, removals and the
\* network thread's snapshot.
LEMMA ForgottenStep == SubInv /\ [SubNext]_subVars => NothingForgotten'
<1> SUFFICES ASSUME SubInv, [SubNext]_subVars PROVE NothingForgotten'
  OBVIOUS
<1> USE DEF SubInv, SubTypeOK
<1>1. ASSUME NEW c \in Callers, NEW p \in Patterns, Register(c, p) PROVE NothingForgotten'
  <2>1. Registered' = Registered \cup {p}
    BY <1>1 DEF Register, Registered
  <2>2. caller'[c].pc = "subscribe" /\ caller'[c].pattern = p
    BY <1>1 DEF Register
  <2>3. \A d \in Callers : d # c => caller'[d] = caller[d]
    BY <1>1 DEF Register
  <2>4. caller[c].pc = "idle"
    BY <1>1 DEF Register
  <2> QED
    BY <1>1, <2>1, <2>2, <2>3, <2>4 DEF Register, NothingForgotten
<1>2. ASSUME NEW c \in Callers, NEW p \in Patterns, Unregister(c, p) PROVE NothingForgotten'
  <2>1. Registered' \subseteq Registered
    BY <1>2 DEF Unregister, Registered
  <2>2. \A d \in Callers : caller[d].pc = "subscribe" => caller'[d] = caller[d]
    BY <1>2 DEF Unregister
  <2> QED
    BY <1>2, <2>1, <2>2 DEF Unregister, NothingForgotten
<1>3. ASSUME NEW c \in Callers, SendSubscribe(c) PROVE NothingForgotten'
  <2>1. Registered' = Registered
    BY <1>3 DEF SendSubscribe, Registered
  <2>2. \A d \in Callers : d # c => caller'[d] = caller[d]
    BY <1>3 DEF SendSubscribe
  <2>3. broker \subseteq broker'
    BY <1>3 DEF SendSubscribe
  <2>4. link /\ session => caller[c].pattern \in broker' \cup BasePatterns
    BY <1>3 DEF SendSubscribe, CoveredByBase
  <2> QED
    BY <1>3, <2>1, <2>2, <2>3, <2>4 DEF SendSubscribe, NothingForgotten
<1>4. ASSUME NEW c \in Callers, SendUnsubscribe(c) PROVE NothingForgotten'
  <2>1. Registered' = Registered
    BY <1>4 DEF SendUnsubscribe, Registered
  <2>2. \A d \in Callers : caller[d].pc = "subscribe" => caller'[d] = caller[d]
    BY <1>4 DEF SendUnsubscribe
  <2>3. caller[c].pattern \in Registered => caller[c].pattern \in crossed
    BY <1>4 DEF SendUnsubscribe, RemovalsAreKnown, Removing
  <2>4. broker \ broker' \subseteq {caller[c].pattern} \ BasePatterns
    BY <1>4 DEF SendUnsubscribe, CoveredByBase
  <2> QED
    BY <1>4, <2>1, <2>2, <2>3, <2>4 DEF SendUnsubscribe, NothingForgotten
<1>5. CASE Accepted
  BY <1>5 DEF Accepted, NothingForgotten
<1>6. CASE OnConnect
  BY <1>6 DEF OnConnect, NothingForgotten
<1>7. CASE Snapshot
  BY <1>7 DEF Snapshot, NothingForgotten, Registered
<1>8. ASSUME NEW p \in Patterns, Resubscribe(p) PROVE NothingForgotten'
  BY <1>8 DEF Resubscribe, NothingForgotten, Registered
<1>9. CASE Resubscribed
  BY <1>9 DEF Resubscribed, NothingForgotten, Registered, Quiet
<1>10. CASE Broken \/ OnDisconnect
  BY <1>10 DEF Broken, OnDisconnect, NothingForgotten
<1>11. CASE UNCHANGED subVars
  BY <1>11 DEF subVars, NothingForgotten, Registered
<1> QED
  BY <1>1, <1>2, <1>3, <1>4, <1>5, <1>6, <1>7, <1>8, <1>9, <1>10, <1>11 DEF SubNext

-----------------------------------------------------------------------------

\* The inductive invariant of the subscriptions: a removal that crosses a registration
\* is known, and whatever the broker lacks has somebody who still has to send it
\* (subscribe, unsubscribe, _on_connect).
THEOREM SubInvariance == SubSpec => []SubInv
<1>1. ASSUME SubInit PROVE SubInv
  <2>1. SubTypeOK
    BY <1>1, RestingType DEF SubInit, SubTypeOK, Quiet
  <2>2. RemovalsAreKnown
    BY <1>1 DEF SubInit, RemovalsAreKnown, Registered
  <2>3. NothingForgotten
    BY <1>1 DEF SubInit, NothingForgotten
  <2> QED
    BY <2>1, <2>2, <2>3 DEF SubInv
<1>2. SubInv /\ [SubNext]_subVars => SubInv'
  BY SubTypeStep, RemovalStep, ForgottenStep DEF SubInv
<1> QED
  BY <1>1, <1>2, PTL DEF SubSpec

\* No subscription is lost to a race with a reconnect, for any number of callers,
\* patterns and sessions (subscribe, unsubscribe, _on_connect).
THEOREM NoSubscriptionLostHolds == SubSpec => []NoSubscriptionLost
<1>1. SubInv => NoSubscriptionLost
  BY DEF SubInv, NothingForgotten, NoSubscriptionLost, Quiet
<1> QED
  BY <1>1, SubInvariance, PTL

-----------------------------------------------------------------------------
(* DBusClient: buses that concurrent reads lose track of.                   *)

\* Everything that is counted is finite.
LEMMA Counts ==
  ASSUME DBusTypeOK
  PROVE  /\ IsFiniteSet(open) /\ Cardinality(open) \in Nat
         /\ IsFiniteSet(Lost) /\ Cardinality(Lost) \in Nat
         /\ IsFiniteSet(Opening) /\ Cardinality(Opening) \in Nat
         /\ Cardinality(Opening) <= Cardinality(Readers) /\ Cardinality(Readers) \in Nat
         /\ Cardinality(open) <= Cardinality(Lost) + 1
<1>1. IsFiniteSet(1 .. opened)
  BY FS_Interval DEF DBusTypeOK
<1>2. open \in SUBSET (1 .. opened)
  BY DEF DBusTypeOK
<1>3. IsFiniteSet(open)
  BY <1>1, <1>2, FS_Subset
<1>4. /\ IsFiniteSet(Lost)
      /\ Cardinality(Lost) = IF bus \in open THEN Cardinality(open) - 1 ELSE Cardinality(open)
  BY <1>3, FS_RemoveElement DEF Lost
<1>5. Opening \in SUBSET Readers
  BY DEF Opening
<1>6. IsFiniteSet(Opening) /\ Cardinality(Opening) <= Cardinality(Readers)
  BY <1>5, FS_Subset, DBusAssumption
<1>7. /\ Cardinality(open) \in Nat /\ Cardinality(Lost) \in Nat
      /\ Cardinality(Opening) \in Nat /\ Cardinality(Readers) \in Nat
  BY <1>3, <1>4, <1>6, FS_CardinalityType, DBusAssumption
<1> QED
  BY <1>3, <1>4, <1>6, <1>7

\* Every step keeps the shape of the state.
LEMMA DBusTypeStep == DBusTypeOK /\ [DBusNext]_dbusVars => DBusTypeOK'
<1> SUFFICES ASSUME DBusTypeOK, [DBusNext]_dbusVars PROVE DBusTypeOK'
  OBVIOUS
<1> USE DEF DBusTypeOK
<1>1. ASSUME NEW r \in Readers, BeginRead(r) PROVE DBusTypeOK'
  BY <1>1, DBusAssumption DEF BeginRead, Reader
<1>2. ASSUME NEW r \in Readers, Opened(r) PROVE DBusTypeOK'
  <2>1. reader' \in [Readers -> [pc : {"idle", "opening", "reading"}, left : 0 .. Properties]]
    BY <1>2, DBusAssumption DEF Opened, Reader
  <2> QED
    BY <1>2, <2>1 DEF Opened, FlagSet
<1>3. ASSUME NEW r \in Readers, OpenFails(r) \/ ReadDone(r) PROVE DBusTypeOK'
  <2>1. reader' \in [Readers -> [pc : {"idle", "opening", "reading"}, left : 0 .. Properties]]
    BY <1>3, DBusAssumption DEF OpenFails, ReadDone, Reader
  <2> QED
    BY <1>3, <2>1 DEF OpenFails, ReadDone
<1>4. ASSUME NEW r \in Readers, GetProperty(r) PROVE DBusTypeOK'
  <2>1. reader[r].left - 1 \in 0 .. Properties /\ 0 \in 0 .. Properties
    BY <1>4, DBusAssumption DEF GetProperty
  <2>2. reader' \in [Readers -> [pc : {"idle", "opening", "reading"}, left : 0 .. Properties]]
    BY <1>4, <2>1 DEF GetProperty, Reader
  <2> QED
    BY <1>4, <2>2 DEF GetProperty
<1>5. CASE Disconnect
  BY <1>5 DEF Disconnect
<1>6. ASSUME NEW b \in open, BusBreaks(b) PROVE DBusTypeOK'
  BY <1>6 DEF BusBreaks
<1>7. CASE UNCHANGED dbusVars
  BY <1>7 DEF dbusVars
<1> QED
  BY <1>1, <1>2, <1>3, <1>4, <1>5, <1>6, <1>7 DEF DBusNext

-----------------------------------------------------------------------------

\* Every step keeps the count: only a read that was under way before the first bus was
\* open can still replace one.
LEMMA DBusStep == DBusInv /\ [DBusNext]_dbusVars => DBusInv'
<1> SUFFICES ASSUME DBusInv, [DBusNext]_dbusVars PROVE DBusInv'
  OBVIOUS
<1>1. DBusTypeOK /\ DBusTypeOK'
  BY DBusTypeStep DEF DBusInv
<1>2. ASSUME NEW r \in Readers, BeginRead(r) PROVE DBusInv'
  <2>1. Reading' \subseteq Reading \cup (IF flag THEN {r} ELSE {})
    BY <1>1, <1>2 DEF BeginRead, Reader, Reading, DBusTypeOK
  <2>2. flag => Opening' = Opening
    BY <1>1, <1>2 DEF BeginRead, Reader, Opening, DBusTypeOK
  <2> QED
    BY <1>1, <1>2, <2>1, <2>2 DEF BeginRead, DBusInv, Lost
<1>3. ASSUME NEW r \in Readers, Opened(r) PROVE DBusInv'
  <2>1. r \in Opening /\ Opening' = Opening \ {r}
    BY <1>1, <1>3 DEF Opened, Reader, Opening, DBusTypeOK
  <2>2. Cardinality(Opening') = Cardinality(Opening) - 1
    BY <1>1, <2>1, Counts, FS_RemoveElement
  <2>3. Lost' = open
    BY <1>1, <1>3 DEF Opened, Lost, DBusTypeOK
  <2>4. Cardinality(Lost') = Cardinality(open)
    BY <2>3
  <2>5. bus' \in open' /\ flag'
    BY <1>3 DEF Opened, FlagSet
  <2>6. ~stopped => Cardinality(Lost') + Cardinality(Opening') < Cardinality(Readers)
    <3>1. CASE ~stopped /\ flag
      BY <1>1, <2>2, <2>4, <3>1, Counts DEF DBusInv
    <3>2. CASE ~stopped /\ ~flag
      <4>1. open = {}
        BY <3>2 DEF DBusInv
      <4>2. Cardinality(Lost') = 0
        BY <2>3, <4>1, FS_EmptySet
      <4> QED
        BY <1>1, <2>2, <4>2, Counts
    <3> QED
      BY <1>1, <3>1, <3>2 DEF DBusTypeOK
  <2> QED
    BY <1>1, <1>3, <2>5, <2>6 DEF DBusInv, Opened
<1>4. ASSUME NEW r \in Readers, OpenFails(r) PROVE DBusInv'
  <2>1. r \in Opening /\ Opening' = Opening \ {r} /\ Reading' = Reading
    BY <1>1, <1>4 DEF OpenFails, Reader, Opening, Reading, DBusTypeOK
  <2>2. Cardinality(Opening') = Cardinality(Opening) - 1
    BY <1>1, <2>1, Counts, FS_RemoveElement
  <2>3. Lost' = Lost
    BY <1>4 DEF OpenFails, Lost
  <2> QED
    BY <1>1, <1>4, <2>1, <2>2, <2>3, Counts DEF OpenFails, DBusInv
<1>5. ASSUME NEW r \in Readers, GetProperty(r) \/ ReadDone(r) PROVE DBusInv'
  <2>1. Opening' = Opening /\ Reading' \subseteq Reading
    BY <1>1, <1>5 DEF GetProperty, ReadDone, Reader, Opening, Reading, DBusTypeOK
  <2>2. Lost' = Lost
    BY <1>5 DEF GetProperty, ReadDone, Lost
  <2> QED
    BY <1>1, <1>5, <2>1, <2>2 DEF GetProperty, ReadDone, DBusInv
<1>6. CASE Disconnect
  BY <1>1, <1>6 DEF Disconnect, DBusInv
<1>7. ASSUME NEW b \in open, BusBreaks(b) PROVE DBusInv'
  <2>1. Opening' = Opening /\ Reading' = Reading
    BY <1>7 DEF BusBreaks, Opening, Reading
  <2>2. Lost' \in SUBSET Lost
    BY <1>7 DEF BusBreaks, Lost
  <2>3. Cardinality(Lost') <= Cardinality(Lost) /\ Cardinality(Lost') \in Nat
    BY <1>1, <2>2, Counts, FS_Subset, FS_CardinalityType
  <2>4. bus \in open \cup broken => bus' \in open' \cup broken'
    BY <1>7 DEF BusBreaks
  <2> QED
    BY <1>1, <1>7, <2>1, <2>3, <2>4, Counts DEF BusBreaks, DBusInv
<1>8. CASE UNCHANGED dbusVars
  BY <1>8 DEF dbusVars, DBusInv, DBusTypeOK, Lost, Opening, Reading
<1> QED
  BY <1>2, <1>3, <1>4, <1>5, <1>6, <1>7, <1>8 DEF DBusNext

-----------------------------------------------------------------------------

\* The inductive invariant of the lazily made bus: lost buses and reads that may still
\* lose one are together fewer than the readers (connect).
THEOREM DBusInvariance == DBusSpec => []DBusInv
<1>1. ASSUME DBusInit PROVE DBusInv
  <2>1. DBusTypeOK
    <3>1. reader \in [Readers -> [pc : {"idle", "opening", "reading"}, left : 0 .. Properties]]
      BY <1>1, DBusAssumption DEF DBusInit, IdleReader
    <3>2. /\ opened \in Nat /\ bus \in 0 .. opened /\ reads \in Nat
          /\ open \subseteq 1 .. opened /\ broken \subseteq 1 .. opened
      BY <1>1 DEF DBusInit
    <3>3. flag \in BOOLEAN /\ stopped \in BOOLEAN
      BY <1>1 DEF DBusInit
    <3> QED
      BY <3>1, <3>2, <3>3 DEF DBusTypeOK
  <2>2. Reading = {}
    BY <1>1 DEF DBusInit, Reading, IdleReader
  <2> QED
    BY <1>1, <2>1, <2>2 DEF DBusInit, DBusInv
<1> QED
  BY <1>1, DBusStep, PTL DEF DBusSpec

\* Connections are lost track of only among reads that start together, however many
\* reads there are (connect, _get_property).
THEOREM LostBusesAreFewHolds == DBusSpec => []LostBusesAreFew
<1>1. ASSUME DBusInv PROVE LostBusesAreFew
  <2>1. DBusTypeOK
    BY <1>1 DEF DBusInv
  <2>2. Cardinality(Readers) # 0
    BY FS_EmptySet, DBusAssumption
  <2>3. CASE ~stopped /\ flag
    BY <1>1, <2>1, <2>3, Counts DEF DBusInv, LostBusesAreFew, Lost
  <2>4. CASE ~stopped /\ ~flag
    <3>1. Cardinality(Lost) = 0
      BY <1>1, <2>4, FS_EmptySet DEF DBusInv, Lost
    <3> QED
      BY <1>1, <2>1, <2>2, <2>4, <3>1, Counts DEF DBusInv, LostBusesAreFew, Lost, Reading
  <2> QED
    BY <2>1, <2>3, <2>4 DEF LostBusesAreFew, DBusTypeOK
<1> QED
  BY <1>1, DBusInvariance, PTL

-----------------------------------------------------------------------------
(* TransportDiagnostics: the ring of events about one socket.               *)

\* What the ring is after an event: everything it had, or all but the oldest, and the
\* event at its end.
LEMMA RecordedFacts ==
  ASSUME NEW s \in Seq(Events), Len(s) <= RingSize, NEW e \in Kinds, NEW g \in 0 .. MaxSockets, NEW d
  PROVE  LET r == Recorded(s, e, g, d)
             off == IF Len(s) < RingSize THEN 0 ELSE 1
         IN /\ r \in Seq(Events) /\ r # <<>>
            /\ Len(r) = Len(s) + 1 - off /\ Len(r) <= RingSize
            /\ r[Len(r)] = [event |-> e, gen |-> g, sampled |-> d # 0]
            /\ \A i \in 1 .. Len(r) - 1 : i + off \in 1 .. Len(s) /\ r[i] = s[i + off]
<1> DEFINE ev == [event |-> e, gen |-> g, sampled |-> d # 0]
           a == Append(s, ev)
           r == Recorded(s, e, g, d)
<1>1. ev \in Events
  BY DEF Events
<1> HIDE DEF ev
<1>2. /\ a \in Seq(Events) /\ Len(a) = Len(s) + 1 /\ a[Len(s) + 1] = ev
      /\ \A i \in 1 .. Len(s) : a[i] = s[i]
  BY <1>1
<1>3. r = IF Len(a) > RingSize THEN Tail(a) ELSE a
  BY DEF Recorded, KeepLast, ev
<1> HIDE DEF a, r
<1>4. Len(s) \in Nat /\ RingSize \in Nat \ {0}
  BY DiagnosticsAssumption
<1>5. CASE Len(s) < RingSize
  <2>1. r = a
    BY <1>2, <1>3, <1>4, <1>5
  <2>2. a # <<>>
    BY <1>2, <1>4
  <2>3. /\ r \in Seq(Events) /\ r # <<>> /\ Len(r) = Len(s) + 1 /\ r[Len(r)] = ev
        /\ \A i \in 1 .. Len(r) - 1 : i + 0 \in 1 .. Len(s) /\ r[i] = s[i + 0]
    BY <1>2, <1>4, <2>1, <2>2
  <2> QED
    BY <1>4, <1>5, <2>3 DEF r, ev
<1>6. CASE Len(s) = RingSize
  <2>1. r = Tail(a)
    BY <1>2, <1>3, <1>4, <1>6
  <2>2. a # <<>>
    BY <1>2, <1>4
  <2>3. /\ r \in Seq(Events) /\ Len(r) = Len(s)
        /\ \A i \in 1 .. Len(s) : r[i] = a[i + 1]
    BY <1>2, <1>4, <2>1, <2>2
  <2>4. r # <<>> /\ r[Len(r)] = ev
    BY <1>2, <1>4, <1>6, <2>3
  <2>5. \A i \in 1 .. Len(r) - 1 : i + 1 \in 1 .. Len(s) /\ r[i] = s[i + 1]
    BY <1>2, <1>4, <2>3
  <2> QED
    BY <1>4, <1>6, <2>3, <2>4, <2>5 DEF r, ev
<1> QED
  BY <1>4, <1>5, <1>6

\* An event of the socket that is followed keeps the ring about that socket.
LEMMA RecordTellsOneSocket ==
  ASSUME TypeOK, RingTellsOneSocket, NEW e \in Kinds, Record(e), diag # 0, gen' = gen
  PROVE  /\ ring' \in Seq(Events) /\ Len(ring') <= RingSize /\ unreported' \in BOOLEAN
         /\ ring' # <<>> /\ ring'[Len(ring')].event = e
         /\ RingTellsOneSocket'
<1> DEFINE off == IF Len(ring) < RingSize THEN 0 ELSE 1
<1>1. ring \in Seq(Events) /\ Len(ring) <= RingSize /\ gen \in 0 .. MaxSockets /\ unreported' = TRUE
  BY DEF TypeOK, Record
<1>2. /\ ring' \in Seq(Events) /\ ring' # <<>> /\ Len(ring') <= RingSize
      /\ ring'[Len(ring')] = [event |-> e, gen |-> gen, sampled |-> diag # 0]
      /\ \A i \in 1 .. Len(ring') - 1 : i + off \in 1 .. Len(ring) /\ ring'[i] = ring[i + off]
  BY <1>1, RecordedFacts DEF Record
<1>3. ASSUME NEW i \in DOMAIN ring' PROVE ring'[i].gen = gen /\ ring'[i].sampled
  <2>1. CASE i = Len(ring')
    <3>1. [event |-> e, gen |-> gen, sampled |-> diag # 0].sampled = (diag # 0)
      OBVIOUS
    <3>2. [event |-> e, gen |-> gen, sampled |-> diag # 0].gen = gen
      OBVIOUS
    <3> QED
      BY <1>2, <2>1, <3>1, <3>2, Zenon
  <2>2. CASE i # Len(ring')
    <3>1. i \in 1 .. Len(ring') - 1
      BY <1>2, <2>2
    <3>2. i + off \in DOMAIN ring /\ ring'[i] = ring[i + off]
      BY <1>1, <1>2, <3>1
    <3> QED
      BY <3>2 DEF RingTellsOneSocket
  <2> QED
    BY <2>1, <2>2
<1> QED
  BY <1>1, <1>2, <1>3 DEF RingTellsOneSocket

\* A drained queue uses up the PINGREQ that was pending; other events keep the order.
LEMMA RecordKeepsOrder ==
  ASSUME TypeOK, DrainedWasPinged, PendingIsNewest, NEW e \in Kinds, Record(e),
         e = "drained" => pending # 0 /\ pending' = 0,
         pending' # 0 => pending # 0 \/ e = "pingreq"
  PROVE  DrainedWasPinged' /\ PendingIsNewest'
<1> DEFINE off == IF Len(ring) < RingSize THEN 0 ELSE 1
           D(i) == ring[i].event = "drained"
           P(i) == ring[i].event = "pingreq"
           Dn(i) == ring'[i].event = "drained"
           Pn(i) == ring'[i].event = "pingreq"
<1>1. ring \in Seq(Events) /\ Len(ring) <= RingSize /\ gen \in 0 .. MaxSockets
  BY DEF TypeOK
<1>2. /\ ring' \in Seq(Events) /\ Len(ring') = Len(ring) + 1 - off
      /\ ring'[Len(ring')] = [event |-> e, gen |-> gen, sampled |-> diag # 0]
      /\ \A i \in 1 .. Len(ring') - 1 : i + off \in 1 .. Len(ring) /\ ring'[i] = ring[i + off]
  BY <1>1, RecordedFacts DEF Record
<1>3. /\ Len(ring) \in Nat /\ RingSize \in Nat \ {0} /\ off \in {0, 1}
      /\ DOMAIN ring = 1 .. Len(ring) /\ DOMAIN ring' = 1 .. Len(ring')
      /\ Len(ring) < RingSize <=> off = 0
  BY <1>1, <1>2, DiagnosticsAssumption
<1>4. (Dn(Len(ring')) => pending # 0 /\ pending' = 0) /\ (Pn(Len(ring')) <=> e = "pingreq")
  BY <1>2
<1>5. \A i \in 1 .. Len(ring') - 1 : (Dn(i) <=> D(i + off)) /\ (Pn(i) <=> P(i + off))
  BY <1>2
<1>6. \A i \in 1 .. Len(ring') - 1 : i + off \in 1 .. Len(ring)
  BY <1>2
<1>7. /\ \A i, j \in 1 .. Len(ring) : D(i) /\ D(j) /\ i < j => \E k \in 1 .. Len(ring) : P(k) /\ i < k /\ k < j
      /\ \A j \in 1 .. Len(ring) : D(j) /\ Len(ring) < RingSize => \E k \in 1 .. Len(ring) : P(k) /\ k < j
  BY <1>3 DEF DrainedWasPinged
<1>8. pending # 0 =>
        /\ \A i \in 1 .. Len(ring) : D(i) => \E k \in 1 .. Len(ring) : i < k /\ P(k)
        /\ Len(ring) < RingSize => \E k \in 1 .. Len(ring) : P(k)
  BY <1>3 DEF PendingIsNewest
<1>9. Len(ring') = Len(ring) + 1 - off
  BY <1>2
<1> HIDE DEF off, D, P, Dn, Pn
<1>10. ASSUME NEW i \in 1 .. Len(ring'), NEW j \in 1 .. Len(ring'), Dn(i), Dn(j), i < j
       PROVE  \E k \in 1 .. Len(ring') : Pn(k) /\ i < k /\ k < j
  <2>1. i \in 1 .. Len(ring') - 1 /\ i + off \in 1 .. Len(ring) /\ D(i + off)
    BY <1>3, <1>5, <1>6, <1>9, <1>10
  <2>2. PICK k \in 1 .. Len(ring) : P(k) /\ i + off < k /\ k < j + off
    <3>1. CASE j = Len(ring')
      <4>1. pending # 0
        BY <1>4, <1>10, <3>1
      <4> QED
        BY <1>3, <1>8, <1>9, <2>1, <3>1, <4>1
    <3>2. CASE j # Len(ring')
      <4>0. j \in 1 .. Len(ring') - 1
        BY <1>3, <1>9, <3>2
      <4>1. j + off \in 1 .. Len(ring) /\ D(j + off)
        BY <1>5, <1>6, <1>10, <4>0
      <4>2. i + off < j + off
        BY <1>3, <1>10
      <4> QED
        BY <1>7, <2>1, <4>1, <4>2
    <3> QED
      BY <3>1, <3>2
  <2>3. k - off \in 1 .. Len(ring') - 1 /\ (k - off) + off = k
    BY <1>3, <1>9, <2>1, <2>2
  <2>4. Pn(k - off) /\ i < k - off /\ k - off < j
    BY <1>3, <1>5, <2>1, <2>2, <2>3
  <2> QED
    BY <1>3, <1>9, <2>3, <2>4
<1>11. ASSUME NEW j \in 1 .. Len(ring'), Dn(j), Len(ring') < RingSize
       PROVE  \E k \in 1 .. Len(ring') : Pn(k) /\ k < j
  <2>1. off = 0 /\ Len(ring) < RingSize
    BY <1>1, <1>3, <1>9, <1>11
  <2>2. PICK k \in 1 .. Len(ring) : P(k) /\ k < j
    <3>1. CASE j = Len(ring')
      <4>1. pending # 0
        BY <1>4, <1>11, <3>1
      <4> QED
        BY <1>3, <1>8, <1>9, <2>1, <3>1, <4>1
    <3>2. CASE j # Len(ring')
      BY <1>3, <1>5, <1>6, <1>7, <1>9, <1>11, <2>1, <3>2
    <3> QED
      BY <3>1, <3>2
  <2> QED
    BY <1>3, <1>5, <1>9, <2>1, <2>2
<1>12. ASSUME pending' # 0, NEW i \in 1 .. Len(ring'), Dn(i)
       PROVE  \E k \in 1 .. Len(ring') : i < k /\ Pn(k)
  <2>1. i \in 1 .. Len(ring') - 1
    BY <1>3, <1>4, <1>9, <1>12
  <2>2. CASE e = "pingreq"
    BY <1>3, <1>4, <1>9, <2>1, <2>2
  <2>3. CASE pending # 0
    <3>1. PICK k \in 1 .. Len(ring) : i + off < k /\ P(k)
      BY <1>5, <1>6, <1>8, <1>12, <2>1, <2>3
    <3>2. k - off \in 1 .. Len(ring') - 1 /\ (k - off) + off = k /\ i < k - off
      BY <1>3, <1>9, <2>1, <3>1
    <3>3. Pn(k - off)
      BY <1>5, <3>1, <3>2
    <3> QED
      BY <1>3, <1>9, <3>2, <3>3
  <2> QED
    BY <1>12, <2>2, <2>3
<1>13. ASSUME pending' # 0, Len(ring') < RingSize
       PROVE  \E k \in 1 .. Len(ring') : Pn(k)
  <2>1. off = 0 /\ Len(ring) < RingSize /\ Len(ring') = Len(ring) + 1
    BY <1>1, <1>3, <1>9, <1>13
  <2>2. CASE e = "pingreq"
    BY <1>3, <1>4, <1>9, <2>1, <2>2
  <2>3. CASE pending # 0
    <3>1. PICK k \in 1 .. Len(ring) : P(k)
      BY <1>8, <2>1, <2>3
    <3>2. k \in 1 .. Len(ring') - 1 /\ k + off = k
      BY <1>3, <2>1, <3>1
    <3> QED
      BY <1>3, <1>5, <1>9, <3>1, <3>2
  <2> QED
    BY <1>13, <2>2, <2>3
<1>14. DrainedWasPinged'
  BY <1>3, <1>10, <1>11 DEF DrainedWasPinged, Dn, Pn
<1>15. PendingIsNewest'
  BY <1>3, <1>12, <1>13 DEF PendingIsNewest, Dn, Pn
<1> QED
  BY <1>14, <1>15


-----------------------------------------------------------------------------

\* An event keeps what the invariant says of the ring, if it is about the socket that is
\* followed and, when it is a drained queue, uses up the pending ping.
LEMMA RecordKeepsRing ==
  ASSUME DiagInv, NEW e \in Kinds, Record(e), diag # 0, gen' = gen,
         e = "drained" => pending # 0 /\ pending' = 0,
         pending' # 0 => pending # 0 \/ e = "pingreq"
  PROVE  /\ ring' \in Seq(Events) /\ Len(ring') <= RingSize /\ unreported' \in BOOLEAN
         /\ ring' # <<>> /\ ring'[Len(ring')].event = e
         /\ RingTellsOneSocket' /\ DrainedWasPinged' /\ PendingIsNewest'
  BY RecordTellsOneSocket, RecordKeepsOrder DEF DiagInv

\* And so does a step that records nothing.
LEMMA RingStands ==
  ASSUME DiagInv, UNCHANGED <<ring, gen>>, pending' # 0 => pending # 0
  PROVE  /\ ring' \in Seq(Events) /\ Len(ring') <= RingSize
         /\ RingTellsOneSocket' /\ DrainedWasPinged' /\ PendingIsNewest'
<1>1. ring' \in Seq(Events) /\ Len(ring') <= RingSize
  BY DEF DiagInv, TypeOK
<1>2. RingTellsOneSocket'
  BY DEF DiagInv, RingTellsOneSocket
<1>3. DrainedWasPinged'
  BY DEF DiagInv, DrainedWasPinged
<1>4. PendingIsNewest'
  BY DEF DiagInv, PendingIsNewest
<1> QED
  BY <1>1, <1>2, <1>3, <1>4

\* The test of _on_socket_unregister_write passes only on the live socket and only with
\* a ping to account for.
LEMMA DrainIsLive ==
  ASSUME DiagInv, NEW s, IsDrain(s),
         \/ s = sock /\ net = "drained"
         \/ s = closing /\ net = "unregister"
  PROVE  s = sock /\ net = "drained" /\ diag # 0 /\ pending # 0 /\ sock # 0 /\ written
<1>1. SocketSound /\ CountSound /\ PingSound
  BY DEF DiagInv
<1>2. s = sock /\ s = diag /\ pending = gen /\ out = {} /\ ~stopping
  BY DEF IsDrain
<1>3. net = "drained"
  BY <1>1, <1>2 DEF SocketSound
<1>4. sock # 0 /\ gen # 0
  BY <1>1, <1>2, <1>3 DEF SocketSound, CountSound
<1> QED
  BY <1>1, <1>2, <1>3, <1>4 DEF PingSound

\* What either call of _on_socket_unregister_write does.
LEMMA UnregisterKeeps ==
  ASSUME DiagInv, NEW s, OnUnregisterWrite(s), gen' = gen,
         \/ s = sock /\ net = "drained"
         \/ s = closing /\ net = "unregister"
  PROVE  /\ ring' \in Seq(Events) /\ Len(ring') <= RingSize /\ unreported' \in BOOLEAN
         /\ RingTellsOneSocket' /\ DrainedWasPinged' /\ PendingIsNewest'
         /\ pending' \in {0, pending}
         /\ ring' # ring => written /\ sock # 0
<1>1. CASE IsDrain(s)
  <2>1. Record("drained") /\ pending' = 0 /\ "drained" \in Kinds
    BY <1>1 DEF OnUnregisterWrite, PendingAfterDrain, Kinds
  <2>2. diag # 0 /\ pending # 0 /\ sock # 0 /\ written
    BY <1>1, DrainIsLive
  <2> QED
    BY <2>1, <2>2, RecordKeepsRing
<1>2. CASE ~IsDrain(s)
  <2>1. UNCHANGED <<ring, unreported, pending>>
    BY <1>2 DEF OnUnregisterWrite
  <2> QED
    BY <2>1, RingStands DEF DiagInv, TypeOK
<1> QED
  BY <1>1, <1>2

\* Every step keeps the ring about one socket and in order.
LEMMA RingStep ==
  ASSUME DiagInv, [Next]_vars
  PROVE  /\ ring' \in Seq(Events) /\ Len(ring') <= RingSize
         /\ RingTellsOneSocket' /\ DrainedWasPinged' /\ PendingIsNewest'
<1> USE DEF ownVars, pahoVars, diagVars
<1>1. CASE \/ Start \/ StopBegins \/ ThreadEnds \/ OpensSocket \/ QueuesPingreq \/ QueuesOther
           \/ Drains \/ Loses \/ OnDisconnectReports \/ UNCHANGED vars
  <2>1. UNCHANGED <<ring, gen, pending>>
    BY <1>1 DEF Start, StopBegins, ThreadEnds, OpensSocket, QueuesPingreq, QueuesOther, Drains, Loses,
                OnDisconnectReports, vars
  <2> QED
    BY <2>1, RingStands
<1>2. ASSUME NEW a \in BOOLEAN, Retire \/ OnConnectResets(a)
      PROVE  UNCHANGED <<ring, gen>> /\ (pending' # 0 => pending # 0)
  BY <1>2 DEF Retire, OnConnectResets
<1>3. CASE OnSocketOpen
  <2>1. CASE stopping
    BY <1>3, <2>1, RingStands DEF OnSocketOpen
  <2>2. CASE ~stopping
    <3> DEFINE ev == [event |-> "open", gen |-> gen + 1, sampled |-> sock # 0]
    <3>1. gen' = gen + 1 /\ pending' = 0 /\ ring' = Recorded(<<>>, "open", gen + 1, sock)
      BY <1>3, <2>2 DEF OnSocketOpen, RingCleared
    <3>2. gen + 1 \in 0 .. MaxSockets
      BY <1>3, DiagnosticsAssumption DEF OnSocketOpen, DiagInv, TypeOK, CountSound
    <3>s. sock # 0
      BY <1>3 DEF OnSocketOpen, DiagInv, SocketSound
    <3>3. RingSize \in Nat /\ 0 < RingSize
      BY DiagnosticsAssumption
    <3>4. ring' \in Seq(Events) /\ Len(ring') = 1 /\ Len(ring') <= RingSize /\ ring'[1] = ev
      <4>1. ev \in Events
        BY <3>2 DEF Events, Kinds
      <4>2. Append(<<>>, ev) = <<ev>> /\ Len(<<ev>>) = 1
        OBVIOUS
      <4>3. ring' = <<ev>>
        BY <3>1, <3>3, <4>2 DEF Recorded, KeepLast
      <4> QED
        BY <3>3, <4>1, <4>3
    <3>5. ev.event = "open" /\ ev.gen = gen + 1
      OBVIOUS
    <3>6. ev.sampled = (sock # 0)
      OBVIOUS
    <3> HIDE DEF ev
    <3>7. DOMAIN ring' = {1}
      BY <3>4
    <3>8. RingTellsOneSocket'
      BY <3>1, <3>s, <3>4, <3>5, <3>6, <3>7, Zenon DEF RingTellsOneSocket
    <3>9. DrainedWasPinged'
      BY <3>4, <3>5, <3>7 DEF DrainedWasPinged
    <3> QED
      BY <3>1, <3>4, <3>8, <3>9 DEF PendingIsNewest
  <2> QED
    BY <2>1, <2>2
<1>4. CASE LogsPingreq
  <2>1. CASE Logs
    <3>1. Record("pingreq") /\ gen' = gen /\ "pingreq" \in Kinds
      BY <1>4, <2>1 DEF LogsPingreq, Kinds
    <3>2. diag # 0
      BY <1>4, <2>1 DEF LogsPingreq, Logs, DiagInv, SocketSound
    <3> QED
      BY <3>1, <3>2, RecordKeepsRing
  <2>2. CASE ~Logs
    BY <1>4, <2>2, RingStands DEF LogsPingreq
  <2> QED
    BY <2>1, <2>2
<1>5. CASE LogsPingresp
  <2>1. CASE Logs
    <3>1. Record("pingresp") /\ UNCHANGED <<gen, pending>> /\ "pingresp" \in Kinds
      BY <1>5, <2>1 DEF LogsPingresp, Kinds
    <3>2. diag # 0
      BY <1>5, <2>1 DEF LogsPingresp, Logs, DiagInv, SocketSound
    <3> QED
      BY <3>1, <3>2, RecordKeepsRing
  <2>2. CASE ~Logs
    BY <1>5, <2>2, RingStands DEF LogsPingresp
  <2> QED
    BY <2>1, <2>2
<1>6. CASE UnregistersWrite \/ UnregistersOnClose
  <2>1. \/ OnUnregisterWrite(sock) /\ net = "drained"
        \/ OnUnregisterWrite(closing) /\ net = "unregister"
    BY <1>6 DEF UnregistersWrite, UnregistersOnClose
  <2>2. gen' = gen
    BY <1>6 DEF UnregistersWrite, UnregistersOnClose
  <2> QED
    <3>1. CASE OnUnregisterWrite(sock) /\ net = "drained"
      BY <2>2, <3>1, UnregisterKeeps
    <3>2. CASE OnUnregisterWrite(closing) /\ net = "unregister"
      BY <2>2, <3>2, UnregisterKeeps
    <3> QED
      BY <2>1, <3>1, <3>2
<1>7. CASE OnSocketClose
  <2>1. CASE IsClose(closing)
    <3>1. Record("close") /\ gen' = gen /\ pending' = 0 /\ "close" \in Kinds
      BY <1>7, <2>1 DEF OnSocketClose, Kinds
    <3>2. diag # 0
      BY <1>7, <2>1 DEF OnSocketClose, IsClose, DiagInv, SocketSound
    <3> QED
      BY <3>1, <3>2, RecordKeepsRing
  <2>2. CASE ~IsClose(closing)
    BY <1>7, <2>2, RingStands DEF OnSocketClose
  <2> QED
    BY <2>1, <2>2
<1>8. CASE Retire \/ \E a \in BOOLEAN : OnConnectResets(a)
  BY <1>2, <1>8, RingStands
<1> QED
  BY <1>1, <1>3, <1>4, <1>5, <1>6, <1>7, <1>8 DEF Next

\* Every step keeps the shape of the state.
LEMMA DiagTypeStep == DiagInv /\ [Next]_vars => TypeOK'
<1> SUFFICES ASSUME DiagInv, [Next]_vars PROVE TypeOK'
  OBVIOUS
<1>0. TypeOK /\ CountSound /\ RingSize \in Nat \ {0} /\ MaxSockets \in Nat /\ MaxPings \in Nat
  BY DiagnosticsAssumption DEF DiagInv
<1> USE DEF Next, vars, ownVars, pahoVars, diagVars, Start, StopBegins, ThreadEnds, Retire, OpensSocket,
            OnSocketOpen, OnConnectResets, LogsPingreq, QueuesPingreq, QueuesOther, Drains,
            UnregistersWrite, LogsPingresp, Loses, UnregistersOnClose, OnSocketClose, OnDisconnectReports
<1>1. owned' \in BOOLEAN /\ stopping' \in BOOLEAN /\ connected' \in BOOLEAN
  BY <1>0 DEF TypeOK
<1>2. up' \in BOOLEAN /\ unanswered' \in BOOLEAN /\ unreported' \in BOOLEAN
  BY <1>0 DEF TypeOK, OnUnregisterWrite, Record
<1>3. net' \in Net
  BY <1>0 DEF TypeOK, Net
<1>4. written' \in BOOLEAN /\ out' \subseteq {"ping", "data"}
  BY <1>0 DEF TypeOK
<1>5. sock' \in 0 .. MaxSockets /\ closing' \in 0 .. MaxSockets /\ made' \in 0 .. MaxSockets
  BY <1>0 DEF TypeOK
<1>6. gen' \in 0 .. MaxSockets
  BY <1>0 DEF TypeOK, CountSound
<1>7. diag' \in 0 .. MaxSockets /\ pending' \in 0 .. MaxSockets
  BY <1>0 DEF TypeOK, OnUnregisterWrite, PendingAfterDrain
<1>8. attempts' \in 0 .. MaxPings
  BY <1>0 DEF TypeOK
<1>9. pongs' \in 0 .. MaxPings
  BY <1>0 DEF TypeOK, CountSound, Logs
<1>10. ring' \in Seq(Events) /\ Len(ring') <= RingSize
  BY RingStep
<1>11. report' \in Seq(Events)
  <2>1. report' \in {report, ring, <<>>}
    OBVIOUS
  <2>2. <<>> \in Seq(Events)
    OBVIOUS
  <2> QED
    BY <1>0, <2>1, <2>2 DEF TypeOK
<1> QED
  BY <1>1, <1>2, <1>3, <1>4, <1>5, <1>6, <1>7, <1>8, <1>9, <1>10, <1>11 DEF TypeOK

\* Every step keeps the diagnostics on the socket that paho has or is closing.
LEMMA SocketStep == DiagInv /\ [Next]_vars => SocketSound'
<1> SUFFICES ASSUME DiagInv, [Next]_vars PROVE SocketSound'
  OBVIOUS
<1>0. SocketSound /\ made \in Nat
  BY DEF DiagInv, TypeOK
<1> USE DEF ownVars, pahoVars, diagVars
<1>1. CASE Start
  BY <1>0, <1>1 DEF Start, SocketSound
<1>2. CASE StopBegins
  BY <1>0, <1>2 DEF StopBegins, SocketSound
<1>3. CASE ThreadEnds
  BY <1>0, <1>3 DEF ThreadEnds, SocketSound
<1>4. CASE Retire
  BY <1>0, <1>4 DEF Retire, SocketSound
<1>5. CASE OpensSocket
  BY <1>0, <1>5 DEF OpensSocket, SocketSound
<1>6. CASE OnSocketOpen
  BY <1>0, <1>6 DEF OnSocketOpen, SocketSound
<1>7. CASE LogsPingreq
  BY <1>0, <1>7 DEF LogsPingreq, SocketSound
<1>8. CASE QueuesPingreq
  BY <1>0, <1>8 DEF QueuesPingreq, SocketSound
<1>9. CASE QueuesOther
  BY <1>0, <1>9 DEF QueuesOther, SocketSound
<1>10. CASE Drains
  BY <1>0, <1>10 DEF Drains, SocketSound
<1>11. CASE UnregistersWrite
  BY <1>0, <1>11 DEF UnregistersWrite, SocketSound
<1>12. CASE LogsPingresp
  BY <1>0, <1>12 DEF LogsPingresp, SocketSound
<1>13. CASE Loses
  BY <1>0, <1>13 DEF Loses, SocketSound
<1>14. CASE UnregistersOnClose
  BY <1>0, <1>14 DEF UnregistersOnClose, SocketSound
<1>15. CASE OnSocketClose
  BY <1>0, <1>15 DEF OnSocketClose, SocketSound
<1>16. CASE OnDisconnectReports
  BY <1>0, <1>16 DEF OnDisconnectReports, SocketSound
<1>17. ASSUME NEW a \in BOOLEAN, OnConnectResets(a) PROVE SocketSound'
  BY <1>0, <1>17 DEF OnConnectResets, SocketSound
<1>18. CASE UNCHANGED vars
  BY <1>0, <1>18 DEF vars, SocketSound
<1> QED
  BY <1>1, <1>2, <1>3, <1>4, <1>5, <1>6, <1>7, <1>8, <1>9, <1>10, <1>11, <1>12,
     <1>13, <1>14, <1>15, <1>16, <1>17, <1>18 DEF Next

\* Every step keeps the counts of sockets, pings and answers.
LEMMA CountStep == DiagInv /\ [Next]_vars => CountSound'
<1> SUFFICES ASSUME DiagInv, [Next]_vars PROVE CountSound'
  OBVIOUS
<1>0. CountSound /\ SocketSound /\ gen \in Nat /\ made \in Nat /\ attempts \in Nat /\ pongs \in Nat
  BY DEF DiagInv, TypeOK
<1> USE DEF ownVars, pahoVars, diagVars
<1>1. CASE Start
  BY <1>0, <1>1 DEF Start, CountSound, SocketSound
<1>2. CASE StopBegins
  BY <1>0, <1>2 DEF StopBegins, CountSound, SocketSound
<1>3. CASE ThreadEnds
  BY <1>0, <1>3 DEF ThreadEnds, CountSound, SocketSound
<1>4. CASE Retire
  BY <1>0, <1>4 DEF Retire, CountSound, SocketSound
<1>5. CASE OpensSocket
  BY <1>0, <1>5 DEF OpensSocket, CountSound, SocketSound
<1>6. CASE OnSocketOpen
  BY <1>0, <1>6 DEF OnSocketOpen, CountSound, SocketSound
<1>7. CASE LogsPingreq
  BY <1>0, <1>7 DEF LogsPingreq, Logs, CountSound, SocketSound
<1>8. CASE QueuesPingreq
  BY <1>0, <1>8 DEF QueuesPingreq, CountSound, SocketSound
<1>9. CASE QueuesOther
  BY <1>0, <1>9 DEF QueuesOther, CountSound, SocketSound
<1>10. CASE Drains
  BY <1>0, <1>10 DEF Drains, CountSound, SocketSound
<1>11. CASE UnregistersWrite
  BY <1>0, <1>11 DEF UnregistersWrite, CountSound, SocketSound
<1>12. CASE LogsPingresp
  BY <1>0, <1>12 DEF LogsPingresp, Logs, CountSound, SocketSound
<1>13. CASE Loses
  BY <1>0, <1>13 DEF Loses, CountSound, SocketSound
<1>14. CASE UnregistersOnClose
  BY <1>0, <1>14 DEF UnregistersOnClose, CountSound, SocketSound
<1>15. CASE OnSocketClose
  BY <1>0, <1>15 DEF OnSocketClose, CountSound, SocketSound
<1>16. CASE OnDisconnectReports
  BY <1>0, <1>16 DEF OnDisconnectReports, CountSound, SocketSound
<1>17. ASSUME NEW a \in BOOLEAN, OnConnectResets(a) PROVE CountSound'
  BY <1>0, <1>17 DEF OnConnectResets, CountSound, SocketSound
<1>18. CASE UNCHANGED vars
  BY <1>0, <1>18 DEF vars, CountSound, SocketSound
<1> QED
  BY <1>1, <1>2, <1>3, <1>4, <1>5, <1>6, <1>7, <1>8, <1>9, <1>10, <1>11, <1>12,
     <1>13, <1>14, <1>15, <1>16, <1>17, <1>18 DEF Next

\* Every step keeps a pending ping on its way.
LEMMA PingStep == DiagInv /\ [Next]_vars => PingSound'
<1> SUFFICES ASSUME DiagInv, [Next]_vars PROVE PingSound'
  OBVIOUS
<1>0. PingSound /\ SocketSound
  BY DEF DiagInv
<1> USE DEF ownVars, pahoVars, diagVars
<1>1. CASE Start
  BY <1>0, <1>1 DEF Start, PingSound, SocketSound
<1>2. CASE StopBegins
  BY <1>0, <1>2 DEF StopBegins, PingSound, SocketSound
<1>3. CASE ThreadEnds
  BY <1>0, <1>3 DEF ThreadEnds, PingSound, SocketSound
<1>4. CASE Retire
  BY <1>0, <1>4 DEF Retire, PingSound, SocketSound
<1>5. CASE OpensSocket
  BY <1>0, <1>5 DEF OpensSocket, PingSound, SocketSound
<1>6. CASE OnSocketOpen
  BY <1>0, <1>6 DEF OnSocketOpen, PingSound, SocketSound
<1>7. CASE LogsPingreq
  BY <1>0, <1>7 DEF LogsPingreq, PingSound, SocketSound
<1>8. CASE QueuesPingreq
  BY <1>0, <1>8 DEF QueuesPingreq, PingSound, SocketSound
<1>9. CASE QueuesOther
  BY <1>0, <1>9 DEF QueuesOther, PingSound, SocketSound
<1>10. CASE Drains
  BY <1>0, <1>10 DEF Drains, PingSound, SocketSound
<1>11. CASE UnregistersWrite
  BY <1>0, <1>11 DEF UnregistersWrite, OnUnregisterWrite, PendingAfterDrain, PingSound, SocketSound
<1>12. CASE LogsPingresp
  BY <1>0, <1>12 DEF LogsPingresp, PingSound, SocketSound
<1>13. CASE Loses
  BY <1>0, <1>13 DEF Loses, PingSound, SocketSound
<1>14. CASE UnregistersOnClose
  BY <1>0, <1>14 DEF UnregistersOnClose, OnUnregisterWrite, PendingAfterDrain, PingSound, SocketSound
<1>15. CASE OnSocketClose
  BY <1>0, <1>15 DEF OnSocketClose, IsClose, PingSound, SocketSound
<1>16. CASE OnDisconnectReports
  BY <1>0, <1>16 DEF OnDisconnectReports, PingSound, SocketSound
<1>17. ASSUME NEW a \in BOOLEAN, OnConnectResets(a) PROVE PingSound'
  BY <1>0, <1>17 DEF OnConnectResets, PingSound, SocketSound
<1>18. CASE UNCHANGED vars
  BY <1>0, <1>18 DEF vars, PingSound, SocketSound
<1> QED
  BY <1>1, <1>2, <1>3, <1>4, <1>5, <1>6, <1>7, <1>8, <1>9, <1>10, <1>11, <1>12,
     <1>13, <1>14, <1>15, <1>16, <1>17, <1>18 DEF Next

\* Every step keeps the close at the end of the ring until it has been reported, and
\* the warning that carries events ends with it.
LEMMA WarningStep == DiagInv /\ [Next]_vars => CloseIsLast' /\ WarningShowsClose'
<1> SUFFICES ASSUME DiagInv, [Next]_vars PROVE CloseIsLast' /\ WarningShowsClose'
  OBVIOUS
<1>0. CloseIsLast /\ WarningShowsClose /\ SocketSound
  BY DEF DiagInv
<1> USE DEF ownVars, pahoVars, diagVars
<1>1. CASE OnSocketClose
  <2>1. report' = report
    BY <1>1 DEF OnSocketClose
  <2>2. CASE stopping
    BY <1>0, <1>1, <2>1, <2>2 DEF OnSocketClose, CloseIsLast, WarningShowsClose
  <2>3. CASE ~stopping
    <3>1. IsClose(closing) /\ diag # 0
      BY <1>0, <1>1, <2>3 DEF OnSocketClose, IsClose, SocketSound
    <3>2. Record("close") /\ gen' = gen /\ pending' = 0 /\ "close" \in Kinds
      BY <1>1, <3>1 DEF OnSocketClose, Kinds
    <3>3. ring' # <<>> /\ ring'[Len(ring')].event = "close"
      BY <3>1, <3>2, RecordKeepsRing
    <3> QED
      BY <1>0, <2>1, <3>3 DEF CloseIsLast, WarningShowsClose
  <2> QED
    BY <2>2, <2>3
<1>2. CASE OnDisconnectReports
  <2>1. UNCHANGED <<ring, stopping>> /\ net = "disconnect"
    BY <1>2 DEF OnDisconnectReports
  <2>2. CASE stopping
    BY <1>0, <1>2, <2>1, <2>2 DEF OnDisconnectReports, CloseIsLast, WarningShowsClose
  <2>3. CASE ~stopping
    <3>1. report' \in {ring, <<>>}
      BY <1>2, <2>3 DEF OnDisconnectReports
    <3> QED
      BY <1>0, <2>1, <2>3, <3>1 DEF CloseIsLast, WarningShowsClose
  <2> QED
    BY <2>2, <2>3
<1>3. CASE net' # "disconnect" /\ report' = report
  BY <1>0, <1>3 DEF CloseIsLast, WarningShowsClose
<1>4. CASE StopBegins \/ QueuesOther \/ UNCHANGED vars
  <2>1. UNCHANGED <<report, ring, net>> /\ (~stopping' => ~stopping)
    BY <1>4 DEF StopBegins, QueuesOther, vars
  <2> QED
    BY <1>0, <2>1 DEF CloseIsLast, WarningShowsClose
<1>5. \/ net' # "disconnect" /\ report' = report
      \/ OnSocketClose \/ OnDisconnectReports \/ StopBegins \/ QueuesOther \/ UNCHANGED vars
  BY DEF Next, Start, ThreadEnds, Retire, OpensSocket, OnSocketOpen, OnConnectResets, LogsPingreq,
         QueuesPingreq, Drains, UnregistersWrite, LogsPingresp, Loses, UnregistersOnClose
<1> QED
  BY <1>1, <1>2, <1>3, <1>4, <1>5

-----------------------------------------------------------------------------

\* The inductive invariant of the diagnostics: while no shutdown has begun they follow
\* the socket paho has or is closing, and a ping that is pending has the newest event of
\* its kind in the ring (_on_socket_open, _on_log, _on_socket_unregister_write,
\* _on_socket_close, _on_disconnect).
THEOREM DiagInvariance == Spec => []DiagInv
<1>1. ASSUME Init PROVE DiagInv
  <2> USE DEF Init
  <2>1. TypeOK
    <3>1. /\ owned \in BOOLEAN /\ stopping \in BOOLEAN /\ connected \in BOOLEAN
          /\ up \in BOOLEAN /\ unanswered \in BOOLEAN /\ written \in BOOLEAN /\ unreported \in BOOLEAN
          /\ net \in Net /\ out \subseteq {"ping", "data"}
      BY <1>1 DEF Net
    <3>2. /\ sock \in 0 .. MaxSockets /\ closing \in 0 .. MaxSockets /\ made \in 0 .. MaxSockets
          /\ gen \in 0 .. MaxSockets /\ diag \in 0 .. MaxSockets /\ pending \in 0 .. MaxSockets
          /\ attempts \in 0 .. MaxPings /\ pongs \in 0 .. MaxPings
      BY <1>1, DiagnosticsAssumption
    <3>3. ring \in Seq(Events) /\ Len(ring) <= RingSize /\ report \in Seq(Events)
      BY <1>1, DiagnosticsAssumption
    <3> QED
      BY <3>1, <3>2, <3>3 DEF TypeOK
  <2>2. SocketSound /\ CountSound /\ PingSound
    BY <1>1 DEF SocketSound, CountSound, PingSound
  <2>3. DOMAIN ring = {}
    BY <1>1
  <2>4. RingTellsOneSocket /\ DrainedWasPinged
    BY <2>3 DEF RingTellsOneSocket, DrainedWasPinged
  <2>5. PendingIsNewest /\ CloseIsLast /\ WarningShowsClose
    BY <1>1 DEF PendingIsNewest, CloseIsLast, WarningShowsClose
  <2> QED
    BY <2>1, <2>2, <2>4, <2>5 DEF DiagInv
<1>2. DiagInv /\ [Next]_vars => DiagInv'
  <2> SUFFICES ASSUME DiagInv, [Next]_vars PROVE DiagInv'
    OBVIOUS
  <2> QED
    BY RingStep, DiagTypeStep, SocketStep, CountStep, PingStep, WarningStep DEF DiagInv
<1> QED
  BY <1>1, <1>2, PTL DEF Spec

\* The ring tells of the latest socket only, however many sockets, transports and
\* shutdowns there were (_record_transport_event, _on_socket_open).
THEOREM RingTellsOneSocketHolds == Spec => []RingTellsOneSocket
<1>1. DiagInv => RingTellsOneSocket
  BY DEF DiagInv
<1> QED
  BY <1>1, DiagInvariance, PTL

\* Between two drained queues lies a PINGREQ, for every size of the ring
\* (_on_socket_unregister_write).
THEOREM DrainedWasPingedHolds == Spec => []DrainedWasPinged
<1>1. DiagInv => DrainedWasPinged
  BY DEF DiagInv
<1> QED
  BY <1>1, DiagInvariance, PTL

\* The warning of a disconnect that carries events ends with the close of its socket
\* (_on_socket_close, _on_disconnect).
THEOREM WarningShowsCloseHolds == Spec => []WarningShowsClose
<1>1. DiagInv => WarningShowsClose
  BY DEF DiagInv
<1> QED
  BY <1>1, DiagInvariance, PTL

\* A drained queue is reported only for a PINGREQ that was written to a socket that is
\* still there (_on_socket_unregister_write).
THEOREM DrainedMeansWrittenHolds == Spec => DrainedMeansWritten
<1> DEFINE Sound == ring' # ring /\ ring' # <<>> /\ ring'[Len(ring')].event = "drained"
                      => written /\ sock # 0
<1>1. ASSUME DiagInv, [Next]_vars PROVE Sound
  <2> USE DEF ownVars, pahoVars, diagVars
  <2>1. CASE UnregistersWrite
    <3>1. OnUnregisterWrite(sock) /\ gen' = gen /\ net = "drained"
      BY <2>1 DEF UnregistersWrite
    <3> QED
      BY <1>1, <3>1, UnregisterKeeps
  <2>2. CASE UnregistersOnClose
    <3>1. OnUnregisterWrite(closing) /\ gen' = gen /\ net = "unregister"
      BY <2>2 DEF UnregistersOnClose
    <3> QED
      BY <1>1, <3>1, UnregisterKeeps
  <2>3. ASSUME NEW e \in Kinds \ {"drained"}, NEW g \in 0 .. MaxSockets, NEW d, NEW s \in Seq(Events),
               Len(s) <= RingSize, ring' = Recorded(s, e, g, d)
        PROVE  Sound
    <3>1. ring'[Len(ring')] = [event |-> e, gen |-> g, sampled |-> d # 0]
      BY <2>3, RecordedFacts
    <3> QED
      BY <3>1
  <2>4. CASE OnSocketOpen
    <3>1. CASE ring' = ring
      BY <3>1
    <3>2. CASE ring' = Recorded(<<>>, "open", gen + 1, sock)
      <4>1. gen + 1 \in 0 .. MaxSockets
        BY <1>1, <2>4, DiagnosticsAssumption DEF OnSocketOpen, DiagInv, TypeOK, CountSound
      <4>2. <<>> \in Seq(Events) /\ Len(<<>>) <= RingSize /\ "open" \in Kinds \ {"drained"}
        BY DiagnosticsAssumption DEF Kinds
      <4> QED
        BY <2>3, <3>2, <4>1, <4>2
    <3> QED
      BY <2>4, <3>1, <3>2 DEF OnSocketOpen, RingCleared
  <2>5. CASE LogsPingreq \/ LogsPingresp \/ OnSocketClose
    <3>1. \/ ring' = ring
          \/ \E e \in Kinds \ {"drained"} : ring' = Recorded(ring, e, gen, diag)
      BY <2>5 DEF LogsPingreq, LogsPingresp, OnSocketClose, Record, Kinds
    <3>2. ring \in Seq(Events) /\ Len(ring) <= RingSize /\ gen \in 0 .. MaxSockets
      BY <1>1 DEF DiagInv, TypeOK
    <3> QED
      BY <2>3, <3>1, <3>2
  <2>6. CASE ring' = ring
    BY <2>6
  <2>7. \/ ring' = ring \/ OnSocketOpen \/ LogsPingreq \/ LogsPingresp \/ OnSocketClose
        \/ UnregistersWrite \/ UnregistersOnClose
    BY <1>1 DEF Next, vars, Start, StopBegins, ThreadEnds, Retire, OpensSocket, OnConnectResets,
                QueuesPingreq, QueuesOther, Drains, Loses, OnDisconnectReports
  <2> QED
    BY <2>1, <2>2, <2>4, <2>5, <2>6, <2>7
<1>2. DiagInv /\ [Next]_vars => [Sound]_vars
  BY <1>1
<1> QED
  BY <1>2, DiagInvariance, PTL DEF Spec, DrainedMeansWritten

-----------------------------------------------------------------------------
(* RegistryPublish: what the registries hold.                               *)

\* The commands of a publication: every version, then every latest.
LEMMA ContainerCommandsSound ==
  ASSUME NEW move \in BOOLEAN
  PROVE  LET todo == ContainerCommands(move) IN
         /\ todo \in Seq(Commands) /\ todo # <<>>
         /\ \A i, j \in DOMAIN todo : i < j /\ todo[i][2] = "latest" => todo[j][2] = "latest"
         /\ \A e \in Destinations : \E j \in DOMAIN todo : todo[j] = <<e, "version">>
<1> DEFINE n == Len(Mapping)
           todo == ContainerCommands(move)
<1>1. n \in Nat \ {0} /\ DOMAIN Mapping = 1 .. n /\ \A i \in 1 .. n : Mapping[i] \in Destinations
  BY MappingAssumption
<1>2. /\ Versioned = [i \in 1 .. n |-> <<Mapping[i], "version">>]
      /\ Latest = [i \in 1 .. n |-> <<Mapping[i], "latest">>]
  BY <1>1 DEF Versioned, Latest
<1>3. \A i \in 1 .. n : <<Mapping[i], "version">> \in Commands /\ <<Mapping[i], "latest">> \in Commands
  BY <1>1 DEF Commands
<1> HIDE DEF n
<1>4. /\ Versioned \in Seq(Commands) /\ Len(Versioned) = n
      /\ Latest \in Seq(Commands) /\ Len(Latest) = n
  BY <1>1, <1>2, <1>3
<1>5. \A e \in Destinations : \E k \in 1 .. n : Mapping[k] = e
  BY <1>1 DEF Destinations, Range
<1>6. CASE move
  <2>1. todo = Versioned \o Latest
    BY <1>6 DEF ContainerCommands
  <2> HIDE DEF todo
  <2>a. todo \in Seq(Commands) /\ Len(todo) = n + n
    BY <1>4, <2>1, ConcatProperties
  <2>b. \A i \in 1 .. n + n : todo[i] = IF i <= n THEN Versioned[i] ELSE Latest[i - n]
    BY <1>4, <2>1, ConcatProperties
  <2>2. /\ todo \in Seq(Commands) /\ Len(todo) = n + n /\ DOMAIN todo = 1 .. n + n
        /\ \A i \in 1 .. n : todo[i] = Versioned[i]
        /\ \A i \in n + 1 .. n + n : todo[i] = Latest[i - n]
    BY <1>1, <2>a, <2>b
  <2>3. \A i \in 1 .. n : todo[i] = <<Mapping[i], "version">>
    BY <1>2, <2>2
  <2>4. \A i \in n + 1 .. n + n : todo[i][2] = "latest"
    <3> SUFFICES ASSUME NEW i \in n + 1 .. n + n PROVE todo[i][2] = "latest"
      OBVIOUS
    <3>1. i - n \in 1 .. n /\ todo[i] = Latest[i - n]
      BY <1>1, <2>2
    <3>2. Latest[i - n] = <<Mapping[i - n], "latest">>
      BY <1>2, <3>1
    <3> QED
      BY <3>1, <3>2
  <2>5. \A i \in 1 .. n : todo[i][2] = "version"
    BY <2>3
  <2>6. todo # <<>>
    BY <1>1, <2>2
  <2>7. ASSUME NEW i \in DOMAIN todo, NEW j \in DOMAIN todo, i < j, todo[i][2] = "latest"
        PROVE  todo[j][2] = "latest"
    BY <1>1, <2>2, <2>4, <2>5, <2>7
  <2>8. \A e \in Destinations : \E j \in DOMAIN todo : todo[j] = <<e, "version">>
    <3> SUFFICES ASSUME NEW e \in Destinations PROVE \E j \in DOMAIN todo : todo[j] = <<e, "version">>
      OBVIOUS
    <3>1. PICK k \in 1 .. n : Mapping[k] = e
      BY <1>5
    <3>2. k \in DOMAIN todo /\ todo[k] = <<e, "version">>
      BY <1>1, <2>2, <2>3, <3>1
    <3> QED
      BY <3>2
  <2> QED
    BY <2>2, <2>6, <2>7, <2>8 DEF todo
<1>7. CASE ~move
  <2>1. todo = Versioned
    BY <1>7 DEF ContainerCommands
  <2>2. todo \in Seq(Commands) /\ DOMAIN todo = 1 .. n
    BY <1>2, <1>4, <2>1
  <2>3. \A i \in 1 .. n : todo[i] = <<Mapping[i], "version">>
    BY <1>2, <2>1
  <2> HIDE DEF todo
  <2>4. todo # <<>>
    BY <1>1, <2>2
  <2>5. \A i \in 1 .. n : todo[i][2] = "version"
    BY <2>3
  <2> QED
    BY <1>5, <2>2, <2>3, <2>4, <2>5 DEF todo
<1> QED
  BY <1>6, <1>7

\* Every step keeps the shape of the state.
LEMMA RegTypeStep == RegInv /\ [RegNext]_regVars => RegTypeOK'
<1> SUFFICES ASSUME RegInv, [RegNext]_regVars PROVE RegTypeOK'
  OBVIOUS
<1>0. RegTypeOK
  BY DEF RegInv
<1> DEFINE OpType == [pc : {"idle", "preflight", "execute"}, version : Stable \cup {0},
                      bytes : Contents, checked : Nat, todo : Seq(Commands)]
<1>1. NoOp \in OpType
  <2>1. <<>> \in Seq(Commands)
    OBVIOUS
  <2> QED
    BY <2>1 DEF NoOp, Contents
<1>2. ASSUME NEW o \in Operators, NEW s \in OpType, Operator(o, s)
      PROVE  op' \in [Operators -> OpType]
  BY <1>0, <1>2 DEF RegTypeOK, Operator
<1>3. \A o \in Operators : op[o] \in OpType
  BY <1>0 DEF RegTypeOK
<1>4. ASSUME NEW o \in Operators, NEW target \in {"pypi", "containers"}, NEW v \in Stable,
             NEW move \in BOOLEAN, Verify(o, target, v, move)
      PROVE  RegTypeOK'
  <2> DEFINE todo == IF target = "pypi" THEN <<<<PyPI, "version">>>> ELSE ContainerCommands(move)
             s == [NoOp EXCEPT !.pc = IF target = "pypi" THEN "execute" ELSE "preflight",
                               !.version = v, !.bytes = offered[v], !.todo = todo]
  <2>1. todo \in Seq(Commands)
    BY ContainerCommandsSound DEF Commands
  <2>2. offered[v] \in Contents
    BY <1>0 DEF RegTypeOK
  <2> HIDE DEF todo
  <2>3. s \in OpType
    BY <2>1, <2>2 DEF NoOp
  <2>4. Operator(o, s)
    BY <1>4 DEF Verify, todo
  <2> QED
    BY <1>0, <1>2, <1>4, <2>3, <2>4 DEF RegTypeOK, Verify
<1>5. ASSUME NEW o \in Operators, CheckImage(o) PROVE RegTypeOK'
  <2>a. op[o] \in OpType
    BY <1>3
  <2>1. [op[o] EXCEPT !.checked = @ + 1] \in OpType
    BY <2>a
  <2>b. [op[o] EXCEPT !.pc = "execute", !.checked = 0] \in OpType
    BY <2>a
  <2>2. \E s \in OpType : Operator(o, s)
    BY <1>1, <1>5, <2>1, <2>b DEF CheckImage
  <2> QED
    BY <1>0, <1>2, <1>5, <2>2 DEF RegTypeOK, CheckImage
<1>6. ASSUME NEW o \in Operators, Execute(o) PROVE RegTypeOK'
  <2> DEFINE s == op[o]
             c == s.todo[1]
  <2>1. s.pc = "execute" /\ s \in OpType /\ OperatorSound(s)
    BY <1>3, <1>6 DEF Execute, RegInv, OperatorsSound
  <2>2. s.todo \in Seq(Commands) /\ s.todo # <<>> /\ s.version \in Stable /\ s.bytes \in Contents
    BY <2>1 DEF OperatorSound, CommandsSound
  <2>3. c \in Commands /\ Tail(s.todo) \in Seq(Commands)
    BY <2>2
  <2>4. [s EXCEPT !.todo = Tail(@)] \in OpType
    BY <2>1, <2>3
  <2>5. op' \in [Operators -> OpType]
    BY <1>1, <1>2, <1>6, <2>4 DEF Execute
  <2>6. registry' \in [Destinations \cup {PyPI} -> [Stable -> Contents]]
    <3>1. \/ registry' = registry
          \/ registry' = [registry EXCEPT ![c[1]] = [registry[c[1]] EXCEPT ![s.version] = s.bytes]]
      BY <1>6 DEF Execute
    <3>2. c[1] \in Destinations \cup {PyPI}
      BY <2>3 DEF Commands
    <3>3. PICK d \in Destinations \cup {PyPI} : d = c[1]
      BY <3>2
    <3>4. PICK v \in Stable, b \in Contents : v = s.version /\ b = s.bytes
      BY <2>2
    <3>5. \/ registry' = registry
          \/ registry' = [registry EXCEPT ![d] = [registry[d] EXCEPT ![v] = b]]
      BY <3>1, <3>3, <3>4
    <3>6. PICK f \in [Stable -> Contents] : f = [registry[d] EXCEPT ![v] = b]
      <4>1. registry[d] \in [Stable -> Contents]
        BY <1>0 DEF RegTypeOK
      <4>2. [registry[d] EXCEPT ![v] = b] \in [Stable -> Contents]
        BY <4>1
      <4> QED
        BY <4>2
    <3>7. registry' = registry \/ registry' = [registry EXCEPT ![d] = f]
      BY <3>5, <3>6
    <3> QED
      BY <1>0, <3>7 DEF RegTypeOK
  <2>7. latest' \in [Destinations -> Stable \cup {0}]
    BY <1>0, <1>6, <2>2 DEF RegTypeOK, Execute
  <2> QED
    BY <1>0, <1>6, <2>5, <2>6, <2>7 DEF RegTypeOK, Execute
<1>7. ASSUME NEW o \in Operators, OperatorFails(o) PROVE RegTypeOK'
  BY <1>0, <1>1, <1>2, <1>7 DEF RegTypeOK, OperatorFails
<1>8. ASSUME NEW v \in Stable, ChangeRelease(v) PROVE RegTypeOK'
  BY <1>0, <1>8 DEF RegTypeOK, ChangeRelease
<1>9. CASE ChangePolicy
  BY <1>0, <1>9 DEF RegTypeOK, ChangePolicy
<1>10. CASE UNCHANGED regVars
  BY <1>0, <1>10 DEF RegTypeOK, regVars
<1> QED
  BY <1>4, <1>5, <1>6, <1>7, <1>8, <1>9, <1>10 DEF RegNext

\* An operator's commands stay sound while registries only gain approved versions.
LEMMA CommandsStand ==
  ASSUME NEW s, OperatorSound(s),
         \A e \in Destinations : \A v \in Stable :
           registry[e][v] = "approved" => registry'[e][v] = "approved"
  PROVE  OperatorSound(s)'
  BY DEF OperatorSound, CommandsSound

\* The steps that change no registry and put one operator into a sound state.
LEMMA OperatorMoves ==
  ASSUME RegInv, RegTypeOK', NEW o \in Operators, NEW s, Operator(o, s), OperatorSound(s),
         UNCHANGED <<registry, latest>>
  PROVE  OperatorsSound' /\ RegistryHoldsApproved'
<1>1. ASSUME NEW p \in Operators PROVE OperatorSound(op[p])'
  <2>1. op'[p] = IF p = o THEN s ELSE op[p]
    BY DEF Operator, RegInv, RegTypeOK
  <2>2. OperatorSound(op'[p])
    BY <2>1 DEF RegInv, OperatorsSound
  <2> QED
    BY <2>2 DEF OperatorSound, CommandsSound
<1>2. RegistryHoldsApproved'
  BY DEF RegInv, RegistryHoldsApproved
<1> QED
  BY <1>1, <1>2 DEF OperatorsSound

\* One command: a version is pushed with approved bytes, and a latest tag tags only
\* when no version is left to push.
LEMMA ExecuteSound ==
  ASSUME RegInv, RegTypeOK', NEW o \in Operators, Execute(o)
  PROVE  OperatorsSound' /\ RegistryHoldsApproved'
<1>s. PICK s : s = op[o]
  OBVIOUS
<1> DEFINE c == s.todo[1]
<1>n. PICK n : n = IF Len(s.todo) = 1 THEN NoOp ELSE [s EXCEPT !.todo = Tail(@)]
  OBVIOUS
<1>1. RegTypeOK /\ RegistryHoldsApproved /\ OperatorSound(s) /\ s.pc = "execute"
  BY <1>s DEF RegInv, OperatorsSound, Execute
<1>2. s.version \in Stable /\ s.bytes = "approved" /\ CommandsSound(s) /\ s.todo \in Seq(Commands)
  BY <1>s, <1>1 DEF OperatorSound, RegTypeOK
<1>3. s.todo # <<>> /\ c \in Commands /\ 1 \in DOMAIN s.todo
  BY <1>2 DEF CommandsSound
<1>4. \/ /\ c[2] = "version" /\ latest' = latest
         /\ registry' = [registry EXCEPT ![c[1]][s.version] = "approved"]
      \/ /\ c[2] = "latest" /\ registry' = registry
         /\ latest' = [latest EXCEPT ![c[1]] = s.version]
  BY <1>s, <1>2 DEF Execute
<1>5. c[1] \in Destinations \cup {PyPI} /\ (c[2] = "latest" => c[1] \in Destinations)
  BY <1>3 DEF Commands
<1>6. PICK v \in Stable : v = s.version
  BY <1>2
<1>7. PICK d \in Destinations \cup {PyPI} : d = c[1]
  BY <1>5
<1>8. /\ registry \in [Destinations \cup {PyPI} -> [Stable -> Contents]]
      /\ \A e \in Destinations \cup {PyPI} : \A w \in Stable : registry[e][w] \in {"none", "approved"}
  BY <1>1 DEF RegTypeOK, RegistryHoldsApproved
<1>9. /\ \A e \in Destinations \cup {PyPI} : \A w \in Stable :
           registry'[e][w] = registry[e][w] \/ registry'[e][w] = "approved"
      /\ c[2] = "version" => registry'[d][v] = "approved"
  <2>1. CASE registry' = registry /\ c[2] = "latest"
    BY <2>1
  <2>2. CASE registry' = [registry EXCEPT ![d] = [registry[d] EXCEPT ![v] = "approved"]]
    BY <1>8, <2>2
  <2> QED
    BY <1>4, <1>6, <1>7, <2>1, <2>2
<1>10. ASSUME c[2] = "latest", NEW e \in Destinations PROVE registry[e][v] = "approved"
  <2> DEFINE tags == {i \in DOMAIN s.todo : s.todo[i][2] = "latest"}
  <2>1. 1 \in tags /\ tags # {} /\ DOMAIN s.todo = 1 .. Len(s.todo) /\ Len(s.todo) \in Nat
    BY <1>2, <1>3, <1>10
  <2>2. \A j \in DOMAIN s.todo : s.todo[j][2] = "latest"
    BY <1>2, <2>1 DEF CommandsSound
  <2>3. \A j \in DOMAIN s.todo : s.todo[j] # <<e, "version">>
    BY <2>2
  <2> QED
    BY <1>2, <1>6, <2>1, <2>3 DEF CommandsSound
<1>11. OperatorSound(n)'
  <2>1. CASE Len(s.todo) = 1
    BY <1>n, <2>1 DEF OperatorSound, NoOp
  <2>2. CASE Len(s.todo) # 1
    <3>1. /\ n.todo = Tail(s.todo) /\ n.version = s.version /\ n.bytes = s.bytes /\ n.pc = s.pc
      BY <1>s, <1>n, <1>1, <2>2 DEF RegTypeOK
    <3>t. PICK t \in Seq(Commands) : t = s.todo
      BY <1>2
    <3>u. t # <<>> /\ Len(t) # 1 /\ n.todo = Tail(t)
      BY <1>3, <2>2, <3>1, <3>t
    <3>2. /\ Len(s.todo) \in Nat /\ Len(s.todo) >= 2 /\ DOMAIN s.todo = 1 .. Len(s.todo)
          /\ Len(n.todo) = Len(s.todo) - 1 /\ DOMAIN n.todo = 1 .. Len(s.todo) - 1
          /\ \A i \in 1 .. Len(s.todo) - 1 : n.todo[i] = s.todo[i + 1]
      <4>0. Len(t) \in Nat /\ DOMAIN t = 1 .. Len(t) /\ Len(t) # 0
        BY <3>u, EmptySeq
      <4>1. Len(t) \in Nat /\ Len(t) >= 2 /\ DOMAIN t = 1 .. Len(t)
        BY <3>u, <4>0
      <4>2. /\ Len(Tail(t)) = Len(t) - 1 /\ DOMAIN Tail(t) = 1 .. Len(t) - 1
            /\ \A i \in 1 .. Len(t) - 1 : Tail(t)[i] = t[i + 1]
        BY <3>u, <4>1
      <4> QED
        BY <3>t, <3>u, <4>1, <4>2
    <3> HIDE DEF c
    <3>3. n.todo # <<>>
      BY <3>2
    <3> DEFINE tags == {i \in DOMAIN s.todo : s.todo[i][2] = "latest"}
               left  == {i \in DOMAIN n.todo : n.todo[i][2] = "latest"}
    <3>4. \A i \in DOMAIN n.todo : i + 1 \in DOMAIN s.todo /\ (i \in left <=> i + 1 \in tags)
      BY <3>2
    <3>5. /\ \A i \in tags : \A j \in DOMAIN s.todo : i < j => j \in tags
          /\ tags # {} => \A e \in Destinations :
               registry[e][s.version] = "approved" \/ \E j \in DOMAIN s.todo : s.todo[j] = <<e, "version">>
      BY <1>2 DEF CommandsSound
    <3>6. left \subseteq DOMAIN n.todo
      OBVIOUS
    <3>7. \A i \in left : \A j \in DOMAIN n.todo : i < j => j \in left
      <4> SUFFICES ASSUME NEW i \in left, NEW j \in DOMAIN n.todo, i < j PROVE j \in left
        OBVIOUS
      <4>1. i + 1 \in tags /\ j + 1 \in DOMAIN s.todo /\ i + 1 < j + 1
        BY <3>2, <3>4
      <4> QED
        BY <3>4, <3>5, <4>1
    <3>8. ASSUME left # {}, NEW e \in Destinations
          PROVE  registry'[e][v] = "approved" \/ \E j \in DOMAIN n.todo : n.todo[j] = <<e, "version">>
      <4>1. tags # {}
        BY <3>4, <3>8
      <4>2. CASE registry[e][v] = "approved"
        BY <1>9, <4>2
      <4>3. ASSUME NEW j \in DOMAIN s.todo, s.todo[j] = <<e, "version">>, registry[e][v] # "approved"
            PROVE  registry'[e][v] = "approved" \/ \E i \in DOMAIN n.todo : n.todo[i] = <<e, "version">>
        <5>1. CASE j = 1
          <6>1. c = <<e, "version">>
            BY <4>3, <5>1 DEF c
          <6>2. c[1] = e /\ c[2] = "version"
            BY <6>1
          <6> QED
            BY <1>7, <1>9, <6>2
        <5>2. CASE j # 1
          <6>1. j - 1 \in DOMAIN n.todo /\ n.todo[j - 1] = s.todo[j]
            BY <3>2, <4>3, <5>2
          <6> QED
            BY <4>3, <6>1
        <5> QED
          BY <5>1, <5>2
      <4> QED
        BY <1>6, <3>5, <3>8, <4>1, <4>2, <4>3
    <3>9. n.version \in Stable /\ n.bytes = "approved" /\ n.version = v
      BY <1>2, <1>6, <3>1
    <3>10. CommandsSound(n)'
      <4>1. (\E i \in DOMAIN n.todo : n.todo[i][2] = "latest") => left # {}
        OBVIOUS
      <4> QED
        BY <3>3, <3>7, <3>8, <3>9 DEF CommandsSound
    <3> QED
      BY <3>9, <3>10 DEF OperatorSound
  <2> QED
    BY <2>1, <2>2
<1>12. ASSUME NEW p \in Operators PROVE OperatorSound(op[p])'
  <2>1. op'[p] = IF p = o THEN n ELSE op[p]
    BY <1>s, <1>n, <1>1 DEF Execute, Operator, RegTypeOK
  <2>2. CASE p = o
    BY <1>11, <2>1, <2>2 DEF OperatorSound, CommandsSound
  <2>3. CASE p # o
    <3>1. OperatorSound(op[p])
      BY DEF RegInv, OperatorsSound
    <3>2. op'[p] = op[p]
      BY <2>1, <2>3
    <3> QED
      <4>1. PICK r : r = op[p]
        OBVIOUS
      <4>2. OperatorSound(r)'
        BY <1>9, <3>1, <4>1, CommandsStand
      <4> QED
        BY <3>2, <4>1, <4>2 DEF OperatorSound, CommandsSound
  <2> QED
    BY <2>2, <2>3
<1>13. RegistryHoldsApproved'
  <2>1. DOMAIN registry' = Destinations \cup {PyPI}
    BY DEF RegTypeOK
  <2>2. \A e \in DOMAIN registry' : \A w \in Stable : registry'[e][w] \in {"none", "approved"}
    BY <1>8, <1>9, <2>1
  <2>3. ASSUME NEW e \in Destinations, NEW f \in Destinations, latest'[e] # 0
        PROVE  registry'[f][latest'[e]] = "approved"
    <3>1. CASE latest'[e] = latest[e]
      <4>1. latest[e] \in Stable /\ registry[f][latest[e]] = "approved"
        BY <1>1, <2>3, <3>1 DEF RegTypeOK, RegistryHoldsApproved
      <4> QED
        BY <1>9, <3>1, <4>1
    <3>2. CASE latest'[e] # latest[e]
      <4>1. c[2] = "latest" /\ latest'[e] = v
        BY <1>1, <1>4, <1>6, <3>2 DEF RegTypeOK
      <4> QED
        BY <1>9, <1>10, <4>1
    <3> QED
      BY <3>1, <3>2
  <2> QED
    BY <2>2, <2>3 DEF RegistryHoldsApproved
<1> QED
  BY <1>12, <1>13 DEF OperatorsSound

\* Every step keeps the operators and the registries sound.
LEMMA RegStep == RegInv /\ [RegNext]_regVars => RegInv'
<1> SUFFICES ASSUME RegInv, [RegNext]_regVars PROVE RegInv'
  OBVIOUS
<1>0. RegTypeOK /\ RegTypeOK'
  BY RegTypeStep DEF RegInv
<1>1. OperatorSound(NoOp)
  BY DEF OperatorSound, NoOp
<1>2. ASSUME NEW o \in Operators, NEW target \in {"pypi", "containers"}, NEW v \in Stable,
             NEW move \in BOOLEAN, Verify(o, target, v, move)
      PROVE  OperatorsSound' /\ RegistryHoldsApproved'
  <2>1. PICK todo : todo = IF target = "pypi" THEN <<<<PyPI, "version">>>> ELSE ContainerCommands(move)
    OBVIOUS
  <2>2. PICK s : s = [NoOp EXCEPT !.pc = IF target = "pypi" THEN "execute" ELSE "preflight",
                                  !.version = v, !.bytes = offered[v], !.todo = todo]
    OBVIOUS
  <2>3. Operator(o, s) /\ offered[v] = "approved"
    BY <1>2, <2>1, <2>2 DEF Verify, VerifiedAssets
  <2>r. s.todo = todo /\ s.version = v /\ s.bytes = "approved"
    BY <2>2, <2>3 DEF NoOp
  <2>4. CommandsSound(s)
    <3>2. CASE target = "pypi"
      <4>1. todo = <<<<PyPI, "version">>>>
        BY <2>1, <3>2
      <4>2. DOMAIN todo = {1} /\ todo[1][2] = "version" /\ todo # <<>>
        BY <4>1
      <4> QED
        BY <2>r, <4>2 DEF CommandsSound
    <3>3. CASE target # "pypi"
      <4>1. todo = ContainerCommands(move)
        BY <2>1, <3>3
      <4> QED
        BY <2>r, <4>1, ContainerCommandsSound DEF CommandsSound
    <3> QED
      BY <3>2, <3>3
  <2>5. OperatorSound(s)
    BY <2>r, <2>4 DEF OperatorSound
  <2> QED
    BY <1>0, <1>2, <2>3, <2>5, OperatorMoves DEF Verify
<1>3. ASSUME NEW o \in Operators, CheckImage(o) PROVE OperatorsSound' /\ RegistryHoldsApproved'
  <2>1. OperatorSound(op[o]) /\ op[o].pc = "preflight"
    BY <1>3 DEF RegInv, OperatorsSound, CheckImage
  <2>2. PICK s : Operator(o, s) /\ s \in {NoOp, [op[o] EXCEPT !.checked = @ + 1],
                                          [op[o] EXCEPT !.pc = "execute", !.checked = 0]}
    BY <1>3 DEF CheckImage
  <2>3. s = NoOp \/ (s.todo = op[o].todo /\ s.version = op[o].version /\ s.bytes = op[o].bytes)
    <3>1. op[o] \in [pc : {"idle", "preflight", "execute"}, version : Stable \cup {0},
                     bytes : Contents, checked : Nat, todo : Seq(Commands)]
      BY <1>0 DEF RegTypeOK
    <3>2. PICK r : r = op[o]
      OBVIOUS
    <3>3. s \in {NoOp, [r EXCEPT !.checked = @ + 1], [r EXCEPT !.pc = "execute", !.checked = 0]}
      BY <2>2, <3>2
    <3> QED
      BY <3>1, <3>2, <3>3
  <2>4. OperatorSound(s)
    BY <1>1, <2>1, <2>3 DEF OperatorSound, CommandsSound
  <2> QED
    BY <1>0, <1>3, <2>2, <2>4, OperatorMoves DEF CheckImage
<1>4. ASSUME NEW o \in Operators, Execute(o) PROVE OperatorsSound' /\ RegistryHoldsApproved'
  BY <1>0, <1>4, ExecuteSound
<1>5. ASSUME NEW o \in Operators, OperatorFails(o) PROVE OperatorsSound' /\ RegistryHoldsApproved'
  <2>1. PICK s : s = NoOp
    OBVIOUS
  <2>2. Operator(o, s) /\ OperatorSound(s)
    BY <1>1, <1>5, <2>1 DEF OperatorFails
  <2> QED
    BY <1>0, <1>5, <2>2, OperatorMoves DEF OperatorFails
<1>6. ASSUME (\E v \in Stable : ChangeRelease(v)) \/ ChangePolicy \/ UNCHANGED regVars
      PROVE  OperatorsSound' /\ RegistryHoldsApproved'
  <2>1. UNCHANGED <<registry, latest, op>>
    BY <1>6 DEF ChangeRelease, ChangePolicy, regVars
  <2> QED
    <3>1. RegistryHoldsApproved'
      BY <2>1 DEF RegInv, RegistryHoldsApproved
    <3>2. ASSUME NEW p \in Operators PROVE OperatorSound(op[p])'
      <4>1. OperatorSound(op[p])
        BY DEF RegInv, OperatorsSound
      <4> QED
        BY <2>1, <4>1 DEF OperatorSound, CommandsSound
    <3> QED
      BY <3>1, <3>2 DEF OperatorsSound
<1>7. OperatorsSound' /\ RegistryHoldsApproved'
  BY <1>2, <1>3, <1>4, <1>5, <1>6 DEF RegNext
<1> QED
  BY <1>0, <1>7 DEF RegInv

\* The inductive invariant of registry publication: an operator carries approved bytes,
\* and pushes every version before it tags a latest tag (container_commands, main).
THEOREM RegInvariance == RegSpec => []RegInv
<1>1. ASSUME RegInit PROVE RegInv
  <2>1. offered \in [Stable -> Contents] /\ latest \in [Destinations -> Stable \cup {0}]
    BY <1>1 DEF RegInit, Contents
  <2>2. registry \in [Destinations \cup {PyPI} -> [Stable -> Contents]]
    <3>1. [v \in Stable |-> "none"] \in [Stable -> Contents]
      BY DEF Contents
    <3> QED
      BY <1>1, <3>1 DEF RegInit
  <2>3. op \in [Operators -> [pc : {"idle", "preflight", "execute"}, version : Stable \cup {0},
                              bytes : Contents, checked : Nat, todo : Seq(Commands)]]
    <3>1. <<>> \in Seq(Commands)
      OBVIOUS
    <3>2. NoOp \in [pc : {"idle", "preflight", "execute"}, version : Stable \cup {0},
                    bytes : Contents, checked : Nat, todo : Seq(Commands)]
      BY <3>1 DEF NoOp, Contents
    <3> QED
      BY <1>1, <3>2 DEF RegInit
  <2>4. OperatorsSound
    BY <1>1 DEF RegInit, NoOp, OperatorsSound, OperatorSound
  <2>5. RegistryHoldsApproved
    BY <1>1 DEF RegInit, RegistryHoldsApproved
  <2> QED
    BY <2>1, <2>2, <2>3, <2>4, <2>5 DEF RegInv, RegTypeOK
<1> QED
  BY <1>1, RegStep, PTL DEF RegSpec

\* Registries hold approved bytes only, and latest names a version that every image of
\* the product has, for any number of operators, versions and images
\* (verified_assets, container_commands).
THEOREM RegistryHoldsApprovedHolds == RegSpec => []RegistryHoldsApproved
<1>1. RegInv => RegistryHoldsApproved
  BY DEF RegInv
<1> QED
  BY <1>1, RegInvariance, PTL

-----------------------------------------------------------------------------
(* FuzzCampaign: what an accepted report stands for.                        *)

\* A campaign that has not begun shows nothing.
LEMMA NothingHappened == NoCampaign \in [pc : {"idle", "setup", "replay", "fuzz", "raised"}, left : Nat,
                                         proofs : Seq(Range(Targets)), results : Seq(Results)]
                         /\ \A a : Happened(a, NoCampaign.proofs, NoCampaign.results)
<1>1. <<>> \in Seq(Range(Targets)) /\ <<>> \in Seq(Results)
  OBVIOUS
<1> QED
  BY <1>1 DEF NoCampaign, Happened

\* Every step of a campaign keeps its shape, and what it shows did happen.
LEMMA CampaignStep ==
  ASSUME FuzzInv, [FuzzNext]_fuzzVars
  PROVE  CampaignOK' /\ CampaignHappened' /\ replayed \subseteq replayed' /\ fuzzed \subseteq fuzzed'
<1> DEFINE CampaignType == [pc : {"idle", "setup", "replay", "fuzz", "raised"}, left : Nat,
                            proofs : Seq(Range(Targets)), results : Seq(Results)]
<1>0. fuzz \in CampaignType /\ CampaignOK /\ CampaignHappened
  BY DEF FuzzInv, CampaignOK
<1>1. ASSUME UNCHANGED <<attempt, replayed, fuzzed>>, fuzz' \in CampaignType, fuzz'.pc # "idle",
             fuzz'.proofs = fuzz.proofs, fuzz'.results = fuzz.results
      PROVE  CampaignOK' /\ CampaignHappened' /\ replayed \subseteq replayed' /\ fuzzed \subseteq fuzzed'
  BY <1>0, <1>1 DEF CampaignOK, CampaignHappened, Happened
<1>2. ASSUME UNCHANGED <<replayed, fuzzed>>, fuzz' = NoCampaign
      PROVE  CampaignOK' /\ CampaignHappened' /\ replayed \subseteq replayed' /\ fuzzed \subseteq fuzzed'
  BY <1>2, NothingHappened DEF CampaignOK, CampaignHappened, Happened
<1>3. CASE StartCampaign
  <2>1. fuzz = NoCampaign /\ fuzz' = [NoCampaign EXCEPT !.pc = "setup"]
    BY <1>0, <1>3 DEF StartCampaign, CampaignOK
  <2>2. /\ fuzz' \in CampaignType /\ fuzz'.pc # "idle"
        /\ fuzz'.proofs = fuzz.proofs /\ fuzz'.results = fuzz.results
    BY <1>0, <2>1
  <2> QED
    BY <1>1, <1>3, <2>2 DEF StartCampaign
<1>4. CASE Setup
  <2>1. fuzz' \in {[fuzz EXCEPT !.pc = "replay", !.left = Budget], [fuzz EXCEPT !.pc = "raised"]}
    BY <1>4 DEF Setup
  <2>2. /\ fuzz' \in CampaignType /\ fuzz'.pc # "idle"
        /\ fuzz'.proofs = fuzz.proofs /\ fuzz'.results = fuzz.results
    BY <1>0, <2>1, FuzzAssumption
  <2> QED
    BY <1>1, <1>4, <2>2 DEF Setup
<1>5. CASE PreflightCommands
  <2>1. fuzz' \in {[fuzz EXCEPT !.pc = "fuzz"], [fuzz EXCEPT !.pc = "raised"]}
    BY <1>5 DEF PreflightCommands
  <2>2. /\ fuzz' \in CampaignType /\ fuzz'.pc # "idle"
        /\ fuzz'.proofs = fuzz.proofs /\ fuzz'.results = fuzz.results
    BY <1>0, <2>1
  <2> QED
    BY <1>1, <1>5, <2>2 DEF PreflightCommands
<1>6. CASE fuzz' = [fuzz EXCEPT !.pc = "raised"] /\ UNCHANGED <<attempt, replayed, fuzzed>>
  <2>1. /\ fuzz' \in CampaignType /\ fuzz'.pc # "idle"
        /\ fuzz'.proofs = fuzz.proofs /\ fuzz'.results = fuzz.results
    BY <1>0, <1>6
  <2> QED
    BY <1>1, <1>6, <2>1
<1>7. CASE Replay
  <2>1. PICK t : t = Targets[Len(fuzz.proofs) + 1]
    OBVIOUS
  <2>2. CASE fuzz' = [fuzz EXCEPT !.pc = "raised"] /\ UNCHANGED replayed
    BY <1>6, <1>7, <2>2 DEF Replay
  <2>3. ASSUME NEW spent \in 0 .. Smaller(ReplayLimit, fuzz.left),
               fuzz' = [fuzz EXCEPT !.left = @ - spent, !.proofs = Append(@, t)],
               replayed' = replayed \cup {<<attempt, t>>}
        PROVE  CampaignOK' /\ CampaignHappened' /\ replayed \subseteq replayed' /\ fuzzed \subseteq fuzzed'
    <3>1. Len(fuzz.proofs) \in Nat /\ Len(fuzz.proofs) < Len(Targets) /\ Len(Targets) \in Nat
      <4>1. Len(fuzz.proofs) < Len(Targets)
        BY <1>7 DEF Replay
      <4>2. fuzz.proofs \in Seq(Range(Targets)) /\ Targets \in Seq(Range(Targets))
        BY <1>0, FuzzAssumption
      <4> QED
        BY <4>1, <4>2
    <3>2. t \in Range(Targets)
      BY <2>1, <3>1, FuzzAssumption
    <3>3. fuzz.left - spent \in Nat
      BY <1>0, <2>3, FuzzAssumption DEF Smaller
    <3>4. PICK p \in Seq(Range(Targets)) : p = fuzz.proofs
      BY <1>0
    <3>5. Append(p, t) \in Seq(Range(Targets)) /\ Len(Append(p, t)) = Len(p) + 1
      BY <3>2
    <3>6. \A i \in DOMAIN Append(p, t) : Append(p, t)[i] = t \/ (i \in DOMAIN p /\ Append(p, t)[i] = p[i])
      BY <3>2
    <3>7. fuzz' \in CampaignType /\ fuzz'.proofs = Append(p, t) /\ fuzz'.results = fuzz.results
          /\ fuzz'.pc = fuzz.pc
      BY <1>0, <2>3, <3>3, <3>4, <3>5
    <3>8. UNCHANGED <<attempt, fuzzed>> /\ fuzz.pc = "replay"
      BY <1>7 DEF Replay
    <3>9. CampaignHappened'
      BY <1>0, <2>3, <3>4, <3>6, <3>7, <3>8 DEF CampaignHappened, Happened
    <3> QED
      BY <2>3, <3>7, <3>8, <3>9 DEF CampaignOK
  <2> QED
    BY <1>7, <2>1, <2>2, <2>3 DEF Replay
<1>8. CASE RunTarget
  <2>1. PICK t : t = Targets[Len(fuzz.results) + 1]
    OBVIOUS
  <2>2. CASE fuzz' = [fuzz EXCEPT !.pc = "raised"] /\ UNCHANGED fuzzed
    BY <1>6, <1>8, <2>2 DEF RunTarget
  <2>3. ASSUME NEW code \in Codes, NEW executions \in 0 .. 1,
               fuzz' = [fuzz EXCEPT !.results = Append(@, [name |-> t,
                          exit_code |-> ExitCode(code, executions), executions |-> executions])],
               fuzzed' = IF code = 0 /\ executions > 0 THEN fuzzed \cup {<<attempt, t>>} ELSE fuzzed
        PROVE  CampaignOK' /\ CampaignHappened' /\ replayed \subseteq replayed' /\ fuzzed \subseteq fuzzed'
    <3>1. Len(fuzz.results) \in Nat /\ Len(fuzz.results) < Len(Targets) /\ Len(Targets) \in Nat
      BY <1>0, <1>8, FuzzAssumption DEF RunTarget
    <3>2. t \in Range(Targets)
      BY <2>1, <3>1, FuzzAssumption
    <3>3. PICK x \in {0, 1, 124, 125} : x = ExitCode(code, executions)
      BY <2>3 DEF Codes, ExitCode
    <3>4. PICK r \in Seq(Results) : r = fuzz.results
      BY <1>0
    <3>5. PICK e \in Results : e = [name |-> t, exit_code |-> x, executions |-> executions]
      BY <3>2 DEF Results
    <3>6. Append(r, e) \in Seq(Results)
      BY <3>5
    <3>7. \A i \in DOMAIN Append(r, e) : Append(r, e)[i] = e \/ (i \in DOMAIN r /\ Append(r, e)[i] = r[i])
      BY <3>5
    <3>8. fuzz' \in CampaignType /\ fuzz'.results = Append(r, e) /\ fuzz'.proofs = fuzz.proofs
          /\ fuzz'.pc = fuzz.pc
      BY <1>0, <2>3, <3>3, <3>4, <3>5, <3>6
    <3>9. UNCHANGED <<attempt, replayed>> /\ fuzz.pc = "fuzz" /\ fuzzed \subseteq fuzzed'
      BY <1>8, <2>3 DEF RunTarget
    <3>10. e.exit_code = 0 => <<attempt, e.name>> \in fuzzed'
      BY <2>3, <3>3, <3>5 DEF ExitCode
    <3>11. CampaignHappened'
      <4>1. Happened(attempt, fuzz.proofs, r)
        BY <1>0, <3>4 DEF CampaignHappened
      <4>2. \A i \in DOMAIN Append(r, e) : Append(r, e)[i].exit_code = 0
              => <<attempt, Append(r, e)[i].name>> \in fuzzed'
        BY <3>7, <3>9, <3>10, <4>1 DEF Happened
      <4> QED
        BY <3>8, <3>9, <4>1, <4>2 DEF CampaignHappened, Happened
    <3> QED
      BY <3>8, <3>9, <3>11 DEF CampaignOK
  <2> QED
    BY <1>8, <2>1, <2>2, <2>3 DEF RunTarget
<1>9. CASE CampaignPasses \/ CampaignFails \/ RunnerDies
  BY <1>2, <1>9 DEF CampaignPasses, CampaignFails, RunnerDies, Finish
<1>10. CASE NextAttempt
  BY <1>0, <1>2, <1>10 DEF NextAttempt, CampaignOK
<1>11. CASE Accept \/ UNCHANGED fuzzVars
  <2>1. UNCHANGED <<fuzz, attempt, replayed, fuzzed>>
    BY <1>11 DEF Accept, fuzzVars
  <2> QED
    BY <1>0, <2>1 DEF CampaignOK, CampaignHappened, Happened
<1> QED
  BY <1>3, <1>4, <1>5, <1>7, <1>8, <1>9, <1>10, <1>11 DEF FuzzNext

\* A report shows what its campaign did.
LEMMA ReportStep ==
  ASSUME FuzzInv, [FuzzNext]_fuzzVars
  PROVE  ReportsHappened'
<1>0. CampaignHappened /\ ReportsHappened /\ replayed \subseteq replayed' /\ fuzzed \subseteq fuzzed'
  BY CampaignStep DEF FuzzInv
<1>1. CASE CampaignPasses \/ CampaignFails
  <2>1. PICK status, torn, conclusion : Finish(status, torn, conclusion)
    BY <1>1 DEF CampaignPasses, CampaignFails
  <2>2. PICK rep : reports' = reports \cup {rep} /\ rep.attempt = attempt
                      /\ rep.proofs = fuzz.proofs /\ rep.targets = fuzz.results
    <3>1. PICK rep : rep = [Report(status) EXCEPT !.torn = torn]
      OBVIOUS
    <3>2. rep.attempt = attempt /\ rep.proofs = fuzz.proofs /\ rep.targets = fuzz.results
      BY <3>1 DEF Report
    <3> QED
      BY <2>1, <3>1, <3>2 DEF Finish
  <2>3. UNCHANGED <<replayed, fuzzed>>
    BY <2>1 DEF Finish
  <2> QED
    BY <1>0, <2>2, <2>3 DEF ReportsHappened, CampaignHappened, Happened
<1>2. CASE UNCHANGED reports
  BY <1>0, <1>2 DEF ReportsHappened, Happened
<1>3. UNCHANGED reports \/ CampaignPasses \/ CampaignFails
  BY DEF FuzzNext, fuzzVars, StartCampaign, Setup, Replay, PreflightCommands, RunTarget, RunnerDies,
         NextAttempt, Accept
<1> QED
  BY <1>1, <1>2, <1>3

\* The checks of the publication take no report for more than it shows.
LEMMA AcceptStep ==
  ASSUME FuzzInv, [FuzzNext]_fuzzVars
  PROVE  AcceptedMeansFuzzed'
<1>0. AcceptedMeansFuzzed /\ replayed \subseteq replayed' /\ fuzzed \subseteq fuzzed'
  BY CampaignStep DEF FuzzInv
<1>1. CASE Accept
  <2>1. PICK r \in reports : VerifyReport(r, attempt)
    BY <1>1 DEF Accept
  <2>2. Happened(attempt, r.proofs, r.targets)
    BY <2>1 DEF FuzzInv, ReportsHappened, VerifyReport
  <2>3. VerifyInventory(r)
    BY <2>1 DEF VerifyReport
  <2>4. ASSUME NEW i \in DOMAIN Targets
        PROVE  i \in DOMAIN r.targets /\ r.targets[i].name = Targets[i] /\ r.targets[i].exit_code = 0
    <3> DEFINE f == [j \in DOMAIN r.targets |-> <<r.targets[j].name, r.targets[j].exit_code>>]
               g == [j \in DOMAIN Targets |-> <<Targets[j], 0>>]
    <3>1. f = g
      BY <2>3 DEF VerifyInventory
    <3>2. DOMAIN f = DOMAIN r.targets /\ DOMAIN g = DOMAIN Targets
      OBVIOUS
    <3>3. i \in DOMAIN r.targets
      BY <3>1, <3>2
    <3>4. f[i] = <<r.targets[i].name, r.targets[i].exit_code>> /\ g[i] = <<Targets[i], 0>>
      BY <3>3
    <3> QED
      BY <3>1, <3>3, <3>4
  <2>5. \A i \in DOMAIN Targets : <<attempt, Targets[i]>> \in replayed \cap fuzzed
    BY <2>2, <2>3, <2>4 DEF Happened, VerifyInventory
  <2>6. accepted' = accepted \cup {attempt} /\ UNCHANGED <<replayed, fuzzed>>
    BY <1>1 DEF Accept
  <2> QED
    BY <1>0, <2>5, <2>6 DEF AcceptedMeansFuzzed
<1>2. CASE UNCHANGED accepted
  BY <1>0, <1>2 DEF AcceptedMeansFuzzed
<1>3. UNCHANGED accepted \/ Accept
  BY DEF FuzzNext, fuzzVars, StartCampaign, Setup, Replay, PreflightCommands, RunTarget, RunnerDies,
         NextAttempt, CampaignPasses, CampaignFails, Finish
<1> QED
  BY <1>1, <1>2, <1>3

\* The inductive invariant of the campaign: what a campaign or a report shows of an
\* attempt did happen in that attempt (run_preflight, run_target, the finally block).
THEOREM FuzzInvariance == FuzzSpec => []FuzzInv
<1>1. ASSUME FuzzInit PROVE FuzzInv
  BY <1>1, NothingHappened DEF FuzzInit, FuzzInv, CampaignOK, CampaignHappened, ReportsHappened,
                               AcceptedMeansFuzzed
<1>2. FuzzInv /\ [FuzzNext]_fuzzVars => FuzzInv'
  BY CampaignStep, ReportStep, AcceptStep DEF FuzzInv
<1> QED
  BY <1>1, <1>2, PTL DEF FuzzSpec

\* An accepted attempt did replay and fuzz every target itself, for any targets, budget
\* and number of attempts (verify_report, check_run_jobs, run_target).
THEOREM AcceptedMeansFuzzedHolds == FuzzSpec => []AcceptedMeansFuzzed
<1>1. FuzzInv => AcceptedMeansFuzzed
  BY DEF FuzzInv
<1> QED
  BY <1>1, FuzzInvariance, PTL

-----------------------------------------------------------------------------
(* ReadTools: what a read tool answers.                                     *)

\* Sequences of distinct elements, when the first one is taken away.
LEMMA TakeFirst ==
  ASSUME NEW S, NEW s \in Seq(S), s # <<>>
  PROVE  /\ Head(s) \in S /\ Tail(s) \in Seq(S)
         /\ Range(s) = {Head(s)} \cup Range(Tail(s))
         /\ IsInjective(s) => IsInjective(Tail(s)) /\ Head(s) \notin Range(Tail(s))
<1>1. /\ Head(s) \in S /\ Tail(s) \in Seq(S) /\ Head(s) = s[1]
      /\ Len(s) \in Nat \ {0} /\ Len(Tail(s)) = Len(s) - 1
      /\ DOMAIN s = 1 .. Len(s) /\ DOMAIN Tail(s) = 1 .. Len(s) - 1
      /\ \A i \in 1 .. Len(s) - 1 : Tail(s)[i] = s[i + 1]
  BY HeadTailProperties, EmptySeq, LenProperties
<1>2. Range(s) \subseteq {Head(s)} \cup Range(Tail(s))
  <2>1. ASSUME NEW i \in 1 .. Len(s) PROVE s[i] \in {Head(s)} \cup Range(Tail(s))
    <3>1. CASE i = 1
      BY <1>1, <3>1
    <3>2. CASE i # 1
      <4>1. i - 1 \in 1 .. Len(s) - 1 /\ s[i] = Tail(s)[i - 1]
        BY <1>1, <3>2
      <4> QED
        BY <1>1, <4>1 DEF Range
    <3> QED
      BY <3>1, <3>2
  <2> QED
    BY <1>1, <2>1 DEF Range
<1>3. {Head(s)} \cup Range(Tail(s)) \subseteq Range(s)
  <2>1. ASSUME NEW i \in 1 .. Len(s) - 1 PROVE Tail(s)[i] \in Range(s)
    BY <1>1, <2>1 DEF Range
  <2>2. Head(s) \in Range(s)
    BY <1>1 DEF Range
  <2> QED
    BY <1>1, <2>1, <2>2 DEF Range
<1>4. ASSUME IsInjective(s) PROVE IsInjective(Tail(s)) /\ Head(s) \notin Range(Tail(s))
  <2>1. ASSUME NEW i \in 1 .. Len(s) - 1, NEW j \in 1 .. Len(s) - 1, Tail(s)[i] = Tail(s)[j]
        PROVE  i = j
    <3>1. i + 1 \in 1 .. Len(s) /\ j + 1 \in 1 .. Len(s) /\ s[i + 1] = s[j + 1]
      BY <1>1, <2>1
    <3>2. i + 1 = j + 1
      BY <1>1, <1>4, <3>1 DEF IsInjective
    <3> QED
      BY <3>2
  <2>2. ASSUME NEW i \in 1 .. Len(s) - 1 PROVE Tail(s)[i] # Head(s)
    <3>1. i + 1 \in 1 .. Len(s) /\ 1 \in 1 .. Len(s) /\ i + 1 # 1
      BY <1>1
    <3>2. s[i + 1] # s[1]
      BY <1>1, <1>4, <3>1 DEF IsInjective
    <3> QED
      BY <1>1, <3>2
  <2>3. IsInjective(Tail(s))
    BY <1>1, <2>1 DEF IsInjective
  <2> QED
    BY <1>1, <2>2, <2>3 DEF Range
<1> QED
  BY <1>1, <1>2, <1>3, <1>4

\* ... and when one is added at the end.
LEMMA AddLast ==
  ASSUME NEW S, NEW s \in Seq(S), NEW e \in S
  PROVE  /\ Append(s, e) \in Seq(S)
         /\ Range(Append(s, e)) = Range(s) \cup {e}
         /\ IsInjective(s) /\ e \notin Range(s) => IsInjective(Append(s, e))
<1>1. /\ Append(s, e) \in Seq(S) /\ Len(s) \in Nat /\ Len(Append(s, e)) = Len(s) + 1
      /\ DOMAIN s = 1 .. Len(s) /\ DOMAIN Append(s, e) = 1 .. Len(s) + 1
      /\ \A i \in 1 .. Len(s) : Append(s, e)[i] = s[i]
      /\ Append(s, e)[Len(s) + 1] = e
  BY AppendProperties, LenProperties
<1>2. \A i \in 1 .. Len(s) + 1 : i \in 1 .. Len(s) \/ i = Len(s) + 1
  BY <1>1
<1>3. Range(Append(s, e)) = Range(s) \cup {e}
  <2>1. \A x \in Range(Append(s, e)) : x \in Range(s) \cup {e}
    BY <1>1, <1>2 DEF Range
  <2>2. \A x \in Range(s) : x \in Range(Append(s, e))
    <3>1. ASSUME NEW i \in 1 .. Len(s) PROVE s[i] \in Range(Append(s, e))
      <4>1. i \in 1 .. Len(s) + 1 /\ Append(s, e)[i] = s[i]
        BY <1>1
      <4> QED
        BY <1>1, <4>1 DEF Range
    <3> QED
      BY <1>1, <3>1 DEF Range
  <2>3. e \in Range(Append(s, e))
    <3>1. Len(s) + 1 \in 1 .. Len(s) + 1
      BY <1>1
    <3> QED
      BY <1>1, <3>1 DEF Range
  <2> QED
    BY <2>1, <2>2, <2>3
<1>4. ASSUME IsInjective(s), e \notin Range(s) PROVE IsInjective(Append(s, e))
  <2>1. ASSUME NEW i \in 1 .. Len(s) + 1, NEW j \in 1 .. Len(s) + 1,
               Append(s, e)[i] = Append(s, e)[j]
        PROVE  i = j
    <3>1. CASE i \in 1 .. Len(s) /\ j \in 1 .. Len(s)
      BY <1>1, <1>4, <2>1, <3>1 DEF IsInjective
    <3>2. CASE i \in 1 .. Len(s) /\ j = Len(s) + 1
      BY <1>1, <1>4, <2>1, <3>2 DEF Range
    <3>3. CASE i = Len(s) + 1 /\ j \in 1 .. Len(s)
      BY <1>1, <1>4, <2>1, <3>3 DEF Range
    <3> QED
      BY <1>2, <3>1, <3>2, <3>3
  <2> QED
    BY <1>1, <2>1 DEF IsInjective
<1> QED
  BY <1>1, <1>3, <1>4

LEMMA Short ==
  /\ IsInjective(<<>>) /\ Range(<<>>) = {}
  /\ \A e : IsInjective(<<e>>) /\ Range(<<e>>) = {e}
<1>1. DOMAIN <<>> = {}
  OBVIOUS
<1>2. \A e : DOMAIN <<e>> = {1} /\ <<e>>[1] = e
  OBVIOUS
<1> QED
  BY <1>1, <1>2 DEF IsInjective, Range

\* The devices of a type, sorted, are a sequence of distinct instances.
LEMMA SortedInstances ==
  ASSUME ToolTypeOK, NEW type \in AskedTypes, NEW is \in OfType(type)
  PROVE  LET todo == [i \in DOMAIN is |-> <<type, is[i]>>] IN
         /\ todo \in Seq(Device) /\ IsInjective(todo)
         /\ Range(todo) = {d \in Devices : d[1] = type}
<1> DEFINE found == {d[2] : d \in {e \in Devices : e[1] = type}}
           n == Cardinality(found)
           todo == [i \in DOMAIN is |-> <<type, is[i]>>]
<1>1. \A i : i \in found <=> \E t \in Cached : t[1] = type /\ t[2] = i
  <2>1. ASSUME NEW i \in found PROVE \E t \in Cached : t[1] = type /\ t[2] = i
    <3>1. PICK d \in Devices : d[1] = type /\ d[2] = i
      OBVIOUS
    <3>2. PICK t \in Cached : d = <<t[1], t[2]>>
      BY DEF Devices
    <3> QED
      BY <3>1, <3>2
  <2>2. ASSUME NEW t \in Cached, t[1] = type PROVE t[2] \in found
    <3>1. <<t[1], t[2]>> \in Devices /\ <<t[1], t[2]>>[1] = type /\ <<t[1], t[2]>>[2] = t[2]
      BY <2>2 DEF Devices
    <3> QED
      BY <3>1
  <2> QED
    BY <2>1, <2>2
<1>2. n \in Nat
  <2> DEFINE U == {t \in Cached : t[1] = type}
             f == [t \in U |-> t[2]]
  <2>1. IsFiniteSet(U)
    BY FS_Subset, ToolAssumption DEF Cached
  <2>2. f \in Surjection(U, found)
    <3>1. \A t \in U : t[2] \in found
      BY <1>1
    <3>2. \A i \in found : \E t \in U : f[t] = i
      BY <1>1
    <3> QED
      BY <3>1, <3>2 DEF Surjection
  <2> QED
    BY <2>1, <2>2, FS_Surjection, FS_CardinalityType
<1>3. found \subseteq Nat
  BY ToolAssumption DEF Devices, Cached
<1>4. /\ is \in [1 .. n -> found] /\ Range(is) = found /\ DOMAIN is = 1 .. n
      /\ \A i, j \in 1 .. n : i < j => is[i] < is[j]
  BY DEF OfType
<1> HIDE DEF n, found
<1>5. \A i \in 1 .. n : is[i] \in Nat
  BY <1>3, <1>4
<1>6. todo \in [1 .. n -> Device]
  BY <1>4, <1>5 DEF Device
<1>7. todo \in Seq(Device)
  BY <1>2, <1>6, SeqDef
<1>8. IsInjective(todo)
  <2>1. ASSUME NEW i \in 1 .. n, NEW j \in 1 .. n, todo[i] = todo[j] PROVE i = j
    <3>1. is[i] = is[j]
      BY <1>4, <2>1
    <3> QED
      BY <1>2, <1>4, <1>5, <3>1
  <2> QED
    BY <1>4, <2>1 DEF IsInjective
<1>9. Range(todo) = {d \in Devices : d[1] = type}
  <2>1. ASSUME NEW d \in Devices, d[1] = type PROVE d \in Range(todo)
    <3>1. d = <<type, d[2]>> /\ d[2] \in found
      BY <2>1 DEF Devices, found
    <3>2. PICK i \in 1 .. n : is[i] = d[2]
      BY <1>4, <3>1 DEF Range
    <3> QED
      BY <1>4, <3>1, <3>2 DEF Range
  <2>2. ASSUME NEW i \in 1 .. n PROVE todo[i] \in Devices /\ todo[i][1] = type
    <3>1. PICK d \in Devices : d[1] = type /\ d[2] = is[i]
      BY <1>4 DEF found
    <3>2. d = <<type, is[i]>>
      BY <3>1 DEF Devices
    <3> QED
      BY <1>4, <3>1, <3>2
  <2> QED
    BY <1>4, <2>1, <2>2 DEF Range
<1> QED
  BY <1>7, <1>8, <1>9

LEMMA NoCallType ==
  /\ NoCall.pc = "idle" /\ NoCall.asked = <<>> /\ NoCall.types = <<>> /\ NoCall.instance = 0
  /\ NoCall.todo = <<>> /\ NoCall.field = 1 /\ NoCall.candidate = 1 /\ NoCall.used = {}
  /\ NoCall.old = FALSE /\ NoCall.readings = <<>>
  /\ ToolTypeOK => NoCall \in [pc : {"idle", "waiting", "discover", "answered"},
               asked : Seq(AskedTypes), types : Seq(AskedTypes), instance : Nat,
               todo : Seq(Device), field : Nat, candidate : Nat,
               used : UsedValues, old : BOOLEAN,
               readings : Seq([device : Device, used : UsedValues, stale : BOOLEAN])]
  BY EmptySeq DEF NoCall, UsedValues

\* What one look at the cache does to the running call.
ReadOf(t, f, n) ==
  call' = [call EXCEPT !.field = f, !.candidate = n,
             !.used = IF t \in Cached THEN call.used \cup {<<t, items[t].value>>} ELSE call.used,
             !.old = call.old \/ (t \in Cached /\ items[t].old)]

LEMMA ReadCandidateReads ==
  ASSUME ToolTypeOK, ReadCandidate
  PROVE  \E t : \E f \in Nat : \E n \in Nat : ReadOf(t, f, n)
<1> DEFINE t == <<Head(call.todo)[1], Head(call.todo)[2], FieldPaths[call.field][call.candidate]>>
           next == t \in Cached \/ call.candidate = Len(FieldPaths[call.field])
           f == IF next THEN call.field + 1 ELSE call.field
           n == IF next THEN 1 ELSE call.candidate + 1
<1>1. ReadOf(t, f, n)
  BY DEF ReadCandidate, ReadOf
<1>2. f \in Nat /\ n \in Nat
  BY DEF ToolTypeOK
<1> HIDE DEF t, f, n
<1> QED
  BY <1>1, <1>2

\* Every step leaves the state well typed.
LEMMA ToolTypeStep == ToolTypeOK /\ [ToolNext]_toolVars => ToolTypeOK'
<1> SUFFICES ASSUME ToolTypeOK, [ToolNext]_toolVars PROVE ToolTypeOK'
  OBVIOUS
<1> DEFINE DeviceReading == [device : Device, used : UsedValues, stale : BOOLEAN]
<1>0. Cached \subseteq Items /\ FreshNow \in UsedValues
  <2>1. Cached \subseteq Items
    BY DEF Cached
  <2>2. \A t \in Cached : items[t].value \in ItemValues
    BY DEF Cached, ToolTypeOK
  <2> QED
    BY <2>1, <2>2 DEF FreshNow, UsedValues
<1>1. ASSUME NEW c \in ToolCalls, CallTool(c) PROVE ToolTypeOK'
  <2>1. c.types \in Seq(AskedTypes) /\ c.instance \in Nat
    <3>1. c.types \in Seq(Range(c.types)) /\ Range(c.types) \subseteq AskedTypes
      BY ToolAssumption DEF AskedTypes
    <3> QED
      BY <3>1, SeqMonotonic, ToolAssumption
  <2>2. calls' \in 0 .. MaxCalls
    BY <1>1, ToolAssumption DEF CallTool, ToolTypeOK
  <2> QED
    BY <1>0, <1>1, <2>1, <2>2, NoCallType DEF CallTool, ToolTypeOK
<1>2. CASE NotReady
  BY <1>2, NoCallType DEF NotReady, Keep, ToolTypeOK
<1>3. CASE Ready
  BY <1>3 DEF Ready, Keep, Detected, ToolTypeOK
<1>4. CASE Discover
  <2>1. CASE call.instance = 0
    <3>1. Head(call.types) \in AskedTypes /\ Tail(call.types) \in Seq(AskedTypes)
      BY <1>4, TakeFirst DEF Discover, ToolTypeOK
    <3>2. PICK is \in OfType(Head(call.types)) :
             call' = [call EXCEPT !.types = Tail(call.types),
                        !.todo = [i \in DOMAIN is |-> <<Head(call.types), is[i]>>]]
      BY <1>4, <2>1 DEF Discover
    <3>3. [i \in DOMAIN is |-> <<Head(call.types), is[i]>>] \in Seq(Device)
      BY <3>1, SortedInstances
    <3> QED
      BY <1>4, <3>1, <3>2, <3>3 DEF Discover, Keep, ToolTypeOK
  <2>2. CASE call.instance # 0
    <3>1. PICK i \in DOMAIN call.types :
             call' = [call EXCEPT !.types = <<>>, !.todo = <<<<call.types[i], call.instance>>>>]
      BY <1>4, <2>2 DEF Discover
    <3>2. <<call.types[i], call.instance>> \in Device
      BY LenProperties, ElementOfSeq DEF ToolTypeOK, Device
    <3>3. <<>> \in Seq(AskedTypes) /\ <<<<call.types[i], call.instance>>>> \in Seq(Device)
      BY <3>2, EmptySeq
    <3> QED
      BY <1>4, <3>1, <3>3 DEF Discover, Keep, ToolTypeOK
  <2> QED
    BY <2>1, <2>2
<1>5. CASE ReadCandidate
  <2>0. PICK t : \E f \in Nat : \E n \in Nat : ReadOf(t, f, n)
    BY <1>5, ReadCandidateReads
  <2>1. PICK f \in Nat, n \in Nat : ReadOf(t, f, n)
    BY <2>0
  <2> DEFINE u == IF t \in Cached THEN call.used \cup {<<t, items[t].value>>} ELSE call.used
             o == call.old \/ (t \in Cached /\ items[t].old)
  <2>2. call' = [call EXCEPT !.field = f, !.candidate = n, !.used = u, !.old = o]
    BY <2>1 DEF ReadOf
  <2>3. u \in UsedValues
    <3>1. t \in Cached => <<t, items[t].value>> \in Items \X ItemValues
      BY DEF ToolTypeOK, Cached
    <3> QED
      BY <3>1 DEF ToolTypeOK, UsedValues
  <2>4. o \in BOOLEAN
    OBVIOUS
  <2> HIDE DEF u, o
  <2> QED
    BY <1>5, <2>2, <2>3, <2>4 DEF ReadCandidate, Keep, ToolTypeOK
<1>6. CASE FinishReading
  <2>1. Head(call.todo) \in Device /\ Tail(call.todo) \in Seq(Device)
    BY <1>6, TakeFirst DEF FinishReading, ToolTypeOK
  <2>2. [device |-> Head(call.todo), used |-> call.used, stale |-> Stale(call)] \in DeviceReading
    BY <2>1 DEF Stale, ToolTypeOK
  <2>3. Append(call.readings, [device |-> Head(call.todo), used |-> call.used,
                               stale |-> Stale(call)]) \in Seq(DeviceReading)
    BY <2>2, AddLast DEF ToolTypeOK
  <2>4. {} \in UsedValues
    BY DEF UsedValues
  <2> QED
    BY <1>6, <2>1, <2>3, <2>4 DEF FinishReading, Keep, ToolTypeOK
<1>7. CASE Answer
  BY <1>7 DEF Answer, Keep, ToolTypeOK
<1>8. CASE Return
  BY <1>8, NoCallType DEF Return, ToolTypeOK, UsedValues
<1>9. ASSUME NEW t \in Items, Decode(t) PROVE ToolTypeOK'
  <2>1. items' \in [Items -> {Absent} \cup [value : ItemValues, old : BOOLEAN]]
    <3>1. PICK e \in {Absent} \cup [value : ItemValues, old : {FALSE}]
                   \cup (IF t \in Cached THEN {[items[t] EXCEPT !.old = TRUE]} ELSE {}) :
            items' = [items EXCEPT ![t] = e]
      BY <1>9 DEF Decode
    <3>2. t \in Cached => [items[t] EXCEPT !.old = TRUE] \in [value : ItemValues, old : BOOLEAN]
      BY DEF Cached, ToolTypeOK
    <3>3. e \in {Absent} \cup [value : ItemValues, old : BOOLEAN]
      BY <3>1, <3>2
    <3> QED
      BY <3>1, <3>3 DEF ToolTypeOK
  <2>2. Cached' \subseteq Items
    BY DEF Cached
  <2>3. FreshNow' \in UsedValues
    <3>1. \A u \in Cached' : items'[u].value \in ItemValues
      BY <2>1 DEF Cached
    <3> QED
      BY <2>2, <3>1 DEF FreshNow, UsedValues
  <2>4. updates' \in 0 .. MaxUpdates
    BY <1>9, ToolAssumption DEF Decode, ToolTypeOK
  <2> QED
    BY <1>9, <2>1, <2>2, <2>3, <2>4 DEF Decode, ToolTypeOK, UsedValues
<1>10. CASE UNCHANGED toolVars
  BY <1>10 DEF toolVars, ToolTypeOK
<1> QED
  BY <1>1, <1>2, <1>3, <1>4, <1>5, <1>6, <1>7, <1>8, <1>9, <1>10 DEF ToolNext

\* The cache and the histories of it change together.
LEMMA HistoryStep == ToolTypeOK /\ HistorySound /\ [ToolNext]_toolVars => HistorySound'
<1> SUFFICES ASSUME ToolTypeOK, HistorySound, [ToolNext]_toolVars PROVE HistorySound'
  OBVIOUS
<1>1. ASSUME UNCHANGED <<items, held, fresh, everSeen>>, call'.pc # "idle" => call.pc # "idle"
      PROVE  HistorySound'
  BY <1>1 DEF HistorySound, Cached, FreshNow
<1>2. ASSUME NEW c \in ToolCalls, CallTool(c) PROVE HistorySound'
  BY <1>2 DEF CallTool, HistorySound, Cached, FreshNow
<1>3. CASE Return
  BY <1>3, NoCallType DEF Return, HistorySound, Cached
<1>4. ASSUME NEW t \in Items, Decode(t) PROVE HistorySound'
  BY <1>4 DEF Decode, HistorySound
<1>5. CASE NotReady
  BY <1>1, <1>5, NoCallType DEF NotReady, Keep
<1>6. CASE Ready
  BY <1>1, <1>6 DEF Ready, Keep
<1>7. CASE Discover
  BY <1>1, <1>7 DEF Discover, Keep
<1>8. CASE ReadCandidate
  BY <1>1, <1>8 DEF ReadCandidate, Keep
<1>9. CASE FinishReading
  BY <1>1, <1>9 DEF FinishReading, Keep
<1>10. CASE Answer
  BY <1>1, <1>10 DEF Answer, Keep
<1>11. CASE UNCHANGED toolVars
  BY <1>1, <1>11 DEF toolVars
<1> QED
  BY <1>2, <1>3, <1>4, <1>5, <1>6, <1>7, <1>8, <1>9, <1>10, <1>11 DEF ToolNext

\* A reading without the mark "stale" is of current values.
LEMMA ReadingStep ==
  ToolTypeOK /\ HistorySound /\ ReadingSound /\ [ToolNext]_toolVars => ReadingSound'
<1> SUFFICES ASSUME ToolTypeOK, HistorySound, ReadingSound, [ToolNext]_toolVars PROVE ReadingSound'
  OBVIOUS
<1>1. ASSUME fresh \subseteq fresh', call'.used = call.used, call'.old = call.old,
             call'.readings = call.readings
      PROVE  ReadingSound'
  BY <1>1 DEF ReadingSound, Answered
<1>2. ASSUME call'.used = {}, call'.readings = <<>> PROVE ReadingSound'
  BY <1>2, Short DEF ReadingSound, Answered
<1>3. ASSUME NEW c \in ToolCalls, CallTool(c) PROVE ReadingSound'
  BY <1>2, <1>3, NoCallType DEF CallTool, NoCall
<1>4. CASE NotReady \/ Return
  BY <1>2, <1>4, NoCallType DEF NotReady, Return
<1>5. CASE Ready
  BY <1>1, <1>5 DEF Ready, Keep, ToolTypeOK
<1>6. CASE Discover
  BY <1>1, <1>6 DEF Discover, Keep, ToolTypeOK
<1>7. CASE ReadCandidate
  <2>1. PICK t : \E f \in Nat : \E n \in Nat : ReadOf(t, f, n)
    BY <1>7, ReadCandidateReads
  <2>2. /\ call'.used = IF t \in Cached THEN call.used \cup {<<t, items[t].value>>} ELSE call.used
        /\ call'.old = (call.old \/ (t \in Cached /\ items[t].old))
        /\ call'.readings = call.readings
    BY <2>1 DEF ReadOf, ToolTypeOK
  <2>3. fresh' = fresh /\ FreshNow \subseteq fresh
    BY <1>7 DEF ReadCandidate, Keep, HistorySound
  <2>4. t \in Cached /\ ~items[t].old => <<t, items[t].value>> \in fresh
    BY <2>3 DEF FreshNow
  <2>5. ~call'.old => call'.used \subseteq fresh'
    BY <2>2, <2>3, <2>4 DEF ReadingSound
  <2> QED
    BY <2>2, <2>3, <2>5 DEF ReadingSound, Answered
<1>8. CASE FinishReading
  <2> DEFINE r == [device |-> Head(call.todo), used |-> call.used, stale |-> Stale(call)]
  <2>1. call'.used = {} /\ call'.readings = Append(call.readings, r) /\ fresh' = fresh
    BY <1>8 DEF FinishReading, Keep, ToolTypeOK
  <2>2. r \in [device : Device, used : UsedValues, stale : BOOLEAN]
    BY <1>8, TakeFirst DEF FinishReading, Stale, ToolTypeOK
  <2>3. Answered' = Answered \cup {r}
    <3> DEFINE DeviceReading == [device : Device, used : UsedValues, stale : BOOLEAN]
    <3>1. call.readings \in Seq(DeviceReading) /\ r \in DeviceReading
      BY <2>2 DEF ToolTypeOK
    <3> HIDE DEF r, DeviceReading
    <3>2. Range(Append(call.readings, r)) = Range(call.readings) \cup {r}
      BY <3>1, AddLast
    <3> QED
      BY <2>1, <3>2 DEF Answered
  <2>4. ~r.stale => r.used # {} /\ r.used \subseteq fresh
    BY DEF ReadingSound, Stale
  <2> QED
    BY <2>1, <2>3, <2>4 DEF ReadingSound
<1>9. CASE Answer
  BY <1>1, <1>9 DEF Answer, Keep, ToolTypeOK
<1>10. ASSUME NEW t \in Items, Decode(t) PROVE ReadingSound'
  BY <1>1, <1>10 DEF Decode
<1>11. CASE UNCHANGED toolVars
  BY <1>1, <1>11 DEF toolVars
<1> QED
  BY <1>3, <1>4, <1>5, <1>6, <1>7, <1>8, <1>9, <1>10, <1>11 DEF ToolNext

LEMMA DevicesReadType == ToolTypeOK => DevicesRead \in Seq(Device)
<1> SUFFICES ASSUME ToolTypeOK PROVE DevicesRead \in Seq(Device)
  OBVIOUS
<1> DEFINE DeviceReading == [device : Device, used : UsedValues, stale : BOOLEAN]
<1>0. /\ Len(call.readings) \in Nat /\ DOMAIN call.readings = 1 .. Len(call.readings)
      /\ \A i \in 1 .. Len(call.readings) : call.readings[i] \in DeviceReading
  <2>1. call.readings \in Seq(DeviceReading)
    BY DEF ToolTypeOK
  <2> HIDE DEF DeviceReading
  <2> QED
    BY <2>1, LenProperties, ElementOfSeq
<1>1. \A i \in 1 .. Len(call.readings) : call.readings[i].device \in Device
  BY <1>0
<1>2. DevicesRead \in [1 .. Len(call.readings) -> Device]
  BY <1>0, <1>1 DEF DevicesRead
<1> QED
  BY <1>0, <1>2, SeqDef

\* A finished reading moves one device from those to read to those read.
LEMMA OneMoreRead ==
  ASSUME ToolTypeOK, FinishReading
  PROVE  /\ call'.todo = Tail(call.todo) /\ call.todo \in Seq(Device) /\ call.todo # <<>>
         /\ DevicesRead' = Append(DevicesRead, Head(call.todo))
         /\ Range(call.todo) = {Head(call.todo)} \cup Range(call'.todo)
         /\ Range(DevicesRead') = Range(DevicesRead) \cup {Head(call.todo)}
<1> DEFINE r == [device |-> Head(call.todo), used |-> call.used, stale |-> Stale(call)]
           n == Len(call.readings)
<1>1. /\ call'.todo = Tail(call.todo) /\ call.todo \in Seq(Device) /\ call.todo # <<>>
      /\ call'.readings = Append(call.readings, r)
  BY DEF FinishReading, ToolTypeOK
<1>2. Head(call.todo) \in Device /\ r.device = Head(call.todo)
  BY <1>1, TakeFirst
<1>3. r \in [device : Device, used : UsedValues, stale : BOOLEAN]
  BY <1>2 DEF Stale, ToolTypeOK
<1>4. DevicesRead \in Seq(Device)
  BY DevicesReadType
<1>5. DevicesRead' = Append(DevicesRead, Head(call.todo))
  <2>1. call.readings \in Seq([device : Device, used : UsedValues, stale : BOOLEAN])
    BY DEF ToolTypeOK
  <2> HIDE DEF r
  <2>2. /\ n \in Nat /\ DOMAIN call.readings = 1 .. n /\ DOMAIN call'.readings = 1 .. n + 1
        /\ \A i \in 1 .. n : call'.readings[i] = call.readings[i]
        /\ call'.readings[n + 1] = r
    BY <1>1, <1>3, <2>1, AppendProperties, LenProperties
  <2>3. Len(DevicesRead) = n /\ DOMAIN DevicesRead = 1 .. n /\ DOMAIN DevicesRead' = 1 .. n + 1
    BY <1>4, <2>2, LenProperties DEF DevicesRead
  <2>4. \A i \in 1 .. n : DevicesRead'[i] = DevicesRead[i]
    BY <2>2 DEF DevicesRead
  <2>5. DevicesRead'[n + 1] = Head(call.todo)
    <3>1. n + 1 \in DOMAIN call'.readings
      BY <2>2
    <3> QED
      BY <1>2, <2>2, <3>1 DEF DevicesRead
  <2>6. /\ Append(DevicesRead, Head(call.todo)) \in [1 .. n + 1 -> Device]
        /\ \A i \in 1 .. n : Append(DevicesRead, Head(call.todo))[i] = DevicesRead[i]
        /\ Append(DevicesRead, Head(call.todo))[n + 1] = Head(call.todo)
    <3> DEFINE s == DevicesRead
               e == Head(call.todo)
    <3>1. s \in Seq(Device) /\ e \in Device /\ Len(s) = n
      BY <1>2, <1>4, <2>3
    <3> HIDE DEF s, e
    <3>2. /\ Append(s, e) \in Seq(Device) /\ Len(Append(s, e)) = n + 1
          /\ \A i \in 1 .. n : Append(s, e)[i] = s[i]
          /\ Append(s, e)[n + 1] = e
      BY <3>1, AppendProperties
    <3>3. Append(s, e) \in [1 .. n + 1 -> Device]
      BY <3>2, LenProperties
    <3> QED
      BY <3>2, <3>3 DEF s, e
  <2>7. DevicesRead' = [i \in 1 .. n + 1 |-> DevicesRead'[i]]
    BY <2>3 DEF DevicesRead
  <2>8. \A i \in 1 .. n + 1 : DevicesRead'[i] = Append(DevicesRead, Head(call.todo))[i]
    <3>1. \A i \in 1 .. n + 1 : i \in 1 .. n \/ i = n + 1
      BY <2>2
    <3> QED
      BY <2>4, <2>5, <2>6, <3>1
  <2> QED
    BY <2>6, <2>7, <2>8
<1>6. Range(call.todo) = {Head(call.todo)} \cup Range(call'.todo)
  BY <1>1, TakeFirst
<1>7. Range(DevicesRead') = Range(DevicesRead) \cup {Head(call.todo)}
  BY <1>2, <1>4, <1>5, AddLast
<1> QED
  BY <1>1, <1>5, <1>6, <1>7

\* What Discover finds: the devices of the next type, or the one asked for.
LEMMA Discovered ==
  ASSUME ToolTypeOK, Discover
  PROVE  /\ call.todo = <<>> /\ call'.readings = call.readings
         /\ IsInjective(call'.todo)
         /\ \/ /\ call.instance = 0 /\ call'.types = Tail(call.types) /\ call.types # <<>>
               /\ Range(call'.todo) = {d \in Devices : d[1] = Head(call.types)}
            \/ /\ call.instance # 0 /\ call'.types = <<>>
               /\ \E i \in DOMAIN call.types :
                    OwnerType(i) /\ Range(call'.todo) = {<<call.types[i], call.instance>>}
<1>0. call.todo = <<>> /\ call'.readings = call.readings
  BY DEF Discover, ToolTypeOK
<1>1. CASE call.instance = 0
  <2>1. Head(call.types) \in AskedTypes
    BY TakeFirst DEF Discover, ToolTypeOK
  <2>2. PICK is \in OfType(Head(call.types)) :
           call' = [call EXCEPT !.types = Tail(call.types),
                      !.todo = [i \in DOMAIN is |-> <<Head(call.types), is[i]>>]]
    BY <1>1 DEF Discover
  <2>3. /\ call'.todo = [i \in DOMAIN is |-> <<Head(call.types), is[i]>>]
        /\ call'.types = Tail(call.types)
    BY <2>2 DEF ToolTypeOK
  <2>4. /\ IsInjective(call'.todo)
        /\ Range(call'.todo) = {d \in Devices : d[1] = Head(call.types)}
    BY <2>1, <2>3, SortedInstances
  <2>5. call.types # <<>>
    BY DEF Discover
  <2> QED
    BY <1>0, <1>1, <2>3, <2>4, <2>5
<1>2. CASE call.instance # 0
  <2>1. PICK i \in DOMAIN call.types : /\ OwnerType(i)
           /\ call' = [call EXCEPT !.types = <<>>, !.todo = <<<<call.types[i], call.instance>>>>]
    BY <1>2 DEF Discover
  <2>2. call'.todo = <<<<call.types[i], call.instance>>>> /\ call'.types = <<>>
    BY <2>1 DEF ToolTypeOK
  <2>3. IsInjective(call'.todo) /\ Range(call'.todo) = {<<call.types[i], call.instance>>}
    BY <2>2, Short
  <2> QED
    BY <1>0, <1>2, <2>1, <2>2, <2>3
<1> QED
  BY <1>1, <1>2

\* Each device is read once.
LEMMA ReadOnceStep == ToolTypeOK /\ ReadOnce /\ [ToolNext]_toolVars => ReadOnce'
<1> SUFFICES ASSUME ToolTypeOK, ReadOnce, [ToolNext]_toolVars PROVE ReadOnce'
  OBVIOUS
<1>1. ASSUME call'.types = call.types, call'.todo = call.todo, call'.readings = call.readings
      PROVE  ReadOnce'
  BY <1>1 DEF ReadOnce, DevicesRead
<1>2. ASSUME IsInjective(call'.types), call'.todo = <<>>, call'.readings = <<>> PROVE ReadOnce'
  <2>1. IsInjective(DevicesRead') /\ Range(DevicesRead') = {}
    BY <1>2 DEF DevicesRead, IsInjective, Range
  <2> QED
    BY <1>2, <2>1, Short DEF ReadOnce
<1>3. ASSUME NEW c \in ToolCalls, CallTool(c) PROVE ReadOnce'
  <2>1. call'.types = c.types /\ call'.todo = <<>> /\ call'.readings = <<>>
    BY <1>3 DEF CallTool, NoCall
  <2> QED
    BY <1>2, <2>1, ToolAssumption
<1>4. CASE NotReady \/ Return
  BY <1>2, <1>4, NoCallType, Short DEF NotReady, Return
<1>5. CASE Ready
  BY <1>1, <1>5 DEF Ready, ToolTypeOK
<1>6. CASE Discover
  <2>1. DevicesRead' = DevicesRead /\ IsInjective(call'.todo) /\ IsInjective(DevicesRead)
    BY <1>6, Discovered DEF DevicesRead, ReadOnce
  <2>2. \A d \in Range(DevicesRead) : d[1] \notin Range(call.types)
    BY DEF ReadOnce
  <2>3. CASE call.instance = 0
    <3>1. /\ call'.types = Tail(call.types)
          /\ Range(call'.todo) = {d \in Devices : d[1] = Head(call.types)}
      BY <1>6, <2>3, Discovered
    <3>2. /\ IsInjective(call'.types) /\ Head(call.types) \notin Range(call'.types)
          /\ Range(call.types) = {Head(call.types)} \cup Range(call'.types)
      <4>1. call.types \in Seq(AskedTypes) /\ call.types # <<>> /\ IsInjective(call.types)
        BY <1>6 DEF Discover, ToolTypeOK, ReadOnce
      <4> QED
        BY <3>1, <4>1, TakeFirst
    <3> QED
      BY <2>1, <2>2, <3>1, <3>2 DEF ReadOnce
  <2>4. CASE call.instance # 0
    <3>1. PICK i \in DOMAIN call.types : Range(call'.todo) = {<<call.types[i], call.instance>>}
      BY <1>6, <2>4, Discovered
    <3>2. call'.types = <<>>
      BY <1>6, <2>4, Discovered
    <3>3. call.types[i] \in Range(call.types)
      BY DEF Range
    <3> QED
      BY <2>1, <2>2, <3>1, <3>2, <3>3, Short DEF ReadOnce
  <2> QED
    BY <2>3, <2>4
<1>7. CASE ReadCandidate
  BY <1>1, <1>7 DEF ReadCandidate, ToolTypeOK
<1>8. CASE FinishReading
  <2>1. call'.types = call.types
    BY <1>8 DEF FinishReading, ToolTypeOK
  <2>2. IsInjective(call'.todo) /\ Head(call.todo) \notin Range(call'.todo)
    BY <1>8, OneMoreRead, TakeFirst DEF ReadOnce
  <2>3. IsInjective(DevicesRead')
    <3>1. DevicesRead \in Seq(Device) /\ Head(call.todo) \in Device
      BY <1>8, OneMoreRead, TakeFirst, DevicesReadType
    <3>2. Head(call.todo) \notin Range(DevicesRead)
      BY <1>8, OneMoreRead DEF ReadOnce
    <3> QED
      <4>1. IsInjective(DevicesRead) /\ DevicesRead' = Append(DevicesRead, Head(call.todo))
        BY <1>8, OneMoreRead DEF ReadOnce
      <4>2. IsInjective(Append(DevicesRead, Head(call.todo)))
        BY <3>1, <3>2, <4>1, AddLast
      <4> QED
        BY <4>1, <4>2
  <2> QED
    BY <1>8, <2>1, <2>2, <2>3, OneMoreRead DEF ReadOnce
<1>9. CASE Answer
  BY <1>1, <1>9 DEF Answer, ToolTypeOK
<1>10. ASSUME NEW t \in Items, Decode(t) PROVE ReadOnce'
  BY <1>1, <1>10 DEF Decode
<1>11. CASE UNCHANGED toolVars
  BY <1>1, <1>11 DEF toolVars
<1> QED
  BY <1>3, <1>4, <1>5, <1>6, <1>7, <1>8, <1>9, <1>10, <1>11 DEF ToolNext

\* No steady device is hidden.
LEMMA NoneHiddenStep ==
  ToolTypeOK /\ HistorySound /\ NoneHidden /\ [ToolNext]_toolVars => NoneHidden'
<1> SUFFICES ASSUME ToolTypeOK, HistorySound, NoneHidden, [ToolNext]_toolVars PROVE NoneHidden'
  OBVIOUS
<1>0. ASSUME held' \subseteq held, call'.asked = call.asked
      PROVE  Steady' \subseteq Steady
  BY <1>0 DEF Steady
<1>1. ASSUME held' \subseteq held, everSeen \subseteq everSeen', call'.asked = call.asked,
             call'.types = call.types, call'.todo = call.todo, call'.readings = call.readings,
             call'.instance = call.instance, call'.pc = "waiting" => call.pc = "waiting",
             call'.pc = "answered" => call.types = <<>> /\ call.todo = <<>>
      PROVE  NoneHidden'
  <2>1. DevicesRead' = DevicesRead /\ SeenDevices \subseteq SeenDevices' /\ Steady' \subseteq Steady
    BY <1>0, <1>1 DEF DevicesRead, SeenDevices
  <2>2. Range(call'.todo) \cup Range(DevicesRead') = Range(call.todo) \cup Range(DevicesRead)
    BY <1>1, <2>1
  <2> QED
    BY <1>1, <2>1, <2>2 DEF NoneHidden
<1>2. ASSUME call'.types = call'.asked, call'.todo = <<>>, call'.readings = <<>>,
             call'.pc = "answered" => call'.types = <<>>
      PROVE  NoneHidden'
  <2>1. Range(DevicesRead') = {} /\ Range(call'.todo) = {}
    BY <1>2, Short DEF DevicesRead, Range
  <2>2. \A d \in Steady' : d[1] \in Range(call'.types)
    BY <1>2 DEF Steady
  <2> QED
    BY <1>2, <2>1, <2>2 DEF NoneHidden
<1>3. ASSUME NEW c \in ToolCalls, CallTool(c) PROVE NoneHidden'
  BY <1>2, <1>3 DEF CallTool, NoCall
<1>4. CASE NotReady \/ Return
  BY <1>2, <1>4, NoCallType DEF NotReady, Return
<1>5. CASE Ready
  BY <1>1, <1>5 DEF Ready, Keep, ToolTypeOK
<1>6. CASE Discover
  <2>1. /\ call'.asked = call.asked /\ call'.instance = call.instance /\ call'.pc = "discover"
        /\ held' = held /\ everSeen' = everSeen /\ items' = items
    BY <1>6 DEF Discover, Keep, ToolTypeOK
  <2>2. DevicesRead' = DevicesRead /\ Steady' = Steady /\ SeenDevices' = SeenDevices
    BY <1>6, <2>1, Discovered DEF DevicesRead, Steady, SeenDevices
  <2>3. Devices \subseteq SeenDevices
    BY DEF Devices, SeenDevices, HistorySound
  <2>4. \A d \in Steady : d \in Devices
    BY DEF Steady, Devices, HistorySound
  <2>5. Range(call.todo) = {}
    BY <1>6, Discovered, Short
  <2>6. CASE call.instance = 0
    <3>1. /\ Range(call'.todo) = {d \in Devices : d[1] = Head(call.types)}
          /\ Range(call.types) = {Head(call.types)} \cup Range(call'.types)
      BY <1>6, <2>6, Discovered, TakeFirst DEF ToolTypeOK
    <3>2. \A d \in Steady : d \in Range(DevicesRead) \/ d[1] \in Range(call.types)
      BY <2>5, <2>6 DEF NoneHidden
    <3>3. \A d \in Steady : \/ d \in Range(call'.todo) \cup Range(DevicesRead)
                           \/ d[1] \in Range(call'.types)
      BY <2>4, <3>1, <3>2
    <3>4. (\E d \in Steady : d[2] = call.instance)
            => Range(call'.todo) \cup Range(DevicesRead) \subseteq SeenDevices
      BY <2>3, <3>1 DEF NoneHidden
    <3> QED
      BY <2>1, <2>2, <2>6, <3>3, <3>4 DEF NoneHidden
  <2>7. CASE call.instance # 0
    <3>1. call.types = call.asked /\ call.readings = <<>>
      BY <1>6, <2>7 DEF Discover, NoneHidden
    <3>2. PICK i \in DOMAIN call.types :
            OwnerType(i) /\ Range(call'.todo) = {<<call.types[i], call.instance>>}
      BY <1>6, <2>7, Discovered
    <3>3. Range(DevicesRead) = {}
      BY <3>1 DEF DevicesRead, Range
    <3>4. ASSUME NEW d \in Steady, d[2] = call.instance
          PROVE  <<call.types[i], call.instance>> \in Devices
      <4>1. d = <<d[1], call.instance>> /\ d[1] \in Range(call.types)
        BY <3>1, <3>4 DEF Steady
      <4>2. PICK j \in DOMAIN call.types : call.types[j] = d[1]
        BY <4>1 DEF Range
      <4>3. <<call.types[j], call.instance>> \in Devices
        BY <2>4, <4>1, <4>2
      <4> QED
        BY <3>2, <4>3 DEF OwnerType
    <3>5. call'.types = <<>>
      BY <1>6, <2>7, Discovered
    <3>6. (\E d \in Steady : d[2] = call.instance)
            => Range(call'.todo) \cup Range(DevicesRead) \subseteq SeenDevices
      BY <2>3, <3>2, <3>3, <3>4
    <3> QED
      BY <2>1, <2>2, <2>7, <3>5, <3>6 DEF NoneHidden
  <2> QED
    BY <2>6, <2>7
<1>7. CASE ReadCandidate
  BY <1>1, <1>7 DEF ReadCandidate, Keep, ToolTypeOK
<1>8. CASE FinishReading
  <2>1. /\ call'.asked = call.asked /\ call'.instance = call.instance /\ call'.pc = "discover"
        /\ call'.types = call.types /\ held' = held /\ everSeen' = everSeen
        /\ call.todo # <<>>
    BY <1>8 DEF FinishReading, Keep, ToolTypeOK
  <2>2. Steady' = Steady /\ SeenDevices' = SeenDevices
    BY <2>1 DEF Steady, SeenDevices
  <2>3. Range(call'.todo) \cup Range(DevicesRead') = Range(call.todo) \cup Range(DevicesRead)
    BY <1>8, OneMoreRead
  <2>4. ~(call.instance # 0 /\ call.types # <<>>)
    BY <2>1 DEF NoneHidden
  <2> QED
    BY <2>1, <2>2, <2>3, <2>4 DEF NoneHidden
<1>9. CASE Answer
  BY <1>1, <1>9 DEF Answer, Keep, ToolTypeOK
<1>10. ASSUME NEW t \in Items, Decode(t) PROVE NoneHidden'
  BY <1>1, <1>10 DEF Decode
<1>11. CASE UNCHANGED toolVars
  BY <1>1, <1>11 DEF toolVars, NoneHidden
<1> QED
  BY <1>3, <1>4, <1>5, <1>6, <1>7, <1>8, <1>9, <1>10, <1>11 DEF ToolNext

\* A tool group is offered exactly when its service was there.
LEMMA GroupsStep == ToolTypeOK /\ HistorySound /\ GroupsSound /\ [ToolNext]_toolVars => GroupsSound'
<1> SUFFICES ASSUME ToolTypeOK, HistorySound, GroupsSound, [ToolNext]_toolVars PROVE GroupsSound'
  OBVIOUS
<1>1. ASSUME registered' = registered, everSeen \subseteq everSeen',
             \/ call'.pc \notin {"discover", "answered"}
             \/ held' \subseteq held /\ call.pc \in {"discover", "answered"}
      PROVE  GroupsSound'
  BY <1>1 DEF GroupsSound
<1>2. CASE Ready
  <2>1. /\ held' = held /\ everSeen' = everSeen /\ registered \subseteq registered'
        /\ held \subseteq Cached /\ Cached \subseteq everSeen
    BY <1>2 DEF Ready, Keep, HistorySound
  <2>2. \A c \in DOMAIN Markers : c \in registered' <=> c \in registered \cup Detected(Cached)
    BY <1>2, ToolAssumption DEF Ready
  <2> QED
    BY <2>1, <2>2 DEF GroupsSound, Detected
<1>3. ASSUME NEW c \in ToolCalls, CallTool(c) PROVE GroupsSound'
  <2>1. call'.pc = "waiting"
    BY <1>3 DEF CallTool, NoCall
  <2> QED
    BY <1>1, <1>3, <2>1 DEF CallTool
<1>4. CASE NotReady \/ Return
  BY <1>1, <1>4, NoCallType DEF NotReady, Return, Keep
<1>5. CASE Discover
  BY <1>1, <1>5 DEF Discover, Keep, ToolTypeOK
<1>6. CASE ReadCandidate
  BY <1>1, <1>6 DEF ReadCandidate, Keep, ToolTypeOK
<1>7. CASE FinishReading
  BY <1>1, <1>7 DEF FinishReading, Keep, ToolTypeOK
<1>8. CASE Answer
  BY <1>1, <1>8 DEF Answer, Keep, ToolTypeOK
<1>9. ASSUME NEW t \in Items, Decode(t) PROVE GroupsSound'
  BY <1>1, <1>9 DEF Decode, ToolTypeOK
<1>10. CASE UNCHANGED toolVars
  BY <1>1, <1>10 DEF toolVars, ToolTypeOK
<1> QED
  BY <1>2, <1>3, <1>4, <1>5, <1>6, <1>7, <1>8, <1>9, <1>10 DEF ToolNext

(***************************************************************************)
(* The inductive invariant of the read tools, for every set of topics, of  *)
(* field paths and of calls: the histories bound the cache, what was read  *)
(* is kept with the truth about its age, and each device is read, still to *)
(* be read, or of a type still to come (server.py, _read_all_instances).   *)
(***************************************************************************)
THEOREM ToolInvariance == ToolSpec => []ToolInv
<1>1. ToolInit => ToolInv
  <2> SUFFICES ASSUME ToolInit PROVE ToolInv
    OBVIOUS
  <2>1. call = NoCall /\ registered = {} /\ held = {} /\ fresh = {} /\ everSeen = Cached
    BY DEF ToolInit
  <2>2. items \in [Items -> {Absent} \cup [value : ItemValues, old : BOOLEAN]]
    <3>1. (CHOOSE v \in ItemValues : TRUE) \in ItemValues
      BY ToolAssumption
    <3> QED
      BY <3>1 DEF ToolInit
  <2>3. ToolTypeOK
    <3>1. NoCall \in [pc : {"idle", "waiting", "discover", "answered"},
               asked : Seq(AskedTypes), types : Seq(AskedTypes), instance : Nat,
               todo : Seq(Device), field : Nat, candidate : Nat,
               used : UsedValues, old : BOOLEAN,
               readings : Seq([device : Device, used : UsedValues, stale : BOOLEAN])]
      BY EmptySeq DEF NoCall, UsedValues
    <3>2. updates \in 0 .. MaxUpdates /\ calls \in 0 .. MaxCalls
      BY ToolAssumption DEF ToolInit
    <3> QED
      BY <2>1, <2>2, <3>1, <3>2 DEF ToolTypeOK, Cached, UsedValues
  <2>4. Range(DevicesRead) = {} /\ IsInjective(DevicesRead)
    BY <2>1, NoCallType DEF DevicesRead, Range, IsInjective
  <2>5. HistorySound /\ GroupsSound
    BY <2>1, NoCallType DEF HistorySound, GroupsSound
  <2>6. ReadingSound
    BY <2>1, NoCallType, Short DEF ReadingSound, Answered
  <2>7. ReadOnce
    BY <2>1, <2>4, NoCallType, Short DEF ReadOnce
  <2>8. NoneHidden
    BY <2>1, <2>4, NoCallType, Short DEF NoneHidden, Steady
  <2> QED
    BY <2>3, <2>5, <2>6, <2>7, <2>8 DEF ToolInv
<1>2. ToolInv /\ [ToolNext]_toolVars => ToolInv'
  BY ToolTypeStep, HistoryStep, ReadingStep, ReadOnceStep, NoneHiddenStep, GroupsStep DEF ToolInv
<1> QED
  BY <1>1, <1>2, PTL DEF ToolSpec

(***************************************************************************)
(* A read tool hides no device that was there throughout, reads none       *)
(* twice, and calls no value fresh that was not current during the call,   *)
(* however the decoder thread changes the cache under it.                  *)
(***************************************************************************)
THEOREM ReadsAreHonestHolds == ToolSpec => []ReadsAreHonest
<1>1. ToolInv => ReadsAreHonest
  <2> SUFFICES ASSUME ToolInv PROVE ReadsAreHonest
    OBVIOUS
  <2>1. \A r \in Answered : ~r.stale => r.used # {} /\ r.used \subseteq fresh
    BY DEF ToolInv, ReadingSound
  <2>2. ASSUME call.pc = "answered"
        PROVE  /\ IsInjective(DevicesRead)
               /\ call.instance = 0 => Steady \subseteq Range(DevicesRead)
               /\ (\E d \in Steady : d[2] = call.instance) => Range(DevicesRead) \subseteq SeenDevices
    <3>1. Range(call.types) = {} /\ Range(call.todo) = {}
      BY <2>2, Short DEF ToolInv, NoneHidden
    <3> QED
      BY <3>1 DEF ToolInv, NoneHidden, ReadOnce
  <2> QED
    BY <2>1, <2>2 DEF ReadsAreHonest
<1> QED
  BY <1>1, ToolInvariance, PTL

(***************************************************************************)
(* A group of tools is registered only after its service was seen, and is  *)
(* there when a call answers that found the service's topic cached all     *)
(* along (_apply_capability_tools).                                        *)
(***************************************************************************)
THEOREM ToolsAreOfferedHolds == ToolSpec => []ToolsAreOffered
<1>1. ToolInv => ToolsAreOffered
  BY DEF ToolInv, GroupsSound, ToolsAreOffered
<1> QED
  BY <1>1, ToolInvariance, PTL

-----------------------------------------------------------------------------
(* VersionSync: what the version inputs hold.                               *)

LEMMA CommittedFields ==
  /\ Committed = [x \in Fields |-> Committed[x]] /\ DOMAIN Committed = Fields /\ Committed["other"] = 0
  BY DEF Committed, Fields

\* What an edit makes of a file of all fields.
LEMMA EditedFields ==
  ASSUME NEW f, NEW plan, NEW content, content = [x \in Fields |-> content[x]]
  PROVE  LET e == Edited(content, f, policy, plan) IN
         /\ e = [x \in Fields |-> e[x]]
         /\ \A x \in Fields : Owned(policy, f, x) = {} => e[x] = content[x]
         /\ SetBy(f, e, plan)
<1> DEFINE e == Edited(content, f, policy, plan)
           V(x) == ProjectedValue(plan, policy[Max(Owned(policy, f, x))])
<1>1. DOMAIN content = Fields
  OBVIOUS
<1>2. e = [x \in Fields |-> IF Owned(policy, f, x) = {} THEN content[x] ELSE V(x)]
  BY <1>1 DEF Edited
<1>3. Edited(e, f, policy, plan) = [x \in Fields |-> IF Owned(policy, f, x) = {} THEN e[x] ELSE V(x)]
  BY <1>2 DEF Edited
<1> HIDE DEF V, e
<1>4. [x \in Fields |-> IF Owned(policy, f, x) = {} THEN e[x] ELSE V(x)] = e
  BY <1>2
<1> QED
  BY <1>2, <1>3, <1>4 DEF SetBy, e

\* Two files with the same declared fields are edited alike.
LEMMA SetByDeclared ==
  ASSUME NEW f, NEW plan, NEW c, NEW d, c = [x \in Fields |-> c[x]], d = [x \in Fields |-> d[x]],
         \A x \in Fields : Owned(policy, f, x) # {} => c[x] = d[x]
  PROVE  SetBy(f, c, plan) => SetBy(f, d, plan)
<1> DEFINE V(x) == ProjectedValue(plan, policy[Max(Owned(policy, f, x))])
<1>1. DOMAIN c = Fields /\ DOMAIN d = Fields
  OBVIOUS
<1>2. /\ Edited(c, f, policy, plan) = [x \in Fields |-> IF Owned(policy, f, x) = {} THEN c[x] ELSE V(x)]
      /\ Edited(d, f, policy, plan) = [x \in Fields |-> IF Owned(policy, f, x) = {} THEN d[x] ELSE V(x)]
  BY <1>1 DEF Edited
<1> HIDE DEF V
<1> QED
  BY <1>2 DEF SetBy

\* A file that the plan sets holds what every declaration of it projects.
LEMMA SetByAgreed ==
  ASSUME policy \in Policies, NEW plan, Agreed(policy, plan), NEW i \in DOMAIN policy,
         NEW content, content = [x \in Fields |-> content[x]], SetBy(policy[i].path, content, plan)
  PROVE  content[policy[i].field] = ProjectedValue(plan, policy[i])
<1> DEFINE f == policy[i].path
           x == policy[i].field
           S == Owned(policy, f, x)
<1>1. x \in Fields /\ Len(policy) \in Nat /\ DOMAIN policy = 1 .. Len(policy)
  BY PolicyAssumption
<1>2. i \in S /\ S \subseteq 1 .. Len(policy)
  BY <1>1 DEF Owned
<1>3. Max(S) \in S
  BY <1>1, <1>2, GreatestNumber
<1>4. content[x] = ProjectedValue(plan, policy[Max(S)])
  <2>1. DOMAIN content = Fields
    OBVIOUS
  <2>2. Edited(content, f, policy, plan)[x] = ProjectedValue(plan, policy[Max(S)])
    BY <1>1, <1>2, <2>1 DEF Edited
  <2> QED
    BY <2>2 DEF SetBy
<1>5. ProjectedValue(plan, policy[Max(S)]) = ProjectedValue(plan, policy[i])
  <2>1. Max(S) \in DOMAIN policy /\ policy[Max(S)].path = f /\ policy[Max(S)].field = x
    BY <1>3 DEF Owned
  <2> HIDE DEF S
  <2> QED
    BY <2>1 DEF Agreed
<1> QED
  BY <1>4, <1>5

\* The declared fields never include the one the developer edits.
LEMMA OtherIsFree == policy \in Policies => \A f : Owned(policy, f, "other") = {}
  BY PolicyAssumption DEF Owned

LEMMA AtRest ==
  /\ NoSync.pc = "idle" /\ NoSync.plan = NoPlan /\ NoSync.todo = {} /\ NoSync.checked = {}
  /\ NoSync.original = <<>>
  /\ NoSync = [pc |-> "idle", plan |-> NoPlan, original |-> <<>>, todo |-> {}, checked |-> {}]
  BY DEF NoSync

\* A developer's edit changes one file, in a field no plan declares.
LEMMA DeveloperKeeps ==
  ASSUME SyncTypeOK, NEW g \in Files, DeveloperEdits(g)
  PROVE  /\ WholeInputs(disk')
         /\ \A f \in Files : f # g => disk'[f] = disk[f] /\ edits'[f] = edits[f]
         /\ disk'[g].other = edits'[g] /\ edits' \in [Files -> 0 .. MaxEdits]
         /\ \A f \in Files : AsCommitted(f, disk'[f]) => AsCommitted(f, disk[f])
         /\ \A f \in Files : AsCommitted(f, disk[f]) => AsCommitted(f, disk'[f])
         /\ \A f \in Files : \A plan : SetBy(f, disk[f], plan) => SetBy(f, disk'[f], plan)
<1>1. /\ edits' = [edits EXCEPT ![g] = edits[g] + 1] /\ edits[g] < MaxEdits
      /\ disk' = [disk EXCEPT ![g] = [disk[g] EXCEPT !["other"] = edits'[g]]]
  BY DEF DeveloperEdits
<1>2. edits' \in [Files -> 0 .. MaxEdits] /\ \A f \in Files : f # g => edits'[f] = edits[f]
  BY <1>1, PolicyAssumption DEF SyncTypeOK
<1>3. /\ disk = [f \in Files |-> disk[f]]
      /\ \A f \in Files : disk[f] = [x \in Fields |-> disk[f][x]]
  BY DEF SyncTypeOK, WholeInputs
<1>4. /\ disk' = [f \in Files |-> disk'[f]]
      /\ \A f \in Files : f # g => disk'[f] = disk[f]
      /\ disk'[g] = [disk[g] EXCEPT !["other"] = edits'[g]]
  <2>1. PICK c : c = [disk[g] EXCEPT !["other"] = edits'[g]]
    OBVIOUS
  <2>2. disk' = [disk EXCEPT ![g] = c]
    BY <1>1, <2>1
  <2>3. /\ disk' = [f \in Files |-> disk'[f]] /\ disk'[g] = c
        /\ \A f \in Files : f # g => disk'[f] = disk[f]
    BY <1>3, <2>2
  <2> QED
    BY <2>1, <2>3
<1>5. /\ disk'[g] = [x \in Fields |-> disk'[g][x]]
      /\ disk'[g]["other"] = edits'[g]
      /\ \A x \in Fields : x # "other" => disk'[g][x] = disk[g][x]
  <2>1. disk[g] = [x \in Fields |-> disk[g][x]] /\ "other" \in Fields
    BY <1>3 DEF Fields
  <2> QED
    BY <1>4, <2>1
<1>6. WholeInputs(disk')
  BY <1>3, <1>4, <1>5 DEF WholeInputs
<1>7. ASSUME NEW f \in Files
      PROVE  \A x \in Fields : Owned(policy, f, x) # {} => disk'[f][x] = disk[f][x]
  <2>1. Owned(policy, f, "other") = {}
    BY OtherIsFree DEF SyncTypeOK
  <2> QED
    BY <1>4, <1>5, <2>1
<1>8. \A f \in Files : /\ AsCommitted(f, disk'[f]) => AsCommitted(f, disk[f])
                       /\ AsCommitted(f, disk[f]) => AsCommitted(f, disk'[f])
  BY <1>7 DEF AsCommitted
<1>9. ASSUME NEW f \in Files, NEW plan PROVE SetBy(f, disk[f], plan) => SetBy(f, disk'[f], plan)
  <2>1. disk'[f] = [x \in Fields |-> disk'[f][x]] /\ disk[f] = [x \in Fields |-> disk[f][x]]
    BY <1>3, <1>6 DEF WholeInputs
  <2> QED
    BY <1>7, <2>1, SetByDeclared
<1> QED
  BY <1>2, <1>4, <1>5, <1>6, <1>8, <1>9

\* os.replace() leaves one file as the plan says, with the field of the developer
\* as it was when the file was read.
LEMMA ReplaceSets ==
  ASSUME SyncTypeOK, CommandSound, NEW g \in Files, Replace(g)
  PROVE  /\ sync.pc = "replace" /\ g \in sync.todo /\ WholeInputs(disk')
         /\ \A f \in Files : f # g => disk'[f] = disk[f]
         /\ SetBy(g, disk'[g], sync.plan) /\ ~AsCommitted(g, disk'[g])
         /\ disk'[g].other = sync.original[g].other
<1> DEFINE o == sync.original[g]
<1>1. sync.pc = "replace" /\ g \in sync.todo /\ g \in sync.checked
  BY DEF Replace, CommandSound
<1>2. o = [x \in Fields |-> o[x]] /\ ~SetBy(g, o, sync.plan) /\ AsCommitted(g, o)
  BY <1>1 DEF CommandSound, WholeInputs
<1>3. disk' = [disk EXCEPT ![g] = Edited(o, g, policy, sync.plan)]
  BY DEF Replace, New
<1>4. /\ disk = [f \in Files |-> disk[f]]
      /\ \A f \in Files : disk[f] = [x \in Fields |-> disk[f][x]]
  BY DEF SyncTypeOK, WholeInputs
<1>5. /\ disk' = [f \in Files |-> disk'[f]]
      /\ \A f \in Files : f # g => disk'[f] = disk[f]
      /\ disk'[g] = Edited(o, g, policy, sync.plan)
  BY <1>3, <1>4
<1> HIDE DEF o
<1>6. /\ disk'[g] = [x \in Fields |-> disk'[g][x]]
      /\ \A x \in Fields : Owned(policy, g, x) = {} => disk'[g][x] = o[x]
      /\ SetBy(g, disk'[g], sync.plan)
  BY <1>2, <1>5, EditedFields
<1>7. WholeInputs(disk')
  BY <1>4, <1>5, <1>6 DEF WholeInputs
<1>8. ~AsCommitted(g, disk'[g])
  <2> SUFFICES ASSUME AsCommitted(g, disk'[g]) PROVE FALSE
    OBVIOUS
  <2>1. \A x \in Fields : Owned(policy, g, x) # {} => disk'[g][x] = o[x]
    BY <1>2 DEF AsCommitted
  <2> QED
    BY <1>2, <1>6, <2>1, SetByDeclared
<1>9. disk'[g]["other"] = o["other"]
  <2>1. Owned(policy, g, "other") = {} /\ "other" \in Fields
    BY OtherIsFree DEF SyncTypeOK, Fields
  <2> QED
    BY <1>6, <2>1
<1> QED
  BY <1>1, <1>5, <1>6, <1>7, <1>8, <1>9 DEF o

LEMMA SyncTypeStep == SyncTypeOK /\ CommandSound /\ [SyncNext]_syncVars => SyncTypeOK'
<1> SUFFICES ASSUME SyncTypeOK, CommandSound, [SyncNext]_syncVars PROVE SyncTypeOK'
  OBVIOUS
<1>1. ASSUME NEW plan \in Plans, Begin(plan) PROVE SyncTypeOK'
  BY <1>1, AtRest DEF Begin, SyncTypeOK
<1>2. CASE ReadInputs
  BY <1>2 DEF ReadInputs, SyncTypeOK
<1>3. CASE RecheckInputs
  BY <1>3 DEF RecheckInputs, SyncTypeOK
<1>4. CASE WriteEvidence
  BY <1>4, AtRest DEF WriteEvidence, SyncTypeOK
<1>5. CASE Refuse
  BY <1>5, AtRest DEF Refuse, SyncTypeOK
<1>6. CASE Die
  BY <1>6, AtRest DEF Die, SyncTypeOK
<1>7. ASSUME NEW f \in Files, CheckInput(f) PROVE SyncTypeOK'
  BY <1>7 DEF CheckInput, SyncTypeOK
<1>8. ASSUME NEW f \in Files, Replace(f) PROVE SyncTypeOK'
  BY <1>8, ReplaceSets DEF Replace, SyncTypeOK
<1>9. ASSUME NEW f \in Files, DeveloperEdits(f) PROVE SyncTypeOK'
  BY <1>9, DeveloperKeeps DEF DeveloperEdits, SyncTypeOK
<1>10. CASE UNCHANGED syncVars
  BY <1>10 DEF syncVars, SyncTypeOK
<1> QED
  BY <1>1, <1>2, <1>3, <1>4, <1>5, <1>6, <1>7, <1>8, <1>9, <1>10 DEF SyncNext, SyncRuns

LEMMA EditsStep == SyncTypeOK /\ CommandSound /\ EditsKept /\ [SyncNext]_syncVars => EditsKept'
<1> SUFFICES ASSUME SyncTypeOK, CommandSound, EditsKept, [SyncNext]_syncVars PROVE EditsKept'
  OBVIOUS
<1>1. ASSUME disk' = disk, edits' = edits, raced' = raced, sync'.checked = {} PROVE EditsKept'
  BY <1>1 DEF EditsKept
<1>2. ASSUME NEW plan \in Plans, Begin(plan) PROVE EditsKept'
  BY <1>1, <1>2, AtRest DEF Begin
<1>3. CASE ReadInputs
  BY <1>1, <1>3 DEF ReadInputs, SyncTypeOK, CommandSound
<1>4. CASE RecheckInputs
  BY <1>1, <1>4 DEF RecheckInputs, SyncTypeOK, CommandSound
<1>5. CASE WriteEvidence \/ Refuse \/ Die
  BY <1>1, <1>5, AtRest DEF WriteEvidence, Refuse, Die
<1>6. ASSUME NEW g \in Files, CheckInput(g) PROVE EditsKept'
  <2>1. sync'.checked = {g} /\ sync'.original = sync.original /\ disk[g] = sync.original[g]
    BY <1>6 DEF CheckInput, InputUnchanged, SyncTypeOK
  <2> QED
    BY <1>6, <2>1 DEF CheckInput, EditsKept
<1>7. ASSUME NEW g \in Files, Replace(g) PROVE EditsKept'
  <2>1. sync'.checked = {} /\ edits' = edits /\ raced' = raced /\ g \in sync.checked
    BY <1>7 DEF Replace, SyncTypeOK
  <2>2. /\ \A f \in Files : f # g => disk'[f] = disk[f]
        /\ disk'[g].other = sync.original[g].other
    BY <1>7, ReplaceSets
  <2> QED
    BY <2>1, <2>2 DEF EditsKept
<1>8. ASSUME NEW g \in Files, DeveloperEdits(g) PROVE EditsKept'
  <2>1. sync' = sync /\ raced' = raced \cup ({g} \cap sync.checked)
    BY <1>8 DEF DeveloperEdits
  <2>2. /\ \A f \in Files : f # g => disk'[f] = disk[f] /\ edits'[f] = edits[f]
        /\ disk'[g].other = edits'[g]
    BY <1>8, DeveloperKeeps
  <2> QED
    BY <2>1, <2>2 DEF EditsKept
<1>9. CASE UNCHANGED syncVars
  BY <1>9 DEF syncVars, EditsKept
<1> QED
  BY <1>2, <1>3, <1>4, <1>5, <1>6, <1>7, <1>8, <1>9 DEF SyncNext, SyncRuns

\* What verify_checkout accepts is as committed or as the plan leaves it.
LEMMA Verified ==
  ASSUME SyncTypeOK, NEW plan, VerifyCheckout(plan), NEW f \in Files
  PROVE  AsCommitted(f, disk[f]) \/ SetBy(f, disk[f], plan)
<1>1. disk[f] = Committed \/ disk[f] = Edited(Committed, f, policy, plan)
  BY DEF VerifyCheckout, Expected
<1>2. AsCommitted(f, Committed) /\ SetBy(f, Edited(Committed, f, policy, plan), plan)
  BY CommittedFields, EditedFields DEF AsCommitted
<1> QED
  BY <1>1, <1>2

LEMMA CommandStep == SyncTypeOK /\ CommandSound /\ [SyncNext]_syncVars => CommandSound'
<1> SUFFICES ASSUME SyncTypeOK, CommandSound, [SyncNext]_syncVars PROVE CommandSound'
  OBVIOUS
<1>1. ASSUME sync' = NoSync PROVE CommandSound'
  BY <1>1, AtRest DEF CommandSound
<1>2. ASSUME NEW plan \in Plans, Begin(plan) PROVE CommandSound'
  <2>1. /\ sync'.pc = "read" /\ sync'.plan = plan /\ sync'.todo = {} /\ sync'.checked = {}
        /\ tried' = plan /\ disk' = disk /\ policy' = policy
    BY <1>2, AtRest DEF Begin
  <2>2. \A f \in Files : AsCommitted(f, disk[f]) \/ SetBy(f, disk[f], plan)
    BY <1>2, Verified DEF Begin
  <2> QED
    BY <2>1, <2>2 DEF CommandSound, AsCommitted, SetBy
<1>3. CASE ReadInputs
  <2>1. /\ sync'.pc = "recheck" /\ sync'.plan = sync.plan /\ sync'.todo = {} /\ sync'.checked = {}
        /\ sync'.original = disk /\ tried' = tried /\ disk' = disk /\ policy' = policy
        /\ Agreed(policy, sync.plan) /\ sync.pc = "read"
    BY <1>3 DEF ReadInputs, SyncTypeOK, CommandSound
  <2> QED
    BY <2>1 DEF CommandSound, AsCommitted, SetBy, SyncTypeOK, WholeInputs
<1>4. CASE RecheckInputs
  <2>1. /\ sync'.pc = "replace" /\ sync'.plan = sync.plan /\ sync'.checked = {}
        /\ sync'.todo = {f \in Files : New(f) # sync.original[f]}
        /\ sync'.original = disk /\ sync.original = disk
        /\ tried' = tried /\ disk' = disk /\ policy' = policy /\ sync.pc = "recheck"
    BY <1>4 DEF RecheckInputs, SyncTypeOK, CommandSound
  <2>2. \A f \in Files : f \in sync'.todo <=> ~SetBy(f, disk[f], sync.plan)
    BY <2>1 DEF New, SetBy
  <2> QED
    BY <2>1, <2>2 DEF CommandSound, AsCommitted, SetBy, WholeInputs
<1>5. CASE WriteEvidence \/ Refuse \/ Die
  BY <1>1, <1>5 DEF WriteEvidence, Refuse, Die
<1>6. ASSUME NEW g \in Files, CheckInput(g) PROVE CommandSound'
  <2>1. /\ sync'.pc = "replace" /\ sync.pc = "replace" /\ sync'.plan = sync.plan
        /\ sync'.checked = {g} /\ g \in sync.todo /\ sync'.todo = sync.todo
        /\ sync'.original = sync.original
        /\ tried' = tried /\ disk' = disk /\ policy' = policy
    BY <1>6 DEF CheckInput, SyncTypeOK
  <2> QED
    BY <2>1 DEF CommandSound, AsCommitted, SetBy, WholeInputs
<1>7. ASSUME NEW g \in Files, Replace(g) PROVE CommandSound'
  <2>1. /\ sync'.pc = "replace" /\ sync'.plan = sync.plan
        /\ sync'.checked = {} /\ sync'.todo = sync.todo \ {g}
        /\ sync'.original = sync.original
        /\ tried' = tried /\ policy' = policy
    BY <1>7, ReplaceSets DEF Replace, SyncTypeOK
  <2>2. /\ sync.pc = "replace"
        /\ \A f \in Files : f # g => disk'[f] = disk[f]
        /\ SetBy(g, disk'[g], sync.plan)
    BY <1>7, ReplaceSets
  <2>3. \A f \in Files : AsCommitted(f, disk'[f]) \/ SetBy(f, disk'[f], sync.plan)
    BY <2>2 DEF CommandSound
  <2>4. \A f \in Files : IF f \in sync'.todo THEN ~SetBy(f, sync.original[f], sync.plan)
                                            ELSE SetBy(f, disk'[f], sync.plan)
    BY <2>1, <2>2 DEF CommandSound
  <2> QED
    BY <2>1, <2>2, <2>3, <2>4 DEF CommandSound, AsCommitted, SetBy, WholeInputs
<1>8. ASSUME NEW g \in Files, DeveloperEdits(g) PROVE CommandSound'
  <2>1. sync' = sync /\ tried' = tried /\ policy' = policy
    BY <1>8 DEF DeveloperEdits
  <2>2. \A f \in Files : /\ AsCommitted(f, disk'[f]) => AsCommitted(f, disk[f])
                         /\ AsCommitted(f, disk[f]) => AsCommitted(f, disk'[f])
                         /\ SetBy(f, disk[f], sync.plan) => SetBy(f, disk'[f], sync.plan)
    BY <1>8, DeveloperKeeps
  <2>3. sync.pc # "idle" =>
           \A f \in Files : AsCommitted(f, disk'[f]) \/ SetBy(f, disk'[f], sync.plan)
    BY <2>2 DEF CommandSound
  <2>4. ASSUME sync.pc = "replace", NEW f \in Files
        PROVE  IF f \in sync.todo THEN ~SetBy(f, sync.original[f], sync.plan)
                                  ELSE SetBy(f, disk'[f], sync.plan)
    <3>1. CASE f \in sync.todo
      BY <2>4, <3>1 DEF CommandSound
    <3>2. CASE f \notin sync.todo
      <4>1. SetBy(f, disk[f], sync.plan)
        BY <2>4, <3>2 DEF CommandSound
      <4> QED
        BY <2>2, <3>2, <4>1
    <3> QED
      BY <3>1, <3>2
  <2> QED
    BY <2>1, <2>3, <2>4 DEF CommandSound, AsCommitted, SetBy, WholeInputs
<1>9. CASE UNCHANGED syncVars
  BY <1>9 DEF syncVars, CommandSound, AsCommitted, SetBy, WholeInputs
<1> QED
  BY <1>2, <1>3, <1>4, <1>5, <1>6, <1>7, <1>8, <1>9 DEF SyncNext, SyncRuns

LEMMA EvidenceStep ==
  SyncTypeOK /\ CommandSound /\ EvidenceSound /\ [SyncNext]_syncVars => EvidenceSound'
<1> SUFFICES ASSUME SyncTypeOK, CommandSound, EvidenceSound, [SyncNext]_syncVars PROVE EvidenceSound'
  OBVIOUS
<1>1. ASSUME UNCHANGED <<policy, disk, evidence, tried>> PROVE EvidenceSound'
  BY <1>1 DEF EvidenceSound, AsCommitted, SetBy
<1>2. ASSUME NEW plan \in Plans, Begin(plan) PROVE EvidenceSound'
  <2>1. tried' = plan /\ disk' = disk /\ policy' = policy /\ evidence' = evidence
    BY <1>2 DEF Begin
  <2>2. ASSUME evidence # NoPlan, evidence = plan, NEW f \in Files PROVE SetBy(f, disk[f], evidence)
    BY <1>2, <2>2, Verified DEF Begin, EvidenceSound
  <2> QED
    BY <2>1, <2>2 DEF EvidenceSound, AsCommitted, SetBy
<1>3. CASE ReadInputs \/ RecheckInputs \/ Refuse \/ Die
  BY <1>1, <1>3 DEF ReadInputs, RecheckInputs, Refuse, Die
<1>4. CASE WriteEvidence
  <2>1. /\ sync.pc = "replace" /\ sync.todo = {} /\ evidence' = sync.plan
        /\ disk' = disk /\ policy' = policy
    BY <1>4 DEF WriteEvidence
  <2>2. Agreed(policy, sync.plan) /\ \A f \in Files : SetBy(f, disk[f], sync.plan)
    BY <2>1 DEF CommandSound
  <2> QED
    BY <2>1, <2>2 DEF EvidenceSound, AsCommitted, SetBy
<1>5. ASSUME NEW g \in Files, CheckInput(g) PROVE EvidenceSound'
  BY <1>1, <1>5 DEF CheckInput
<1>6. ASSUME NEW g \in Files, Replace(g) PROVE EvidenceSound'
  <2>1. tried' = tried /\ policy' = policy /\ evidence' = evidence
    BY <1>6 DEF Replace
  <2>2. /\ sync.pc = "replace"
        /\ \A f \in Files : f # g => disk'[f] = disk[f]
        /\ SetBy(g, disk'[g], sync.plan) /\ ~AsCommitted(g, disk'[g])
    BY <1>6, ReplaceSets
  <2>3. tried = sync.plan
    BY <2>2 DEF CommandSound
  <2>4. ASSUME evidence # NoPlan, NEW f \in Files
        PROVE  /\ AsCommitted(f, disk'[f]) => SetBy(f, disk'[f], evidence)
               /\ evidence = tried => SetBy(f, disk'[f], evidence)
    BY <2>2, <2>3, <2>4 DEF EvidenceSound
  <2> QED
    BY <2>1, <2>4 DEF EvidenceSound, AsCommitted, SetBy
<1>7. ASSUME NEW g \in Files, DeveloperEdits(g) PROVE EvidenceSound'
  <2>1. tried' = tried /\ policy' = policy /\ evidence' = evidence
    BY <1>7 DEF DeveloperEdits
  <2>2. \A f \in Files : /\ AsCommitted(f, disk'[f]) => AsCommitted(f, disk[f])
                         /\ AsCommitted(f, disk[f]) => AsCommitted(f, disk'[f])
                         /\ SetBy(f, disk[f], evidence) => SetBy(f, disk'[f], evidence)
    BY <1>7, DeveloperKeeps
  <2>3. ASSUME evidence # NoPlan, NEW f \in Files
        PROVE  /\ AsCommitted(f, disk'[f]) => SetBy(f, disk'[f], evidence)
               /\ evidence = tried => SetBy(f, disk'[f], evidence)
    <3>1. /\ AsCommitted(f, disk[f]) => SetBy(f, disk[f], evidence)
          /\ evidence = tried => SetBy(f, disk[f], evidence)
      BY <2>3 DEF EvidenceSound
    <3> QED
      BY <2>2, <3>1
  <2> QED
    BY <2>1, <2>3 DEF EvidenceSound, AsCommitted, SetBy
<1>8. CASE UNCHANGED syncVars
  BY <1>1, <1>8 DEF syncVars
<1> QED
  BY <1>2, <1>3, <1>4, <1>5, <1>6, <1>7, <1>8 DEF SyncNext, SyncRuns

(***************************************************************************)
(* The inductive invariant of synchronisation, for every policy, every set *)
(* of plans and any number of deaths: a command knows each file to be as   *)
(* committed or as its plan leaves it, and what looks as committed agrees  *)
(* with the evidence (sync_versions, verify_checkout).                     *)
(***************************************************************************)
THEOREM SyncInvariance == SyncSpec => []SyncInv
<1>1. SyncInit => SyncInv
  <2> SUFFICES ASSUME SyncInit PROVE SyncInv
    OBVIOUS
  <2>1. /\ policy \in Policies /\ disk = [f \in Files |-> Committed] /\ sync = NoSync
        /\ evidence = NoPlan /\ tried = NoPlan /\ edits = [f \in Files |-> 0] /\ raced = {}
    BY DEF SyncInit
  <2>2. WholeInputs(disk)
    BY <2>1, CommittedFields DEF WholeInputs
  <2>3. SyncTypeOK
    BY <2>1, <2>2, AtRest, PolicyAssumption DEF SyncTypeOK
  <2>4. EditsKept
    BY <2>1, CommittedFields, AtRest DEF EditsKept
  <2>5. CommandSound /\ EvidenceSound
    BY <2>1, AtRest DEF CommandSound, EvidenceSound
  <2> QED
    BY <2>3, <2>4, <2>5 DEF SyncInv
<1>2. SyncInv /\ [SyncNext]_syncVars => SyncInv'
  BY SyncTypeStep, EditsStep, CommandStep, EvidenceStep DEF SyncInv
<1> QED
  BY <1>1, <1>2, PTL DEF SyncSpec

(***************************************************************************)
(* No edit of another field is undone unless it raced the replacement, and *)
(* the evidence of the plan tried last is true of every declared field,    *)
(* whichever commands died halfway (sync_versions, _apply_version_edits).  *)
(***************************************************************************)
THEOREM InputsKeepAndAgreeHolds == SyncSpec => []InputsKeepAndAgree
<1>1. SyncInv => InputsKeepAndAgree
  <2> SUFFICES ASSUME SyncInv PROVE InputsKeepAndAgree
    OBVIOUS
  <2>1. \A f \in Files : f \notin raced => disk[f].other = edits[f]
    BY DEF SyncInv, EditsKept
  <2>2. ASSUME evidence # NoPlan, evidence = tried, NEW i \in DOMAIN policy
        PROVE  disk[policy[i].path][policy[i].field] = ProjectedValue(evidence, policy[i])
    <3>1. policy \in Policies /\ policy[i].path \in Files
      BY PolicyAssumption DEF SyncInv, SyncTypeOK
    <3>2. Agreed(policy, evidence) /\ SetBy(policy[i].path, disk[policy[i].path], evidence)
      BY <2>2, <3>1 DEF SyncInv, EvidenceSound
    <3>3. disk[policy[i].path] = [x \in Fields |-> disk[policy[i].path][x]]
      BY <3>1 DEF SyncInv, SyncTypeOK, WholeInputs
    <3> QED
      BY <3>1, <3>2, <3>3, SetByAgreed
  <2> QED
    BY <2>1, <2>2 DEF InputsKeepAndAgree
<1> QED
  BY <1>1, SyncInvariance, PTL

-----------------------------------------------------------------------------
(* PrepareVersion: topics, pull requests and the base of main.              *)

LEMMA BaseOfMain ==
  ASSUME main \in Seq(Nat), main # <<>>
  PROVE  /\ Len(main) \in Nat \ {0} /\ DOMAIN main = 1 .. Len(main) /\ Len(main) \in DOMAIN main
         /\ Base \in Nat /\ \A i \in DOMAIN main : main[i] \in Nat
<1>1. Len(main) \in Nat \ {0} /\ DOMAIN main = 1 .. Len(main) /\ \A i \in 1 .. Len(main) : main[i] \in Nat
  BY EmptySeq, LenProperties, ElementOfSeq
<1> QED
  BY <1>1 DEF Base

\* What choose_version takes is not below the base of main.
LEMMA ChosenRises ==
  ASSUME PrepTypeOK, MainRises, NEW p \in Preps, NEW r \in Requests[p],
         NEW v \in ChooseVersion(Base, r)
  PROVE  v >= Base
<1> DEFINE s == Selected(Base, r)
<1>1. Base \in Nat
  BY BaseOfMain DEF PrepTypeOK
<1>2. s \in Nat
  <2>1. CASE r.requested # 0
    BY <2>1, PrepAssumption DEF Selected
  <2>2. CASE r.requested = 0 /\ r.bump = "next-patch"
    <3>1. CASE \A t \in tagged : Base > t
      BY <1>1, <2>2, <3>1 DEF Selected, BumpedVersion
    <3>2. CASE ~ \A t \in tagged : Base > t
      <4>1. tagged # {} /\ tagged \subseteq 0 .. Base
        BY <3>2 DEF MainRises
      <4>2. Max(tagged) \in tagged
        BY <1>1, <4>1, GreatestNumber
      <4>3. \A t \in tagged : t \in Nat
        BY <1>1, <4>1
      <4>4. Max(tagged) \in Nat
        BY <4>2, <4>3, Zenon
      <4> QED
        BY <2>2, <3>2, <4>4 DEF Selected, BumpedVersion
    <3> QED
      BY <3>1, <3>2
  <2>3. CASE r.requested = 0 /\ r.bump # "next-patch"
    <3>1. r.bump \in {"major", "minor", "patch"}
      BY <2>3, PrepAssumption
    <3>2. (Base \div 100 + 1) * 100 \in Nat /\ (Base \div 10 + 1) * 10 \in Nat /\ Base + 1 \in Nat
      BY <1>1
    <3> QED
      BY <2>3, <3>1, <3>2 DEF Selected, BumpedVersion
  <2> QED
    BY <2>1, <2>2, <2>3
<1>3. s >= Base /\ v \in FreeVersions(Base, r)
  BY DEF ChooseVersion
<1>4. v \in Nat /\ v >= s
  <2>1. CASE r.requested # 0 \/ r.bump # "next-patch"
    BY <1>2, <1>3, <2>1 DEF FreeVersions
  <2>2. CASE ~(r.requested # 0 \/ r.bump # "next-patch")
    <3>1. IsFiniteSet(Occupied)
      <4>1. IsFiniteSet(0 .. Base) /\ tagged \subseteq 0 .. Base
        BY <1>1, FS_Interval DEF MainRises
      <4>2. IsFiniteSet(tagged)
        BY <4>1, FS_Subset
      <4> QED
        BY <4>2, FS_Union, PrepAssumption DEF Occupied
    <3>2. v = Min((s .. s + Cardinality(Occupied)) \ Occupied)
      BY <1>3, <2>2 DEF FreeVersions
    <3>3. v \in s .. s + Cardinality(Occupied)
      BY <1>2, <3>1, <3>2, OneIsFree
    <3>4. Cardinality(Occupied) \in Nat
      BY <3>1, FS_CardinalityType
    <3> QED
      BY <1>2, <3>3, <3>4
  <2> QED
    BY <2>1, <2>2
<1> QED
  BY <1>1, <1>2, <1>3, <1>4

-----------------------------------------------------------------------------
\* A commit whose base is not below that of main keeps its bases rising.
LEMMA MainGrows ==
  ASSUME PrepTypeOK, MainRises, NEW b \in Nat, b >= Base, main' = Append(main, b)
  PROVE  /\ main' \in Seq(Nat) /\ main' # <<>> /\ Base' = b
         /\ DOMAIN main \subseteq DOMAIN main' /\ \A i \in DOMAIN main : main'[i] = main[i]
         /\ \A i, j \in DOMAIN main' : i <= j => main'[i] <= main'[j]
         /\ tagged \subseteq 0 .. b
<1>1. /\ Len(main) \in Nat \ {0} /\ DOMAIN main = 1 .. Len(main) /\ Len(main) \in DOMAIN main
      /\ Base \in Nat /\ \A i \in DOMAIN main : main[i] \in Nat
  BY BaseOfMain DEF PrepTypeOK
<1>2. /\ main' \in Seq(Nat) /\ main' # <<>> /\ Len(main') = Len(main) + 1
      /\ main'[Len(main) + 1] = b /\ \A i \in 1 .. Len(main) : main'[i] = main[i]
  BY AppendProperties DEF PrepTypeOK
<1>3. DOMAIN main' = 1 .. Len(main) + 1
  BY <1>2, LenProperties
<1>4. Base' = b
  BY <1>2 DEF Base
<1>5. ASSUME NEW i \in DOMAIN main', NEW j \in DOMAIN main', i <= j PROVE main'[i] <= main'[j]
  <2>1. CASE j \in DOMAIN main
    <3>1. i \in DOMAIN main
      BY <1>1, <1>3, <1>5, <2>1
    <3> QED
      BY <1>1, <1>2, <1>5, <2>1, <3>1 DEF MainRises
  <2>2. CASE j = Len(main) + 1
    <3>1. CASE i = Len(main) + 1
      BY <1>2, <2>2, <3>1
    <3>2. CASE i \in DOMAIN main
      <4>1. main[i] <= main[Len(main)]
        BY <1>1, <3>2 DEF MainRises
      <4> QED
        BY <1>1, <1>2, <2>2, <3>2, <4>1 DEF Base
    <3> QED
      BY <1>1, <1>3, <3>1, <3>2
  <2> QED
    BY <1>1, <1>3, <2>1, <2>2
<1>6. tagged \subseteq 0 .. b
  BY <1>1 DEF MainRises
<1> QED
  BY <1>1, <1>2, <1>3, <1>4, <1>5, <1>6

\* What a reviewer merges is not below the base of main.
LEMMA MergeRises ==
  ASSUME PrepTypeOK, TopicsRise, NEW v \in Versions, MergePullRequest(v)
  PROVE  \E b \in Nat : b >= Base /\ main' = Append(main, b)
<1>1. Base \in Nat /\ \A i \in DOMAIN main : main[i] \in Nat
  BY BaseOfMain DEF PrepTypeOK
<1>2. topic[v] # NoTopic /\ TopicOK(topic[v]) /\ main[topic[v].from] <= topic[v].base
  BY DEF MergePullRequest, TopicsRise, PrepTypeOK
<1>3. topic[v].base \in Nat /\ main[topic[v].from] \in Nat
  BY <1>1, <1>2 DEF TopicOK
<1> QED
  BY <1>1, <1>2, <1>3 DEF MergePullRequest

\* Main changes only by a commit that does not lower its base.
LEMMA MainMoves ==
  ASSUME PrepInv, PrepNext
  PROVE  UNCHANGED main \/ \E b \in Nat : b >= Base /\ main' = Append(main, b)
<1>1. CASE OtherWork
  <2>1. Base \in Nat
    BY BaseOfMain DEF PrepInv, PrepTypeOK
  <2> QED
    BY <1>1, <2>1 DEF OtherWork
<1>2. ASSUME NEW v \in Versions, MergePullRequest(v)
      PROVE  \E b \in Nat : b >= Base /\ main' = Append(main, b)
  BY <1>2, MergeRises DEF PrepInv
<1> QED
  BY <1>1, <1>2 DEF PrepNext, PrepStep, ListPullRequests, FetchTopic, Commit, Push, CreatePullRequest,
     PrepKilled, Checkout, TagRelease, ForeignPush, DeleteTopic, remote

\* Nothing that was true of the commits of main becomes false.
LEMMA MainKept ==
  ASSUME PrepInv, PrepNext
  PROVE  /\ main' \in Seq(Nat) /\ main' # <<>> /\ Base' >= Base /\ Base \in Nat /\ Base' \in Nat
         /\ DOMAIN main \subseteq DOMAIN main' /\ \A i \in DOMAIN main : main'[i] = main[i]
         /\ \A i, j \in DOMAIN main' : i <= j => main'[i] <= main'[j]
<1>1. Base \in Nat
  BY BaseOfMain DEF PrepInv, PrepTypeOK
<1>2. CASE UNCHANGED main
  BY <1>1, <1>2 DEF PrepInv, PrepTypeOK, MainRises, Base
<1>3. CASE \E b \in Nat : b >= Base /\ main' = Append(main, b)
  <2>1. PICK b \in Nat : b >= Base /\ main' = Append(main, b)
    BY <1>3
  <2> QED
    BY <1>1, <2>1, MainGrows DEF PrepInv
<1> QED
  BY <1>2, <1>3, MainMoves

-----------------------------------------------------------------------------
LEMMA NoTopicOK == TopicOK(NoTopic) /\ ~NoTopic.foreign
  BY DEF TopicOK, NoTopic

LEMMA NoPrepOK == PrepOK(NoPrep) /\ NoPrep.pc = "idle"
  BY NoTopicOK DEF PrepOK, NoPrep

\* The state that a step of preparation p leaves it in; the others are as they were.
PrepSays(s) ==
  /\ PrepOK(s)
  /\ s.pc # "idle" => main[s.head] <= s.target
  /\ s.pc \in {"commit", "push", "create"} => ~s.read.foreign

\* A preparation that stops promises nothing.
LEMMA StoppedSays == PrepSays(NoPrep)
  BY NoPrepOK DEF PrepSays

LEMMA PrepsSay ==
  ASSUME PrepInv, NEW p \in Preps
  PROVE  PrepSays(prep[p])
  BY DEF PrepInv, PrepTypeOK, TopicsRise, ReadsOwn, PrepSays

\* Main has not lost what a preparation or a topic was based on.
LEMMA TopicStaysOK ==
  ASSUME NEW t, TopicOK(t), DOMAIN main \subseteq DOMAIN main'
  PROVE  TopicOK(t)'
  BY DEF TopicOK

LEMMA PrepStaysOK ==
  ASSUME PrepInv, PrepNext, NEW s, PrepSays(s)
  PROVE  PrepSays(s)'
<1>1. DOMAIN main \subseteq DOMAIN main' /\ \A i \in DOMAIN main : main'[i] = main[i]
  BY MainKept
<1>2. TopicOK(s.read)'
  BY <1>1, TopicStaysOK DEF PrepSays, PrepOK
<1> QED
  BY <1>1, <1>2 DEF PrepSays, PrepOK

\* What each step of a preparation makes of it.
LEMMA PrepMoves ==
  ASSUME PrepInv, PrepNext
  PROVE  /\ prep' = [p \in Preps |-> prep'[p]]
         /\ \A p \in Preps : PrepSays(prep'[p])
<1>0. prep = [p \in Preps |-> prep[p]]
  BY DEF PrepInv, PrepTypeOK
<1>1. ASSUME NEW p \in Preps, NEW s, PrepSays(s), Set(p, s)
      PROVE  /\ prep' = [q \in Preps |-> prep'[q]]
             /\ \A q \in Preps : PrepSays(prep'[q])
  <2>1. prep' = [q \in Preps |-> IF q = p THEN s ELSE prep[q]]
    BY <1>0, <1>1 DEF Set
  <2> QED
    BY <1>1, <2>1, PrepsSay
<1>2. ASSUME NEW p \in Preps, Stop(p)
      PROVE  /\ prep' = [q \in Preps |-> prep'[q]]
             /\ \A q \in Preps : PrepSays(prep'[q])
  BY <1>1, <1>2, StoppedSays DEF Stop
<1>3. ASSUME UNCHANGED prep
      PROVE  /\ prep' = [q \in Preps |-> prep'[q]]
             /\ \A q \in Preps : PrepSays(prep'[q])
  BY <1>0, <1>3, PrepsSay
<1> DEFINE Said == \E p \in Preps : Stop(p) \/ \E s : PrepSays(s) /\ Set(p, s)
<1>4. ASSUME NEW p \in Preps, NEW r \in Requests[p], Checkout(p, r) PROVE Said
  <2>1. PICK v \in ChooseVersion(Base, r) \cap Versions :
          Set(p, [NoPrep EXCEPT !.pc = "list", !.head = Len(main), !.target = v])
    BY <1>4 DEF Checkout
  <2>2. v >= Base /\ v \in Nat
    BY <2>1, ChosenRises, PrepAssumption DEF PrepInv
  <2>3. Len(main) \in DOMAIN main /\ Len(main) \in Nat /\ Base \in Nat
    BY BaseOfMain DEF PrepInv, PrepTypeOK
  <2>4. PICK s : s = [NoPrep EXCEPT !.pc = "list", !.head = Len(main), !.target = v]
    OBVIOUS
  <2>5. s = [pc |-> "list", head |-> Len(main), target |-> v, existing |-> 0, read |-> NoTopic]
    BY <2>4 DEF NoPrep
  <2>6. PrepSays(s)
    BY <2>1, <2>2, <2>3, <2>5, NoTopicOK DEF PrepSays, PrepOK, Base
  <2> QED
    BY <2>1, <2>4, <2>6
<1>5. ASSUME NEW p \in Preps, PrepStep(p) PROVE Said
  <2> USE PrepsSay
  <2>1. CASE ListPullRequests(p)
    <3>1. PICK s : s = [prep[p] EXCEPT !.pc = "fetch",
                          !.existing = IF pr[prep[p].target] THEN topic[prep[p].target].n ELSE 0]
      OBVIOUS
    <3>2. PrepSays(s)
      BY <2>1, <3>1 DEF ListPullRequests, PrepSays, PrepOK
    <3> QED
      BY <2>1, <3>1, <3>2 DEF ListPullRequests
  <2>2. CASE FetchTopic(p) /\ ~Stop(p)
    <3>1. PICK s : s = [prep[p] EXCEPT !.pc = "commit", !.read = topic[prep[p].target]]
      OBVIOUS
    <3>2. PrepSays(prep[p]) /\ prep[p].pc = "fetch" /\ prep[p].target \in Versions
      BY <2>2 DEF FetchTopic, PrepSays, PrepOK
    <3>3. Set(p, s) /\ OwnedTopic(topic[prep[p].target], prep[p].head, prep[p].target)
      BY <2>2, <3>1 DEF FetchTopic
    <3>4. TopicOK(topic[prep[p].target]) /\ ~topic[prep[p].target].foreign
      BY <3>2, <3>3, NoTopicOK DEF OwnedTopic, PrepInv, PrepTypeOK
    <3>5. PrepSays(s)
      BY <3>1, <3>2, <3>4 DEF PrepSays, PrepOK
    <3> QED
      BY <3>3, <3>5
  <2>3. CASE Commit(p) /\ ~Stop(p)
    <3>1. PICK s : s = [prep[p] EXCEPT !.pc = IF Tree(prep[p]) # <<prep[p].read.from, prep[p].read.base>>
                                              THEN "push" ELSE "create"]
      OBVIOUS
    <3>2. PrepSays(s)
      BY <2>3, <3>1 DEF Commit, PrepSays, PrepOK
    <3> QED
      BY <2>3, <3>1, <3>2 DEF Commit
  <2>4. CASE Push(p) /\ ~Stop(p)
    <3>1. PICK s : s = [prep[p] EXCEPT !.pc = "create"]
      OBVIOUS
    <3>2. PrepSays(s)
      BY <2>4, <3>1 DEF Push, PrepSays, PrepOK
    <3> QED
      BY <2>4, <3>1, <3>2 DEF Push
  <2>5. CASE CreatePullRequest(p)
    BY <2>5 DEF CreatePullRequest
  <2> QED
    BY <1>5, <2>1, <2>2, <2>3, <2>4, <2>5 DEF PrepStep
<1>6. Said \/ UNCHANGED prep
  <2>1. ASSUME NEW p \in Preps, PrepKilled(p) PROVE Said
    BY <2>1 DEF PrepKilled
  <2>2. CASE \/ OtherWork \/ TagRelease
             \/ \E v \in Versions : MergePullRequest(v) \/ ForeignPush(v) \/ DeleteTopic(v)
    BY <2>2 DEF OtherWork, TagRelease, MergePullRequest, ForeignPush, DeleteTopic
  <2> HIDE DEF Said
  <2> QED
    BY <1>4, <1>5, <2>1, <2>2 DEF PrepNext
<1> QED
  BY <1>1, <1>2, <1>3, <1>6

\* What a topic, with its pull request, may be.
TopicSays(t, shown) ==
  /\ TopicOK(t)
  /\ t # NoTopic => main[t.from] <= t.base
  /\ shown \in BOOLEAN /\ (shown => t # NoTopic)

LEMMA TopicsSay ==
  ASSUME PrepInv, NEW v \in Versions
  PROVE  TopicSays(topic[v], pr[v])
  BY DEF PrepInv, PrepTypeOK, TopicsRise, TopicSays

LEMMA TopicMoves ==
  ASSUME PrepInv, PrepNext
  PROVE  /\ topic' = [v \in Versions |-> topic'[v]] /\ pr' = [v \in Versions |-> pr'[v]]
         /\ \A v \in Versions : TopicSays(topic'[v], pr'[v])
<1> DEFINE Goal == /\ topic' = [v \in Versions |-> topic'[v]] /\ pr' = [v \in Versions |-> pr'[v]]
                   /\ \A v \in Versions : TopicSays(topic'[v], pr'[v])
<1>0. topic = [v \in Versions |-> topic[v]] /\ pr = [v \in Versions |-> pr[v]]
  BY DEF PrepInv, PrepTypeOK
<1>1. ASSUME NEW v \in Versions, NEW t, NEW shown, TopicSays(t, shown),
             topic' = [topic EXCEPT ![v] = t], pr' = [pr EXCEPT ![v] = shown]
      PROVE  Goal
  <2>1. /\ topic' = [w \in Versions |-> IF w = v THEN t ELSE topic[w]]
        /\ pr' = [w \in Versions |-> IF w = v THEN shown ELSE pr[w]]
    BY <1>0, <1>1
  <2> QED
    BY <1>1, <2>1, TopicsSay
<1>2. ASSUME UNCHANGED <<topic, pr>> PROVE Goal
  BY <1>0, <1>2, TopicsSay
<1>3. ASSUME NEW v \in Versions, NEW t, TopicSays(t, pr[v]), topic' = [topic EXCEPT ![v] = t], pr' = pr
      PROVE  Goal
  <2>1. pr' = [pr EXCEPT ![v] = pr[v]]
    BY <1>0, <1>3
  <2> QED
    BY <1>1, <1>3, <2>1
<1>4. ASSUME NEW v \in Versions, NEW shown, TopicSays(topic[v], shown),
             topic' = topic, pr' = [pr EXCEPT ![v] = shown]
      PROVE  Goal
  <2>1. topic' = [topic EXCEPT ![v] = topic[v]]
    BY <1>0, <1>4
  <2> QED
    BY <1>1, <1>4, <2>1
<1>5. TopicSays(NoTopic, FALSE)
  BY NoTopicOK DEF TopicSays
<1>6. Len(main) \in DOMAIN main /\ Len(main) \in Nat /\ Base \in Nat
  BY BaseOfMain DEF PrepInv, PrepTypeOK
<1>7. ASSUME NEW p \in Preps, Push(p) PROVE Goal
  <2>1. CASE UNCHANGED topic
    BY <1>2, <1>7, <2>1 DEF Push
  <2>2. CASE ~UNCHANGED topic
    <3>1. PICK t : t = [n |-> FreshId, from |-> prep[p].head, base |-> prep[p].target, foreign |-> FALSE]
      OBVIOUS
    <3>2. /\ prep[p].target \in Versions /\ prep[p].target \in Nat /\ prep[p].head \in Nat
          /\ prep[p].head \in DOMAIN main /\ main[prep[p].head] <= prep[p].target
      BY <1>7, PrepsSay DEF Push, PrepSays, PrepOK
    <3>3. prep[p].head # 0
      BY <3>2, BaseOfMain DEF PrepInv, PrepTypeOK
    <3>4. TopicSays(t, pr[prep[p].target])
      BY <3>1, <3>2, <3>3, TopicsSay DEF TopicSays, TopicOK, NoTopic
    <3>5. topic' = [topic EXCEPT ![prep[p].target] = t] /\ pr' = pr
      BY <1>7, <2>2, <3>1 DEF Push
    <3> QED
      BY <1>3, <3>2, <3>4, <3>5
  <2> QED
    BY <2>1, <2>2
<1>8. ASSUME NEW p \in Preps, CreatePullRequest(p) PROVE Goal
  <2>1. prep[p].target \in Versions
    BY <1>8, PrepsSay DEF CreatePullRequest, PrepSays, PrepOK
  <2>2. PICK shown : shown = (pr[prep[p].target] \/ (prep[p].existing = 0 /\ topic[prep[p].target] # NoTopic))
    OBVIOUS
  <2>3. TopicSays(topic[prep[p].target], shown)
    BY <2>1, <2>2, TopicsSay DEF TopicSays
  <2>4. topic' = topic /\ pr' = [pr EXCEPT ![prep[p].target] = shown]
    BY <1>8, <2>2 DEF CreatePullRequest
  <2> QED
    BY <1>4, <2>1, <2>3, <2>4
<1>9. ASSUME NEW v \in Versions, MergePullRequest(v) PROVE Goal
  <2>1. TopicSays(topic[v], FALSE)
    BY TopicsSay DEF TopicSays
  <2> QED
    BY <1>1, <1>4, <1>5, <1>9, <2>1 DEF MergePullRequest
<1>10. ASSUME NEW v \in Versions, ForeignPush(v) PROVE Goal
  <2>1. PICK t : t = IF topic[v] = NoTopic
                     THEN [n |-> FreshId, from |-> Len(main), base |-> Base, foreign |-> TRUE]
                     ELSE [topic[v] EXCEPT !.n = FreshId, !.foreign = TRUE]
    OBVIOUS
  <2>2. t.foreign /\ TopicOK(t) /\ t # NoTopic /\ main[t.from] <= t.base
    <3>1. CASE topic[v] = NoTopic
      BY <1>6, <2>1, <3>1 DEF TopicOK, NoTopic, Base
    <3>2. CASE topic[v] # NoTopic
      BY <2>1, <3>2, TopicsSay DEF TopicSays, TopicOK, NoTopic
    <3> QED
      BY <3>1, <3>2
  <2>3. TopicSays(t, pr[v])
    BY <2>2, TopicsSay DEF TopicSays
  <2>4. topic' = [topic EXCEPT ![v] = t] /\ pr' = pr
    BY <1>10, <2>1 DEF ForeignPush
  <2> QED
    BY <1>3, <2>3, <2>4
<1>11. ASSUME NEW v \in Versions, DeleteTopic(v) PROVE Goal
  BY <1>1, <1>5, <1>11 DEF DeleteTopic
<1>12. ASSUME NEW p \in Preps, \/ ListPullRequests(p) \/ FetchTopic(p) \/ Commit(p) \/ PrepKilled(p)
                               \/ \E r \in Requests[p] : Checkout(p, r)
       PROVE  Goal
  BY <1>2, <1>12 DEF ListPullRequests, FetchTopic, Commit, PrepKilled, Checkout, remote
<1>13. ASSUME OtherWork \/ TagRelease PROVE Goal
  BY <1>2, <1>13 DEF OtherWork, TagRelease
<1> HIDE DEF Goal
<1>14. Goal
  BY <1>7, <1>8, <1>9, <1>10, <1>11, <1>12, <1>13 DEF PrepNext, PrepStep
<1> QED
  BY <1>14 DEF Goal

LEMMA TaggedMoves ==
  ASSUME PrepInv, PrepNext
  PROVE  tagged' \subseteq 0 .. Base'
<1>1. tagged' \subseteq tagged \cup {Base}
  BY DEF PrepNext, PrepStep, ListPullRequests, FetchTopic, Commit, Push, CreatePullRequest, OtherWork,
     PrepKilled, Checkout, TagRelease, MergePullRequest, ForeignPush, DeleteTopic, remote
<1>2. tagged \subseteq 0 .. Base
  BY DEF PrepInv, MainRises
<1> QED
  BY <1>1, <1>2, MainKept

\* No step of a preparation, and none of anybody else, breaks the invariant.
LEMMA PrepInvStep ==
  ASSUME PrepInv, PrepNext
  PROVE  PrepInv'
<1>1. ASSUME NEW p \in Preps PROVE PrepSays(prep[p])'
  <2>1. PICK s : s = prep'[p] /\ PrepSays(s)
    BY PrepMoves
  <2>2. PrepSays(s)'
    BY <2>1, PrepStaysOK
  <2> QED
    BY <2>1, <2>2 DEF PrepSays, PrepOK, TopicOK
<1>2. ASSUME NEW v \in Versions PROVE TopicSays(topic[v], pr[v])'
  <2>1. TopicSays(topic'[v], pr'[v])
    BY TopicMoves
  <2>2. DOMAIN main \subseteq DOMAIN main' /\ \A i \in DOMAIN main : main'[i] = main[i]
    BY MainKept
  <2> QED
    BY <2>1, <2>2 DEF TopicSays, TopicOK
<1>3. pr' \in [Versions -> BOOLEAN]
  <2>1. \A v \in Versions : pr'[v] \in BOOLEAN
    BY TopicMoves DEF TopicSays
  <2> QED
    BY <2>1, TopicMoves
<1>4. PrepTypeOK'
  BY <1>1, <1>2, <1>3, MainKept, TopicMoves, PrepMoves DEF PrepTypeOK, PrepSays, TopicSays
<1>5. MainRises'
  BY MainKept, TaggedMoves DEF MainRises
<1>6. TopicsRise'
  BY <1>1, <1>2 DEF TopicsRise, PrepSays, TopicSays
<1>7. ReadsOwn'
  BY <1>1 DEF ReadsOwn, PrepSays
<1> QED
  BY <1>4, <1>5, <1>6, <1>7 DEF PrepInv

(***************************************************************************)
(* However preparations, merges, tags, foreign pushes, deletions and       *)
(* deaths interleave: the bases of main rise, no topic and no preparation  *)
(* is below the commit of main it starts from, a pull request has its      *)
(* topic, and a preparation goes on only from a topic without foreign work *)
(* (choose_version, verify_owned_topic, _preparation_topic).               *)
(***************************************************************************)
THEOREM PrepInvariance == PrepSpec => []PrepInv
<1>1. ASSUME PrepInit PROVE PrepInv
  <2>1. /\ main = <<100>> /\ tagged = {} /\ topic = [v \in Versions |-> NoTopic]
        /\ pr = [v \in Versions |-> FALSE] /\ prep = [p \in Preps |-> NoPrep]
    BY <1>1 DEF PrepInit
  <2>2. main \in Seq(Nat) /\ main # <<>> /\ Len(main) = 1 /\ main[1] = 100 /\ DOMAIN main = {1}
    BY <2>1
  <2>3. PrepTypeOK
    BY <2>1, <2>2, NoTopicOK, NoPrepOK DEF PrepTypeOK
  <2>4. MainRises
    BY <2>1, <2>2 DEF MainRises
  <2>5. TopicsRise /\ ReadsOwn
    BY <2>1, NoPrepOK DEF TopicsRise, ReadsOwn
  <2> QED
    BY <2>3, <2>4, <2>5 DEF PrepInv
<1>2. ASSUME PrepInv, UNCHANGED prepVars PROVE PrepInv'
  BY <1>2 DEF PrepInv, PrepTypeOK, MainRises, TopicsRise, ReadsOwn, PrepOK, TopicOK, Base, prepVars
<1> QED
  BY <1>1, <1>2, PrepInvStep, PTL DEF PrepSpec

(***************************************************************************)
(* For any requests, any number of preparations and any number of open     *)
(* topics merged late and in any order, the base of main never goes down   *)
(* (choose_version, prepare).                                              *)
(***************************************************************************)
THEOREM NeverDowngradesHolds == PrepSpec => NeverDowngrades
<1>1. ASSUME PrepInv, PrepNext PROVE main'[Len(main')] >= Base
  BY <1>1, MainKept DEF Base
<1>2. ASSUME PrepInv, [PrepNext]_prepVars PROVE [main'[Len(main')] >= Base]_prepVars
  BY <1>1, <1>2
<1> QED
  BY <1>2, PrepInvariance, PTL DEF PrepSpec, NeverDowngrades

LEMMA ForeignStays ==
  ASSUME PrepInv, PrepNext, NEW v \in Versions, topic[v].foreign, topic'[v] # topic[v]
  PROVE  topic'[v] = NoTopic \/ topic'[v].foreign
<1>0. topic = [w \in Versions |-> topic[w]]
  BY DEF PrepInv, PrepTypeOK
<1>1. ASSUME NEW p \in Preps, Push(p) PROVE FALSE
  <2>1. FastForward(p) /\ ~prep[p].read.foreign
    BY <1>0, <1>1 DEF Push, PrepInv, ReadsOwn
  <2>2. prep[p].target = v
    BY <1>0, <1>1, <2>1 DEF Push
  <2> QED
    BY <2>1, <2>2, NoTopicOK DEF FastForward
<1>2. ASSUME NEW w \in Versions, MergePullRequest(w) \/ DeleteTopic(w) PROVE topic'[v] = NoTopic
  BY <1>0, <1>2 DEF MergePullRequest, DeleteTopic
<1>3. ASSUME NEW w \in Versions, ForeignPush(w) PROVE topic'[v].foreign
  <2>1. w = v
    BY <1>0, <1>3 DEF ForeignPush
  <2>2. topic[v] # NoTopic /\ TopicOK(topic[v])
    BY NoTopicOK DEF PrepInv, PrepTypeOK
  <2>3. topic'[v] = [topic[v] EXCEPT !.n = FreshId, !.foreign = TRUE]
    BY <1>0, <1>3, <2>1, <2>2 DEF ForeignPush
  <2> QED
    BY <2>2, <2>3 DEF TopicOK
<1> QED
  BY <1>1, <1>2, <1>3 DEF PrepNext, PrepStep, ListPullRequests, FetchTopic, Commit, CreatePullRequest,
     OtherWork, PrepKilled, Checkout, TagRelease, remote

(***************************************************************************)
(* For any number of preparations: a branch that holds somebody else's     *)
(* work changes only by more of that work or by its deletion, whatever a   *)
(* preparation had read before it pushed (verify_owned_topic, the non-     *)
(* forced push of prepare).                                                *)
(***************************************************************************)
THEOREM ForeignWorkIsKeptHolds == PrepSpec => ForeignWorkIsKept
<1>1. ASSUME PrepInv, [PrepNext]_prepVars
      PROVE  [\A v \in Versions : topic[v].foreign /\ topic'[v] # topic[v]
                => topic'[v] = NoTopic \/ topic'[v].foreign]_prepVars
  BY <1>1, ForeignStays
<1> QED
  BY <1>1, PrepInvariance, PTL DEF PrepSpec, ForeignWorkIsKept

-----------------------------------------------------------------------------
(* OciMerge: archives merged while their inputs may be rewritten.           *)

\* A graph that passes its tests has one image, and all that its leaves refer to.
LEMMA GraphIsWhole ==
  ASSUME NEW a, NEW platform, NEW version, ValidGraph(a, platform, version)
  PROVE  /\ \E d \in Leaves(a) : Images(a) = {d} /\ Blob[d].version = version
         /\ \A d \in Images(a) : Blob[d].platform = platform
         /\ \A d \in Leaves(a) : d \in a.has /\ References(d) \subseteq a.has
<1>1. ASSUME NEW d \in Leaves(a)
      PROVE  /\ d \in a.has /\ Blob[d].kind \in {"image", "attestation"}
             /\ Blob[d].kind = "image" => ValidImage(a, d, platform, version)
             /\ Blob[d].kind = "attestation" => ValidAttestation(a, d)
  <2>1. PICK i \in LeafPositions(a) : d = Visited(a)[i]
    BY <1>1 DEF Leaves
  <2> QED
    BY <2>1 DEF LeafPositions, ValidGraph
<1>2. ASSUME NEW d \in Leaves(a) PROVE References(d) \subseteq a.has
  <2>1. CASE Blob[d].kind = "image"
    <3>1. ValidImage(a, d, platform, version)
      BY <1>1, <2>1
    <3>2. Range(Blob[d].layers) \subseteq a.has /\ Blob[d].config \in a.has
      BY <3>1 DEF ValidImage, Range
    <3>3. References(d) = Range(Blob[d].layers) \cup {Blob[d].config}
      BY <2>1 DEF References
    <3> QED
      BY <3>2, <3>3
  <2>2. CASE Blob[d].kind = "attestation"
    <3>1. ValidAttestation(a, d)
      BY <1>1, <2>2
    <3>2. References(d) = Blob[d].statements \cup {Blob[d].config, Blob[d].subject}
      BY <2>2 DEF References
    <3> QED
      BY <3>1, <3>2 DEF ValidAttestation
  <2> QED
    BY <1>1, <2>1, <2>2
<1>3. ASSUME NEW d \in Images(a) PROVE Blob[d].platform = platform /\ Blob[d].version = version
  BY <1>1, <1>3 DEF Images, ValidImage
<1>4. PICK d \in Leaves(a) : Images(a) = {d}
  BY DEF ValidGraph, CompleteGraph
<1> QED
  BY <1>1, <1>2, <1>3, <1>4

\* What a merger has read of each input, in terms of where it is.
LEMMA MergerCounts ==
  ASSUME NEW s, MergerOK(s)
  PROVE  /\ s.i \in 1 .. Len(Platforms) /\ Len(Platforms) \in Nat
         /\ s.stamp \in Seq(Nat) /\ s.blobs \in Seq(Archives)
         /\ Len(s.stamp) = StampsRead(s) /\ Len(s.blobs) = BlobsRead(s)
         /\ DOMAIN s.stamp = 1 .. Len(s.stamp) /\ DOMAIN s.blobs = 1 .. Len(s.blobs)
         /\ \A k \in 1 .. Len(s.stamp) : k \in DOMAIN Platforms /\ s.stamp[k] \in Nat
         /\ \A k \in 1 .. Len(s.blobs) : s.blobs[k] \in Archives
         /\ GraphsRead(s) \in Nat /\ Copied(s) \in Nat
         /\ GraphsRead(s) <= Len(s.blobs) /\ Copied(s) <= Len(s.blobs) /\ Len(s.blobs) <= Len(s.stamp)
<1>1. /\ s.i \in 1 .. Len(Platforms) /\ Len(Platforms) \in Nat /\ DOMAIN Platforms = 1 .. Len(Platforms)
      /\ s.stamp \in Seq(Nat) /\ s.blobs \in Seq(Archives)
      /\ Len(s.stamp) = StampsRead(s) /\ Len(s.blobs) = BlobsRead(s)
  BY OciAssumption DEF MergerOK
<1>2. /\ DOMAIN s.stamp = 1 .. Len(s.stamp) /\ DOMAIN s.blobs = 1 .. Len(s.blobs)
      /\ \A k \in 1 .. Len(s.stamp) : s.stamp[k] \in Nat
      /\ \A k \in 1 .. Len(s.blobs) : s.blobs[k] \in Archives
  BY <1>1, LenProperties, ElementOfSeq
<1>3. /\ StampsRead(s) \in 0 .. Len(Platforms)
      /\ GraphsRead(s) \in Nat /\ Copied(s) \in Nat /\ BlobsRead(s) \in Nat
      /\ GraphsRead(s) <= BlobsRead(s) /\ Copied(s) <= BlobsRead(s) /\ BlobsRead(s) <= StampsRead(s)
  BY <1>1 DEF StampsRead, BlobsRead, GraphsRead, Copied, Upto
<1> QED
  BY <1>1, <1>2, <1>3

\* A temporary file made of inputs that nobody touched is whole.
LEMMA TemporaryIsWhole ==
  ASSUME NEW s, MergerSound(s), Trusted(s), s.pc = "link"
  PROVE  Whole([leaves |-> s.leaves, has |-> s.has, bad |-> s.bad])
<1> DEFINE P == DOMAIN Platforms
           o == [leaves |-> s.leaves, has |-> s.has, bad |-> s.bad]
<1>1. /\ GraphsRead(s) = Len(Platforms) /\ Copied(s) = Len(Platforms)
      /\ P = 1 .. Len(Platforms)
  BY OciAssumption DEF GraphsRead, Copied, Upto
<1>2. /\ \A i \in P : ValidGraph(s.blobs[i], Platforms[i], Version)
      /\ s.leaves = UNION {Leaves(s.blobs[i]) : i \in P}
      /\ s.bad = {}
      /\ s.has = UNION {s.blobs[i].has : i \in P}
  BY <1>1 DEF MergerSound, ReadsTrue
<1>3. ASSUME NEW i \in P
      PROVE  \E d \in s.leaves : /\ {e \in s.leaves : Blob[e].kind = "image"
                                                      /\ Blob[e].platform = Platforms[i]} = {d}
                                 /\ Blob[d].version = Version
  <2>1. PICK d \in Leaves(s.blobs[i]) : Images(s.blobs[i]) = {d} /\ Blob[d].version = Version
    BY <1>2, GraphIsWhole
  <2>2. d \in s.leaves /\ Blob[d].kind = "image" /\ Blob[d].platform = Platforms[i]
    <3>1. d \in s.leaves
      BY <1>2, <2>1
    <3>2. d \in Images(s.blobs[i])
      BY <2>1
    <3> QED
      BY <1>2, <3>1, <3>2, GraphIsWhole DEF Images
  <2>3. ASSUME NEW e \in s.leaves, Blob[e].kind = "image", Blob[e].platform = Platforms[i] PROVE e = d
    <3>1. PICK j \in P : e \in Leaves(s.blobs[j])
      BY <1>2
    <3>2. e \in Images(s.blobs[j])
      BY <2>3, <3>1 DEF Images
    <3>3. Blob[e].platform = Platforms[j]
      BY <1>2, <3>2, GraphIsWhole
    <3>4. j = i
      BY <2>3, <3>3, OciAssumption
    <3> QED
      BY <2>1, <3>2, <3>4
  <2> QED
    BY <2>1, <2>2, <2>3
<1>4. ASSUME NEW d \in s.leaves PROVE d \in s.has /\ References(d) \subseteq s.has
  <2>1. PICK j \in P : d \in Leaves(s.blobs[j])
    BY <1>2
  <2>2. d \in s.blobs[j].has /\ References(d) \subseteq s.blobs[j].has
    BY <1>2, <2>1, GraphIsWhole
  <2>3. s.blobs[j].has \subseteq s.has
    BY <1>2
  <2> QED
    BY <2>2, <2>3
<1>5. o.leaves = s.leaves /\ o.has = s.has /\ o.bad = {}
  BY <1>2
<1> HIDE DEF o
<1>6. Whole(o)
  BY <1>3, <1>4, <1>5 DEF Whole
<1> QED
  BY <1>6 DEF o

-----------------------------------------------------------------------------
LEMMA NewMergerSound ==
  ASSUME NEW pc \in {"start", "done", "failed"}
  PROVE  MergerSound([NewMerger EXCEPT !.pc = pc])
<1>1. PICK s : s = [NewMerger EXCEPT !.pc = pc]
  OBVIOUS
<1>2. s = [pc |-> pc, i |-> 1, stamp |-> <<>>, blobs |-> <<>>, leaves |-> {}, has |-> {}, bad |-> {}]
  BY <1>1 DEF NewMerger
<1>3. StampsRead(s) = 0 /\ BlobsRead(s) = 0 /\ GraphsRead(s) = 0 /\ Copied(s) = 0 /\ s.i \in DOMAIN Platforms
  BY <1>2, OciAssumption DEF StampsRead, BlobsRead, GraphsRead, Copied, Upto
<1>4. MergerOK(s)
  BY <1>2, <1>3 DEF MergerOK
<1>5. /\ StampsAge(s) /\ ReadsTrue(s) /\ s.pc # "publish"
      /\ s.has = UNION {s.blobs[i].has : i \in 1 .. Copied(s)}
  <2>1. 1 .. 0 = {} /\ Len(s.stamp) = 0 /\ s.leaves = {} /\ s.has = {} /\ s.bad = {} /\ s.pc # "publish"
    BY <1>2
  <2>2. StampsAge(s)
    BY <2>1 DEF StampsAge
  <2>3. ReadsTrue(s)
    BY <1>3, <2>1 DEF ReadsTrue
  <2> QED
    BY <1>3, <2>1, <2>2, <2>3
<1>6. MergerSound(s)
  BY <1>4, <1>5 DEF MergerSound
<1> QED
  BY <1>1, <1>6

\* Each step of a merger leaves it with what it should have read.
LEMMA OpenSound ==
  ASSUME OciInv, NEW m \in Mergers, merger[m].pc = "open"
  PROVE  MergerSound([merger[m] EXCEPT !.pc = "inventory", !.stamp = Append(@, input[merger[m].i].stamp)])
<1>1. PICK s : s = merger[m]
  OBVIOUS
<1>2. PICK t : t = [s EXCEPT !.pc = "inventory", !.stamp = Append(@, input[s.i].stamp)]
  OBVIOUS
<1>3. MergerSound(s) /\ MergerOK(s) /\ s.pc = "open"
  BY <1>1 DEF OciInv, MergerSound
<1>4. input[s.i].stamp \in Nat
  BY <1>3 DEF OciInv, MergerOK
<1>5. /\ t.pc = "inventory" /\ t.i = s.i /\ t.stamp = Append(s.stamp, input[s.i].stamp) /\ t.blobs = s.blobs
      /\ t.leaves = s.leaves /\ t.has = s.has /\ t.bad = s.bad
  BY <1>2, <1>3 DEF MergerOK
<1>6. /\ s.i \in 1 .. Len(Platforms) /\ s.stamp \in Seq(Nat)
      /\ Len(s.stamp) = s.i - 1 /\ Len(s.blobs) = s.i - 1
      /\ BlobsRead(s) = s.i - 1 /\ GraphsRead(s) = s.i - 1 /\ Copied(s) = 0
      /\ BlobsRead(t) = s.i - 1 /\ GraphsRead(t) = s.i - 1 /\ Copied(t) = 0 /\ StampsRead(t) = s.i
  BY <1>3, <1>5, MergerCounts DEF StampsRead, BlobsRead, GraphsRead, Copied, Upto
<1>7. /\ t.stamp \in Seq(Nat) /\ Len(t.stamp) = s.i /\ t.stamp[s.i] = input[s.i].stamp
      /\ \A k \in 1 .. s.i - 1 : t.stamp[k] = s.stamp[k]
  BY <1>4, <1>5, <1>6, AppendProperties
<1>8. MergerOK(t)
  <2>1. t.i \in DOMAIN Platforms /\ t.blobs \in Seq(Archives)
    BY <1>3, <1>5 DEF MergerOK
  <2>2. t = [pc |-> t.pc, i |-> t.i, stamp |-> t.stamp, blobs |-> t.blobs, leaves |-> t.leaves,
             has |-> t.has, bad |-> t.bad]
    BY <1>2, <1>3 DEF MergerOK
  <2> QED
    BY <1>5, <1>6, <1>7, <2>1, <2>2 DEF MergerOK
<1>9. StampsAge(t)
  <2>1. ASSUME NEW k \in 1 .. s.i PROVE t.stamp[k] <= input[k].stamp
    <3>1. CASE k = s.i
      BY <1>4, <1>7, <3>1
    <3>2. CASE k \in 1 .. s.i - 1
      BY <1>3, <1>6, <1>7, <3>2 DEF StampsAge, MergerSound
    <3> QED
      BY <1>6, <3>1, <3>2
  <2> QED
    BY <1>7, <2>1 DEF StampsAge
<1>10. ASSUME Trusted(t) PROVE ReadsTrue(t)
  <2>1. Trusted(s)
    BY <1>6, <1>7, <1>10 DEF Trusted
  <2> QED
    BY <1>3, <1>5, <1>6, <2>1 DEF MergerSound, ReadsTrue
<1>11. MergerSound(t)
  BY <1>3, <1>5, <1>6, <1>8, <1>9, <1>10 DEF MergerSound
<1> QED
  BY <1>1, <1>2, <1>11

LEMMA InventorySound ==
  ASSUME OciInv, NEW m \in Mergers, merger[m].pc = "inventory"
  PROVE  MergerSound([merger[m] EXCEPT !.pc = "walk", !.blobs = Append(@, In(m))])
<1>1. PICK s : s = merger[m]
  OBVIOUS
<1>2. PICK t : t = [s EXCEPT !.pc = "walk", !.blobs = Append(@, In(m))]
  OBVIOUS
<1>3. MergerSound(s) /\ MergerOK(s) /\ s.pc = "inventory"
  BY <1>1 DEF OciInv, MergerSound
<1>4. In(m) \in Archives /\ In(m) = input[s.i].archive
  BY <1>1, <1>3 DEF OciInv, MergerOK, In
<1>5. /\ t.pc = "walk" /\ t.i = s.i /\ t.blobs = Append(s.blobs, In(m)) /\ t.stamp = s.stamp
      /\ t.leaves = s.leaves /\ t.has = s.has /\ t.bad = s.bad
  BY <1>2, <1>3 DEF MergerOK
<1>6. /\ s.i \in 1 .. Len(Platforms) /\ s.blobs \in Seq(Archives)
      /\ Len(s.stamp) = s.i /\ Len(s.blobs) = s.i - 1
      /\ BlobsRead(s) = s.i - 1 /\ GraphsRead(s) = s.i - 1 /\ Copied(s) = 0
      /\ BlobsRead(t) = s.i /\ GraphsRead(t) = s.i - 1 /\ Copied(t) = 0 /\ StampsRead(t) = s.i
  BY <1>3, <1>5, MergerCounts DEF StampsRead, BlobsRead, GraphsRead, Copied, Upto
<1>7. /\ t.blobs \in Seq(Archives) /\ Len(t.blobs) = s.i /\ t.blobs[s.i] = input[s.i].archive
      /\ \A k \in 1 .. s.i - 1 : t.blobs[k] = s.blobs[k]
  BY <1>4, <1>5, <1>6, AppendProperties
<1>8. MergerOK(t)
  <2>1. t.i \in DOMAIN Platforms /\ t.stamp \in Seq(Nat)
    BY <1>3, <1>5 DEF MergerOK
  <2>2. t = [pc |-> t.pc, i |-> t.i, stamp |-> t.stamp, blobs |-> t.blobs, leaves |-> t.leaves,
             has |-> t.has, bad |-> t.bad]
    BY <1>2, <1>3 DEF MergerOK
  <2> QED
    BY <1>5, <1>6, <1>7, <2>1, <2>2 DEF MergerOK
<1>9. StampsAge(t)
  BY <1>3, <1>5 DEF StampsAge, MergerSound
<1>10. ASSUME Trusted(t) PROVE ReadsTrue(t)
  <2>1. Trusted(s)
    BY <1>5, <1>10 DEF Trusted
  <2>2. ReadsTrue(s)
    BY <1>3, <2>1 DEF MergerSound
  <2>3. \A k \in 1 .. s.i : t.blobs[k] = input[k].archive
    BY <1>6, <1>7, <2>2 DEF ReadsTrue
  <2>4. \A k \in 1 .. s.i - 1 : ValidGraph(t.blobs[k], Platforms[k], Version)
    BY <1>6, <1>7, <2>2 DEF ReadsTrue
  <2>5. t.leaves = UNION {Leaves(t.blobs[k]) : k \in 1 .. s.i - 1} /\ t.bad = {}
    BY <1>5, <1>6, <1>7, <2>2 DEF ReadsTrue
  <2> QED
    BY <1>6, <2>3, <2>4, <2>5 DEF ReadsTrue
<1>11. t.has = UNION {t.blobs[k].has : k \in 1 .. Copied(t)}
  BY <1>3, <1>5, <1>6 DEF MergerSound
<1>12. MergerSound(t)
  BY <1>5, <1>8, <1>9, <1>10, <1>11 DEF MergerSound
<1> QED
  BY <1>1, <1>2, <1>12

\* The graph is read from the blobs of the inventory: of a file that nobody touched, its own.
LEMMA WalkSound ==
  ASSUME OciInv, NEW m \in Mergers, merger[m].pc = "walk", NEW a,
         a = [In(m) EXCEPT !.has = merger[m].blobs[merger[m].i].has],
         ValidGraph(a, Platforms[merger[m].i], Version)
  PROVE  MergerSound([merger[m] EXCEPT !.pc = "recheck", !.leaves = @ \cup Leaves(a)])
<1>1. PICK s : s = merger[m]
  OBVIOUS
<1>2. PICK t : t = [s EXCEPT !.pc = "recheck", !.leaves = @ \cup Leaves(a)]
  OBVIOUS
<1>3. MergerSound(s) /\ MergerOK(s) /\ s.pc = "walk"
  BY <1>1 DEF OciInv, MergerSound
<1>4. In(m) \in Archives /\ In(m) = input[s.i].archive
  BY <1>1, <1>3 DEF OciInv, MergerOK, In
<1>5. /\ t.pc = "recheck" /\ t.i = s.i /\ t.blobs = s.blobs /\ t.stamp = s.stamp
      /\ t.leaves = s.leaves \cup Leaves(a) /\ t.has = s.has /\ t.bad = s.bad
  BY <1>2, <1>3 DEF MergerOK
<1>6. /\ s.i \in 1 .. Len(Platforms) /\ Len(s.stamp) = s.i /\ Len(s.blobs) = s.i
      /\ BlobsRead(s) = s.i /\ GraphsRead(s) = s.i - 1 /\ Copied(s) = 0
      /\ BlobsRead(t) = s.i /\ GraphsRead(t) = s.i /\ Copied(t) = 0 /\ StampsRead(t) = s.i
  BY <1>3, <1>5, MergerCounts DEF StampsRead, BlobsRead, GraphsRead, Copied, Upto
<1>8. MergerOK(t)
  <2>1. t.i \in DOMAIN Platforms /\ t.stamp \in Seq(Nat) /\ t.blobs \in Seq(Archives)
    BY <1>3, <1>5 DEF MergerOK
  <2>2. t = [pc |-> t.pc, i |-> t.i, stamp |-> t.stamp, blobs |-> t.blobs, leaves |-> t.leaves,
             has |-> t.has, bad |-> t.bad]
    BY <1>2, <1>3 DEF MergerOK
  <2> QED
    BY <1>5, <1>6, <2>1, <2>2 DEF MergerOK
<1>9. StampsAge(t)
  BY <1>3, <1>5 DEF StampsAge, MergerSound
<1>10. ASSUME Trusted(t) PROVE ReadsTrue(t)
  <2>1. Trusted(s)
    BY <1>5, <1>10 DEF Trusted
  <2>2. ReadsTrue(s)
    BY <1>3, <2>1 DEF MergerSound
  <2>3. s.blobs[s.i] = In(m)
    BY <1>4, <1>6, <2>2 DEF ReadsTrue
  <2>4. a = In(m)
    <3>1. PICK x : x = In(m) /\ x = [root |-> x.root, has |-> x.has, bad |-> x.bad]
      BY <1>4, OciAssumption
    <3>2. a = [x EXCEPT !.has = x.has]
      BY <1>1, <2>3, <3>1
    <3> QED
      BY <3>1, <3>2
  <2>5. ValidGraph(s.blobs[s.i], Platforms[s.i], Version) /\ Leaves(a) = Leaves(s.blobs[s.i])
    BY <1>1, <2>3, <2>4
  <2>6. 1 .. s.i = (1 .. s.i - 1) \cup {s.i}
    BY <1>6
  <2>7. \A k \in 1 .. s.i : ValidGraph(t.blobs[k], Platforms[k], Version)
    BY <1>5, <1>6, <2>2, <2>5, <2>6 DEF ReadsTrue
  <2>8. t.leaves = UNION {Leaves(t.blobs[k]) : k \in 1 .. s.i} /\ t.bad = {}
    BY <1>5, <1>6, <2>2, <2>5, <2>6 DEF ReadsTrue
  <2> QED
    BY <1>5, <1>6, <2>2, <2>7, <2>8 DEF ReadsTrue
<1>11. t.has = UNION {t.blobs[k].has : k \in 1 .. Copied(t)}
  BY <1>3, <1>5, <1>6 DEF MergerSound
<1>12. MergerSound(t)
  BY <1>5, <1>8, <1>9, <1>10, <1>11 DEF MergerSound
<1> QED
  BY <1>1, <1>2, <1>12

\* The loop over the inputs goes on, or the copying begins.
LEMMA RecheckSound ==
  ASSUME OciInv, NEW m \in Mergers, merger[m].pc = "recheck"
  PROVE  MergerSound(IF merger[m].i = Len(Platforms) THEN [merger[m] EXCEPT !.pc = "copy", !.i = 1]
                     ELSE [merger[m] EXCEPT !.pc = "open", !.i = @ + 1])
<1>1. PICK s : s = merger[m]
  OBVIOUS
<1>2. PICK t : t = IF s.i = Len(Platforms) THEN [s EXCEPT !.pc = "copy", !.i = 1]
                   ELSE [s EXCEPT !.pc = "open", !.i = @ + 1]
  OBVIOUS
<1>3. MergerSound(s) /\ MergerOK(s) /\ s.pc = "recheck"
  BY <1>1 DEF OciInv, MergerSound
<1>4. s.i \in 1 .. Len(Platforms) /\ Len(Platforms) \in Nat /\ DOMAIN Platforms = 1 .. Len(Platforms)
  BY <1>3, MergerCounts, OciAssumption
<1>5. /\ t.pc = IF s.i = Len(Platforms) THEN "copy" ELSE "open"
      /\ t.i = IF s.i = Len(Platforms) THEN 1 ELSE s.i + 1
      /\ t.blobs = s.blobs /\ t.stamp = s.stamp
      /\ t.leaves = s.leaves /\ t.has = s.has /\ t.bad = s.bad
  BY <1>2, <1>3 DEF MergerOK
<1>6. t.i \in 1 .. Len(Platforms)
  BY <1>4, <1>5
<1>7. /\ StampsRead(s) = s.i /\ BlobsRead(s) = s.i /\ GraphsRead(s) = s.i /\ Copied(s) = 0
      /\ StampsRead(t) = s.i /\ BlobsRead(t) = s.i /\ GraphsRead(t) = s.i /\ Copied(t) = 0
  <2>1. CASE s.i = Len(Platforms)
    BY <1>3, <1>4, <1>5, <2>1 DEF StampsRead, BlobsRead, GraphsRead, Copied, Upto
  <2>2. CASE s.i # Len(Platforms)
    BY <1>3, <1>4, <1>5, <2>2 DEF StampsRead, BlobsRead, GraphsRead, Copied, Upto
  <2> QED
    BY <2>1, <2>2
<1>8. MergerOK(t)
  <2>1. t.stamp \in Seq(Nat) /\ t.blobs \in Seq(Archives)
    BY <1>3, <1>5 DEF MergerOK
  <2>2. t = [pc |-> t.pc, i |-> t.i, stamp |-> t.stamp, blobs |-> t.blobs, leaves |-> t.leaves,
             has |-> t.has, bad |-> t.bad]
    BY <1>2, <1>3 DEF MergerOK
  <2>3. Len(t.stamp) = s.i /\ Len(t.blobs) = s.i
    BY <1>3, <1>5, <1>7, MergerCounts
  <2>4. t.pc \in {"open", "copy"}
    BY <1>5
  <2> QED
    BY <1>4, <1>6, <1>7, <2>1, <2>2, <2>3, <2>4 DEF MergerOK
<1>9. StampsAge(t)
  BY <1>3, <1>5 DEF StampsAge, MergerSound
<1>10. ASSUME Trusted(t) PROVE ReadsTrue(t)
  <2>1. ReadsTrue(s)
    BY <1>3, <1>5, <1>10 DEF MergerSound, Trusted
  <2> QED
    BY <1>5, <1>7, <2>1 DEF ReadsTrue
<1>11. t.has = UNION {t.blobs[k].has : k \in 1 .. Copied(t)} /\ t.pc # "publish"
  BY <1>3, <1>5, <1>7 DEF MergerSound
<1>12. MergerSound(t)
  BY <1>8, <1>9, <1>10, <1>11 DEF MergerSound
<1> QED
  BY <1>1, <1>2, <1>12

\* Bytes of a file that nobody touched are copied as the inventory saw them.
LEMMA CopySound ==
  ASSUME OciInv, NEW m \in Mergers, merger[m].pc = "copy", NEW t, Copy(m),
         merger'[m] = t
  PROVE  MergerSound(t)
<1>1. PICK s : s = merger[m]
  OBVIOUS
<1>3. MergerSound(s) /\ MergerOK(s) /\ s.pc = "copy"
  BY <1>1 DEF OciInv, MergerSound
<1> DEFINE wrong == IF In(m) = s.blobs[s.i] THEN {} ELSE s.blobs[s.i].has
<1>2. t = [s EXCEPT !.has = @ \cup s.blobs[s.i].has, !.bad = @ \cup wrong,
                    !.pc = IF s.i = Len(Platforms) THEN "link" ELSE "copy",
                    !.i = IF s.i = Len(Platforms) THEN 1 ELSE @ + 1]
  BY <1>1 DEF Copy, Merger, OciInv
<1>4. s.i \in 1 .. Len(Platforms) /\ Len(Platforms) \in Nat /\ DOMAIN Platforms = 1 .. Len(Platforms)
  BY <1>3, MergerCounts, OciAssumption
<1>5. /\ t.pc = IF s.i = Len(Platforms) THEN "link" ELSE "copy"
      /\ t.i = IF s.i = Len(Platforms) THEN 1 ELSE s.i + 1
      /\ t.blobs = s.blobs /\ t.stamp = s.stamp
      /\ t.leaves = s.leaves /\ t.has = s.has \cup s.blobs[s.i].has /\ t.bad = s.bad \cup wrong
  BY <1>2, <1>3 DEF MergerOK
<1>6. t.i \in 1 .. Len(Platforms)
  BY <1>4, <1>5
<1> DEFINE N == Len(Platforms)
<1>7. /\ StampsRead(s) = N /\ BlobsRead(s) = N /\ GraphsRead(s) = N /\ Copied(s) = s.i - 1
      /\ StampsRead(t) = N /\ BlobsRead(t) = N /\ GraphsRead(t) = N /\ Copied(t) = s.i
  <2>1. CASE s.i = Len(Platforms)
    BY <1>3, <1>4, <1>5, <2>1 DEF StampsRead, BlobsRead, GraphsRead, Copied, Upto
  <2>2. CASE s.i # Len(Platforms)
    BY <1>3, <1>4, <1>5, <2>2 DEF StampsRead, BlobsRead, GraphsRead, Copied, Upto
  <2> QED
    BY <2>1, <2>2
<1>8. MergerOK(t)
  <2>1. t.stamp \in Seq(Nat) /\ t.blobs \in Seq(Archives)
    BY <1>3, <1>5 DEF MergerOK
  <2>2. t = [pc |-> t.pc, i |-> t.i, stamp |-> t.stamp, blobs |-> t.blobs, leaves |-> t.leaves,
             has |-> t.has, bad |-> t.bad]
    <3> HIDE DEF wrong
    <3> QED
      BY <1>2, <1>3 DEF MergerOK
  <2>3. Len(t.stamp) = N /\ Len(t.blobs) = N
    BY <1>3, <1>5, <1>7, MergerCounts
  <2>4. t.pc \in {"copy", "link"}
    BY <1>5
  <2> QED
    BY <1>4, <1>6, <1>7, <2>1, <2>2, <2>3, <2>4 DEF MergerOK
<1>9. StampsAge(t)
  BY <1>3, <1>5 DEF StampsAge, MergerSound
<1>10. ASSUME Trusted(t) PROVE ReadsTrue(t)
  <2>1. ReadsTrue(s)
    BY <1>3, <1>5, <1>10 DEF MergerSound, Trusted
  <2>2. wrong = {}
    BY <1>1, <1>4, <1>7, <2>1 DEF ReadsTrue, In
  <2> QED
    BY <1>5, <1>7, <2>1, <2>2 DEF ReadsTrue
<1>11. t.has = UNION {t.blobs[k].has : k \in 1 .. Copied(t)} /\ t.pc # "publish"
  <2>1. 1 .. s.i = (1 .. s.i - 1) \cup {s.i}
    BY <1>4
  <2>2. s.has = UNION {s.blobs[k].has : k \in 1 .. s.i - 1}
    BY <1>3, <1>7 DEF MergerSound
  <2> QED
    BY <1>5, <1>7, <2>1, <2>2
<1>12. MergerSound(t)
  BY <1>8, <1>9, <1>10, <1>11 DEF MergerSound
<1> QED
  BY <1>12

\* A state that differs only in where the merger is.
LEMMA CheckSound ==
  ASSUME OciInv, NEW m \in Mergers, merger[m].pc = "link", Trusted(merger[m])
  PROVE  MergerSound([merger[m] EXCEPT !.pc = "publish"])
<1>1. PICK s : s = merger[m]
  OBVIOUS
<1>2. PICK t : t = [s EXCEPT !.pc = "publish"]
  OBVIOUS
<1>3. MergerSound(s) /\ MergerOK(s) /\ s.pc = "link"
  BY <1>1 DEF OciInv, MergerSound
<1>4. /\ t.pc = "publish" /\ t.i = s.i /\ t.blobs = s.blobs /\ t.stamp = s.stamp
      /\ t.leaves = s.leaves /\ t.has = s.has /\ t.bad = s.bad
  BY <1>2, <1>3 DEF MergerOK
<1>5. /\ StampsRead(t) = StampsRead(s) /\ BlobsRead(t) = BlobsRead(s)
      /\ GraphsRead(t) = GraphsRead(s) /\ Copied(t) = Copied(s)
  BY <1>3, <1>4 DEF StampsRead, BlobsRead, GraphsRead, Copied, Upto
<1>6. MergerOK(t)
  BY <1>2, <1>3, <1>4, <1>5 DEF MergerOK
<1>7. /\ StampsAge(t) /\ (Trusted(t) => ReadsTrue(t))
      /\ t.has = UNION {t.blobs[k].has : k \in 1 .. Copied(t)}
  <2>1. /\ StampsAge(s) /\ (Trusted(s) => ReadsTrue(s))
        /\ s.has = UNION {s.blobs[k].has : k \in 1 .. Copied(s)}
    BY <1>3 DEF MergerSound
  <2> QED
    BY <1>4, <1>5, <2>1 DEF StampsAge, Trusted, ReadsTrue
<1>8. Whole([leaves |-> t.leaves, has |-> t.has, bad |-> t.bad])
  BY <1>1, <1>3, <1>4, TemporaryIsWhole
<1>9. MergerSound(t)
  BY <1>6, <1>7, <1>8 DEF MergerSound
<1> QED
  BY <1>1, <1>2, <1>9

LEMMA StartSound ==
  ASSUME OciInv, NEW m \in Mergers, merger[m].pc = "start"
  PROVE  MergerSound([merger[m] EXCEPT !.pc = "open"])
<1>1. PICK s : s = merger[m]
  OBVIOUS
<1>2. PICK t : t = [s EXCEPT !.pc = "open"]
  OBVIOUS
<1>3. MergerSound(s) /\ MergerOK(s) /\ s.pc = "start"
  BY <1>1 DEF OciInv, MergerSound
<1>4. /\ t.pc = "open" /\ t.i = s.i /\ t.blobs = s.blobs /\ t.stamp = s.stamp
      /\ t.leaves = s.leaves /\ t.has = s.has /\ t.bad = s.bad
  BY <1>2, <1>3 DEF MergerOK
<1>5. /\ StampsRead(t) = StampsRead(s) /\ BlobsRead(t) = BlobsRead(s)
      /\ GraphsRead(t) = GraphsRead(s) /\ Copied(t) = Copied(s)
  BY <1>3, <1>4 DEF StampsRead, BlobsRead, GraphsRead, Copied, Upto
<1>6. MergerOK(t)
  BY <1>2, <1>3, <1>4, <1>5 DEF MergerOK
<1>7. /\ StampsAge(t) /\ (Trusted(t) => ReadsTrue(t))
      /\ t.has = UNION {t.blobs[k].has : k \in 1 .. Copied(t)}
  <2>1. /\ StampsAge(s) /\ (Trusted(s) => ReadsTrue(s))
        /\ s.has = UNION {s.blobs[k].has : k \in 1 .. Copied(s)}
    BY <1>3 DEF MergerSound
  <2> QED
    BY <1>4, <1>5, <2>1 DEF StampsAge, Trusted, ReadsTrue
<1>8. MergerSound(t)
  BY <1>4, <1>6, <1>7 DEF MergerSound
<1> QED
  BY <1>1, <1>2, <1>8

\* A rewrite takes the trust from those who opened the file, and changes nothing for the others.
LEMMA RewriteSound ==
  ASSUME OciInv, NEW j \in DOMAIN Platforms, Rewrite(j), NEW s, MergerSound(s)
  PROVE  MergerSound(s)'
<1>1. /\ \A k \in DOMAIN Platforms : input[k].stamp \in Nat
      /\ input'[j].stamp = input[j].stamp + 1
      /\ \A k \in DOMAIN Platforms \ {j} : input'[k] = input[k]
  BY DEF OciInv, Rewrite
<1>2. MergerOK(s)
  BY DEF MergerSound
<1>3. /\ \A k \in 1 .. Len(s.stamp) : k \in DOMAIN Platforms /\ s.stamp[k] \in Nat
      /\ BlobsRead(s) <= Len(s.stamp) /\ BlobsRead(s) \in Nat /\ Len(s.stamp) \in Nat
  BY <1>2, MergerCounts, LenProperties
<1>4. StampsAge(s)'
  <2>1. ASSUME NEW k \in 1 .. Len(s.stamp) PROVE s.stamp[k] <= input'[k].stamp
    <3>1. s.stamp[k] <= input[k].stamp
      BY DEF MergerSound, StampsAge
    <3> QED
      BY <1>1, <1>3, <3>1
  <2> QED
    BY <2>1 DEF StampsAge
<1>5. ASSUME Trusted(s)' PROVE ReadsTrue(s)'
  <2>1. j \notin 1 .. Len(s.stamp)
    <3> SUFFICES ASSUME j \in 1 .. Len(s.stamp) PROVE FALSE
      OBVIOUS
    <3>1. s.stamp[j] <= input[j].stamp /\ s.stamp[j] = input'[j].stamp
      BY <1>5 DEF MergerSound, StampsAge, Trusted
    <3> QED
      BY <1>1, <1>3, <3>1
  <2>2. \A k \in 1 .. Len(s.stamp) : input'[k] = input[k]
    BY <1>1, <1>3, <2>1
  <2>3. Trusted(s)
    BY <1>5, <2>2 DEF Trusted
  <2>4. ReadsTrue(s)
    BY <2>3 DEF MergerSound
  <2>5. \A k \in 1 .. BlobsRead(s) : input'[k] = input[k]
    BY <1>3, <2>2
  <2>6. \A k \in 1 .. BlobsRead(s) : s.blobs[k] = input'[k].archive
    BY <2>4, <2>5 DEF ReadsTrue
  <2> QED
    BY <2>4, <2>6 DEF ReadsTrue
<1> QED
  BY <1>2, <1>4, <1>5 DEF MergerSound

-----------------------------------------------------------------------------
\* Each step of a merger leaves it sound; input files are not written by mergers.
LEMMA MergerSteps ==
  ASSUME OciInv, NEW m \in Mergers, NEW s, MergerSound(s), Merger(m, s)
  PROVE  merger' = [k \in Mergers |-> merger'[k]] /\ \A k \in Mergers : MergerSound(merger'[k])
<1>1. merger' = [k \in Mergers |-> IF k = m THEN s ELSE merger[k]]
  BY DEF Merger, OciInv
<1> QED
  BY <1>1 DEF OciInv

LEMMA MergerMoves ==
  ASSUME OciInv, NEW m \in Mergers,
         \/ StartMerge(m) \/ Open(m) \/ Inventory(m) \/ Walk(m) \/ RecheckArchive(m)
         \/ Copy(m) \/ CheckInputs(m) \/ Link(m) \/ MergerKilled(m)
  PROVE  /\ input' = input
         /\ merger' = [k \in Mergers |-> merger'[k]] /\ \A k \in Mergers : MergerSound(merger'[k])
         /\ output' # NoOutput => Whole(output')
         /\ output # NoOutput => output' = output
<1> DEFINE Moved == \E s : MergerSound(s) /\ Merger(m, s)
<1>1. ASSUME MergeFails(m) PROVE Moved
  BY <1>1, NewMergerSound DEF MergeFails
<1>2. CASE StartMerge(m)
  <2>1. Moved
    BY <1>1, <1>2, StartSound DEF StartMerge
  <2> QED
    BY <1>2, <2>1, MergerSteps DEF StartMerge, OciInv
<1>3. CASE Open(m)
  <2>1. Moved
    BY <1>3, OpenSound DEF Open
  <2> QED
    BY <1>3, <2>1, MergerSteps DEF Open, OciInv
<1>4. CASE Inventory(m)
  <2>1. Moved
    BY <1>1, <1>4, InventorySound DEF Inventory
  <2> QED
    BY <1>4, <2>1, MergerSteps DEF Inventory, OciInv
<1>5. CASE Walk(m)
  <2>1. Moved
    <3>1. PICK a : a = [In(m) EXCEPT !.has = merger[m].blobs[merger[m].i].has]
      OBVIOUS
    <3>2. CASE ValidGraph(a, Platforms[merger[m].i], Version)
      <4>1. MergerSound([merger[m] EXCEPT !.pc = "recheck", !.leaves = @ \cup Leaves(a)])
        BY <1>5, <3>1, <3>2, WalkSound DEF Walk
      <4>2. Merger(m, [merger[m] EXCEPT !.pc = "recheck", !.leaves = @ \cup Leaves(a)])
        BY <1>5, <3>1, <3>2 DEF Walk
      <4> QED
        BY <4>1, <4>2
    <3>3. CASE ~ValidGraph(a, Platforms[merger[m].i], Version)
      BY <1>1, <1>5, <3>1, <3>3 DEF Walk
    <3> QED
      BY <3>2, <3>3
  <2> QED
    BY <1>5, <2>1, MergerSteps DEF Walk, OciInv
<1>6. CASE RecheckArchive(m)
  <2>1. Moved
    BY <1>1, <1>6, RecheckSound DEF RecheckArchive
  <2> QED
    BY <1>6, <2>1, MergerSteps DEF RecheckArchive, OciInv
<1>7. CASE Copy(m)
  <2>1. PICK s : Merger(m, s)
    BY <1>7 DEF Copy
  <2>2. merger'[m] = s
    BY <2>1 DEF Merger, OciInv
  <2>3. MergerSound(s)
    BY <1>7, <2>2, CopySound DEF Copy
  <2> QED
    BY <1>7, <2>1, <2>3, MergerSteps DEF Copy, OciInv
<1>8. CASE CheckInputs(m)
  <2>1. Moved
    <3>1. CASE \A i \in DOMAIN Platforms : ArchiveUnchanged(m, i)
      <4>1. MergerOK(merger[m])
        BY DEF OciInv, MergerSound
      <4>2. Trusted(merger[m])
        BY <3>1, <4>1, MergerCounts DEF Trusted, ArchiveUnchanged
      <4> QED
        BY <1>8, <3>1, <4>2, CheckSound DEF CheckInputs
    <3>2. CASE ~ \A i \in DOMAIN Platforms : ArchiveUnchanged(m, i)
      BY <1>1, <1>8, <3>2 DEF CheckInputs
    <3> QED
      BY <3>1, <3>2
  <2> QED
    BY <1>8, <2>1, MergerSteps DEF CheckInputs, OciInv
<1>9. CASE Link(m)
  <2>1. Moved
    BY <1>1, <1>9, NewMergerSound DEF Link
  <2>2. output' # NoOutput => Whole(output')
    BY <1>9 DEF Link, OciInv, MergerSound
  <2> QED
    BY <1>9, <2>1, <2>2, MergerSteps DEF Link
<1>10. CASE MergerKilled(m)
  <2>1. Moved
    BY <1>1, <1>10 DEF MergerKilled
  <2> QED
    BY <1>10, <2>1, MergerSteps DEF MergerKilled, OciInv
<1> QED
  BY <1>2, <1>3, <1>4, <1>5, <1>6, <1>7, <1>8, <1>9, <1>10

LEMMA OciInvStep ==
  ASSUME OciInv, OciNext
  PROVE  OciInv' /\ (output # NoOutput => output' = output)
<1>1. ASSUME NEW j \in DOMAIN Platforms, Rewrite(j)
      PROVE  OciInv' /\ (output # NoOutput => output' = output)
  <2>1. merger' = merger /\ output' = output
    BY <1>1 DEF Rewrite
  <2>2. input' \in [DOMAIN Platforms -> [archive : Archives, stamp : Nat]]
    BY <1>1 DEF Rewrite, OciInv
  <2>3. ASSUME NEW m \in Mergers PROVE MergerSound(merger[m])'
    <3>1. PICK s : s = merger[m]
      OBVIOUS
    <3>2. MergerSound(s)
      BY <3>1 DEF OciInv
    <3>3. MergerSound(s)'
      BY <1>1, <3>2, RewriteSound
    <3> QED
      BY <2>1, <3>1, <3>3 DEF MergerSound, MergerOK, StampsAge, Trusted, ReadsTrue, BlobsRead,
         GraphsRead, StampsRead, Copied, Upto
  <2> QED
    BY <2>1, <2>2, <2>3 DEF OciInv
<1>2. ASSUME NEW m \in Mergers,
             \/ StartMerge(m) \/ Open(m) \/ Inventory(m) \/ Walk(m) \/ RecheckArchive(m)
             \/ Copy(m) \/ CheckInputs(m) \/ Link(m) \/ MergerKilled(m)
      PROVE  OciInv' /\ (output # NoOutput => output' = output)
  <2>1. /\ input' = input
        /\ merger' = [k \in Mergers |-> merger'[k]] /\ \A k \in Mergers : MergerSound(merger'[k])
        /\ output' # NoOutput => Whole(output')
        /\ output # NoOutput => output' = output
    BY <1>2, MergerMoves
  <2>2. ASSUME NEW k \in Mergers PROVE MergerSound(merger[k])'
    BY <2>1 DEF MergerSound, MergerOK, StampsAge, Trusted, ReadsTrue, BlobsRead,
       GraphsRead, StampsRead, Copied, Upto
  <2>3. input' \in [DOMAIN Platforms -> [archive : Archives, stamp : Nat]]
    BY <2>1 DEF OciInv
  <2> QED
    BY <2>1, <2>2, <2>3 DEF OciInv, Whole
<1> QED
  BY <1>1, <1>2 DEF OciNext

(***************************************************************************)
(* For any number of mergers and of rewrites: what a merger holds of input *)
(* files with their first stamps is what those files hold, inventory,      *)
(* graph and copy alike; a merger that passed the last comparison holds a  *)
(* whole archive, and so does the output (Archive.__init__, unchanged,     *)
(* merge_archives).                                                        *)
(***************************************************************************)
THEOREM OciInvariance == OciSpec => []OciInv
<1>1. ASSUME OciInit PROVE OciInv
  <2>1. input \in [DOMAIN Platforms -> [archive : Archives, stamp : Nat]]
    BY <1>1 DEF OciInit
  <2>2. NewMerger = [NewMerger EXCEPT !.pc = "start"]
    BY DEF NewMerger
  <2>3. MergerSound(NewMerger)
    BY <2>2, NewMergerSound
  <2> QED
    BY <1>1, <2>1, <2>3 DEF OciInit, OciInv
<1>2. ASSUME OciInv, UNCHANGED ociVars PROVE OciInv'
  <2>1. input' = input /\ merger' = merger /\ output' = output
    BY <1>2 DEF ociVars
  <2>2. ASSUME NEW m \in Mergers PROVE MergerSound(merger[m])'
    <3>1. MergerSound(merger[m])
      BY <1>2 DEF OciInv
    <3> QED
      BY <2>1, <3>1 DEF MergerSound, MergerOK, StampsAge, Trusted, ReadsTrue, BlobsRead,
         GraphsRead, StampsRead, Copied, Upto
  <2> QED
    BY <1>2, <2>1, <2>2 DEF OciInv
<1> QED
  BY <1>1, <1>2, OciInvStep, PTL DEF OciSpec

(***************************************************************************)
(* For any platforms, any archives, any number of mergers and any rewrites *)
(* of the input files at any moment: the published archive has exactly one *)
(* image of each platform with the version asked for and every byte its    *)
(* leaves refer to, and once published it never changes (Archive.unchanged *)
(* and os.link in merge_archives).                                         *)
(***************************************************************************)
THEOREM OutputIsWholeHolds == OciSpec => OutputIsWhole
<1>1. ASSUME OciInv PROVE output # NoOutput => Whole(output)
  BY <1>1 DEF OciInv
<1>2. ASSUME OciInv, [OciNext]_ociVars PROVE [output # NoOutput => output' = output]_ociVars
  BY <1>2, OciInvStep
<1> QED
  BY <1>1, <1>2, OciInvariance, PTL DEF OciSpec, OutputIsWhole
=============================================================================
