--------------------------- MODULE ReadFeedProofs ---------------------------
(* The pacing of the read feed, for any catalog, cycle and batch size and  *)
(* any number of sessions.                                                 *)
EXTENDS ReadFeed, FiniteSetTheorems, TLAPS

USE FeedAssumption

-----------------------------------------------------------------------------
(* What a cycle selects.                                                   *)

\* A catalog has a size, and it is not zero when there is a topic in it.
LEMMA CatalogSize ==
  ASSUME NEW S \in SUBSET Topic, S # {}
  PROVE  Cardinality(S) \in Nat \ {0}
<1>1. IsFiniteSet(Topic)
  BY FS_Interval DEF Topic
<1>2. IsFiniteSet(S)
  BY <1>1, FS_Subset
<1> QED
  BY <1>2, FS_CardinalityType, FS_EmptySet

\* A rotation stays in the catalog.
LEMMA Rotates ==
  ASSUME NEW n \in Nat \ {0}, cursor \in Nat
  PROVE  Start(n) \in 0 .. n - 1 /\ After(n) \in Nat
<1>1. Start(n) \in 0 .. n - 1
  BY DEF Start
<1>2. (IF MaxRefreshTopics < n THEN MaxRefreshTopics ELSE n) \in Nat
  OBVIOUS
<1> QED
  BY <1>1, <1>2 DEF After

\* A cycle takes topics of the catalog, each once, and no more than MAX_REFRESH_TOPICS.
LEMMA SelectedIsACycle ==
  ASSUME NEW S \in SUBSET Topic, S # {}, NEW order \in Candidates(S), cursor \in Nat
  PROVE  LET cycle == Selected(order, Cardinality(S)) IN
         /\ cycle \in Seq(Topic)
         /\ Len(cycle) <= MaxRefreshTopics
         /\ \A i, j \in DOMAIN cycle : i # j => cycle[i] # cycle[j]
<1> DEFINE n == Cardinality(S)
           m == IF MaxRefreshTopics < n THEN MaxRefreshTopics ELSE n
           At(i) == IF Start(n) + i <= n THEN Start(n) + i ELSE Start(n) + i - n
           cycle == Selected(order, n)
<1>1. n \in Nat \ {0}
  BY CatalogSize
<1>2. Start(n) \in 0 .. n - 1
  BY <1>1, Rotates
<1>3. m \in Nat /\ m <= n /\ m <= MaxRefreshTopics
  BY <1>1
<1>4. order \in [1 .. n -> S] /\ \A i, j \in 1 .. n : i < j => order[i] < order[j]
  BY DEF Candidates
<1>5. cycle = [i \in 1 .. m |-> order[At(i)]]
  BY DEF Selected
<1> HIDE DEF n, m, cycle
<1>6. ASSUME NEW i \in 1 .. m PROVE At(i) \in 1 .. n
  BY <1>1, <1>2, <1>3, <1>6
<1>7. ASSUME NEW i \in 1 .. m, NEW j \in 1 .. m, i # j PROVE At(i) # At(j)
  BY <1>1, <1>2, <1>3, <1>7
<1>8. ASSUME NEW i \in 1 .. n, NEW j \in 1 .. n, i # j PROVE order[i] # order[j]
  <2>1. \A k \in 1 .. n : order[k] \in Topic
    BY <1>4
  <2>2. order[i] < order[j] \/ order[j] < order[i]
    BY <1>1, <1>4, <1>8
  <2> QED
    BY <2>1, <2>2 DEF Topic
<1> HIDE DEF At
<1>9. cycle \in [1 .. m -> Topic]
  BY <1>4, <1>5, <1>6
<1>10. cycle \in Seq(Topic) /\ Len(cycle) = m
  BY <1>3, <1>9
<1>11. ASSUME NEW i \in DOMAIN cycle, NEW j \in DOMAIN cycle, i # j PROVE cycle[i] # cycle[j]
  BY <1>5, <1>6, <1>7, <1>8, <1>11
<1> QED
  BY <1>3, <1>10, <1>11 DEF cycle, n

-----------------------------------------------------------------------------

\* Every step keeps the shape of the state.
LEMMA FeedTypeStep == FeedInv /\ [Next]_vars => TypeOK'
<1> SUFFICES ASSUME FeedInv, [Next]_vars PROVE TypeOK'
  OBVIOUS
<1>0. TypeOK
  BY DEF FeedInv
<1> USE DEF TypeOK, feedVars, localVars, sessionVars
<1>1. CASE SessionUp \/ SessionDown \/ StopBegins
  <2>1. connected' \in BOOLEAN /\ stopping' \in BOOLEAN
    BY <1>0, <1>1 DEF SessionUp, SessionDown, StopBegins
  <2>2. epoch' \in 0 .. MaxEpoch
    BY <1>0, <1>1 DEF SessionUp, SessionDown, StopBegins
  <2>3. UNCHANGED <<catalog, feedVars, localVars>>
    BY <1>1 DEF SessionUp, SessionDown, StopBegins
  <2> QED
    BY <1>0, <2>1, <2>2, <2>3
<1>2. ASSUME NEW S \in SUBSET Topic, CatalogChanges(S) PROVE TypeOK'
  BY <1>0, <1>2 DEF CatalogChanges
<1>3. ASSUME NEW k \in Timers, Expires(k) PROVE TypeOK'
  BY <1>0, <1>3 DEF Expires
<1>4. CASE Enter
  <2>1. feedEpoch' \in 0 .. MaxEpoch + 1 /\ seen' \in 0 .. MaxEpoch /\ late' \in Nat
    BY <1>0, <1>4 DEF Enter
  <2>2. due' \subseteq Timers /\ pc' \in PC
    BY <1>0, <1>4 DEF Enter, Goto, PC, Timers
  <2>3. pending' \in Seq(Topic) /\ cursor' \in Nat
    <3>1. <<>> \in Seq(Topic)
      OBVIOUS
    <3>2. (pending' = <<>> \/ pending' = pending) /\ cursor' = cursor
      BY <1>4 DEF Enter
    <3> QED
      BY <1>0, <3>1, <3>2
  <2> QED
    BY <1>0, <1>4, <2>1, <2>2, <2>3 DEF Enter
<1>5. CASE Keepalive \/ SendKeepalive
  <2>1. late' \in Nat
    BY <1>0, <1>5 DEF Keepalive, SendKeepalive, Count
  <2>2. due' \subseteq Timers /\ pc' \in PC
    BY <1>0, <1>5 DEF Keepalive, SendKeepalive, Goto, PC
  <2> QED
    BY <1>0, <1>5, <2>1, <2>2 DEF Keepalive, SendKeepalive
<1>6. CASE Select
  <2>1. pending' \in Seq(Topic) /\ cursor' \in Nat
    <3>1. CASE UNCHANGED <<pending, cursor>>
      BY <1>0, <3>1
    <3>2. CASE /\ catalog # {}
               /\ \E order \in Candidates(catalog) :
                    /\ pending' = Selected(order, Cardinality(catalog))
                    /\ cursor' = After(Cardinality(catalog))
      BY <1>0, <3>2, SelectedIsACycle, CatalogSize, Rotates
    <3> QED
      BY <1>6, <3>1, <3>2 DEF Select
  <2>2. due' \subseteq Timers /\ pc' \in PC
    BY <1>0, <1>6 DEF Select, Goto, PC
  <2>3. eligible' \subseteq Topic /\ budget' \in 0 .. RefreshBatchSize
    BY <1>0, <1>6 DEF Select
  <2> QED
    BY <1>0, <1>6, <2>1, <2>2, <2>3 DEF Select
<1>7. CASE TakeNext
  <2>1. pending' \in Seq(Topic) /\ hand' \in Topic \cup {0}
    BY <1>0, <1>7 DEF TakeNext
  <2>2. budget' \in 0 .. RefreshBatchSize /\ pc' \in PC
    BY <1>0, <1>7 DEF TakeNext, BatchLeft, Goto, PC
  <2> QED
    BY <1>0, <1>7, <2>1, <2>2 DEF TakeNext
<1>8. CASE Check \/ Send \/ SendFails
  <2>1. late' \in Nat /\ hand' \in Topic \cup {0} /\ pc' \in PC
    BY <1>0, <1>8 DEF Check, Send, SendFails, PutBack, Count, Goto, PC
  <2>2. hand \in Topic
    BY <1>0, <1>8 DEF Check, Send, SendFails, FeedInv, HandSound
  <2>3. <<hand>> \o pending \in Seq(Topic)
    BY <1>0, <2>2
  <2>4. pending' \in Seq(Topic)
    BY <1>0, <1>8, <2>3 DEF Check, Send, SendFails, PutBack
  <2> QED
    BY <1>0, <1>8, <2>1, <2>4 DEF Check, Send, SendFails
<1>9. CASE UNCHANGED vars
  BY <1>0, <1>9 DEF vars
<1> QED
  BY <1>1, <1>2, <1>3, <1>4, <1>5, <1>6, <1>7, <1>8, <1>9 DEF Next, CallStep

-----------------------------------------------------------------------------

\* The steps that leave the cycle and the topic in hand alone.
LEMMA HandStands ==
  ASSUME FeedInv, UNCHANGED <<pending, hand>>, pc' \in {"check", "send"} <=> pc \in {"check", "send"}
  PROVE  HandSound'
  BY DEF FeedInv, HandSound

\* A topic that was taken and could not be requested goes back to the front of a
\* cycle that has room for it and does not have it.
LEMMA PutBackFits ==
  ASSUME FeedInv, pc \in {"check", "send"}, PutBack
  PROVE  HandSound'
<1>1. hand \in Topic /\ hand # 0 /\ pending \in Seq(Topic)
  BY DEF FeedInv, TypeOK, HandSound
<1>2. /\ Len(pending') = Len(pending) + 1
      /\ pending'[1] = hand
      /\ \A i \in 2 .. Len(pending) + 1 : pending'[i] = pending[i - 1]
  BY <1>1 DEF PutBack
<1>3. Len(pending) + 1 <= MaxRefreshTopics /\ Len(pending) \in Nat
  BY <1>1 DEF FeedInv, HandSound
<1>4. pending' \in Seq(Topic) /\ DOMAIN pending' = 1 .. Len(pending) + 1
  BY <1>1 DEF PutBack
<1>5. /\ \A i, j \in 1 .. Len(pending) : i # j => pending[i] # pending[j]
      /\ \A i \in 1 .. Len(pending) : pending[i] # hand
      /\ \A i \in 1 .. Len(pending) : pending[i] \in Topic
  BY <1>1 DEF FeedInv, HandSound
<1>6. ASSUME NEW i \in 1 .. Len(pending) + 1, NEW j \in 1 .. Len(pending) + 1, i # j
      PROVE pending'[i] # pending'[j]
  BY <1>2, <1>3, <1>5, <1>6
<1>7. ASSUME NEW i \in 1 .. Len(pending) + 1 PROVE pending'[i] # 0
  <2>1. CASE i = 1
    BY <1>1, <1>2, <2>1
  <2>2. CASE i # 1
    <3>1. i - 1 \in 1 .. Len(pending) /\ pending'[i] = pending[i - 1]
      BY <1>2, <1>3, <2>2
    <3>2. pending[i - 1] \in Topic
      BY <1>5, <3>1
    <3> QED
      BY <3>1, <3>2 DEF Topic
  <2> QED
    BY <2>1, <2>2
<1> QED
  BY <1>2, <1>3, <1>4, <1>6, <1>7 DEF PutBack, Goto, HandSound

\* Every step keeps the cycle, with the topic in hand, bounded and free of repetitions.
LEMMA HandStep == FeedInv /\ [Next]_vars => HandSound'
<1> SUFFICES ASSUME FeedInv, [Next]_vars PROVE HandSound'
  OBVIOUS
<1>0. TypeOK
  BY DEF FeedInv
<1> USE DEF feedVars, localVars, sessionVars
<1>1. CASE \/ SessionUp \/ SessionDown \/ StopBegins
           \/ \E S \in SUBSET Topic : CatalogChanges(S)
           \/ \E k \in Timers : Expires(k)
           \/ UNCHANGED vars
  BY <1>1, HandStands DEF SessionUp, SessionDown, StopBegins, CatalogChanges, Expires, vars
<1>2. CASE Enter
  BY <1>0, <1>2 DEF Enter, Goto, FeedInv, HandSound
<1>3. CASE Keepalive \/ SendKeepalive
  BY <1>3, HandStands DEF Keepalive, SendKeepalive, Goto
<1>4. CASE Select
  <2>1. hand = 0 /\ hand' = 0 /\ pc' \notin {"check", "send"}
    BY <1>4 DEF Select, Goto, FeedInv, HandSound
  <2>2. CASE UNCHANGED pending
    BY <1>4, <2>1, <2>2 DEF FeedInv, HandSound
  <2>3. CASE catalog # {} /\ \E order \in Candidates(catalog) :
                               pending' = Selected(order, Cardinality(catalog))
    <3>1. /\ pending' \in Seq(Topic)
          /\ Len(pending') <= MaxRefreshTopics
          /\ \A i, j \in DOMAIN pending' : i # j => pending'[i] # pending'[j]
      BY <1>0, <2>3, SelectedIsACycle DEF TypeOK
    <3>2. \A i \in DOMAIN pending' : pending'[i] # 0
      BY <3>1 DEF Topic
    <3> QED
      BY <2>1, <3>1, <3>2 DEF HandSound
  <2> QED
    BY <1>4, <2>2, <2>3 DEF Select
<1>5. CASE TakeNext
  <2>1. hand = 0
    BY <1>5 DEF TakeNext, FeedInv, HandSound
  <2>2. CASE UNCHANGED <<pending, hand>>
    BY <1>5, <2>1, <2>2, HandStands DEF TakeNext, Goto
  <2>3. CASE pending # <<>> /\ pending' = Tail(pending)
    <3>1. /\ pending \in Seq(Topic) /\ Len(pending) \in Nat \ {0}
          /\ DOMAIN pending = 1 .. Len(pending) /\ Head(pending) = pending[1]
          /\ Len(pending') = Len(pending) - 1
          /\ DOMAIN pending' = 1 .. Len(pending) - 1
          /\ \A i \in 1 .. Len(pending) - 1 : pending'[i] = pending[i + 1]
      BY <1>0, <2>3 DEF TypeOK
    <3>2. /\ \A i, j \in 1 .. Len(pending) : i # j => pending[i] # pending[j]
          /\ Len(pending) <= MaxRefreshTopics
          /\ \A i \in 1 .. Len(pending) : pending[i] # 0
      <4>1. HandSound
        BY DEF FeedInv
      <4>2. Len(pending) <= MaxRefreshTopics
        BY <2>1, <3>1, <4>1 DEF HandSound
      <4>3. \A i, j \in DOMAIN pending : i # j => pending[i] # pending[j]
        BY <4>1 DEF HandSound
      <4>4. \A i \in DOMAIN pending : pending[i] # 0
        BY <2>1, <4>1 DEF HandSound
      <4> QED
        BY <3>1, <4>2, <4>3, <4>4
    <3>3. \A i, j \in 1 .. Len(pending) - 1 : i # j => pending'[i] # pending'[j]
      BY <3>1, <3>2
    <3>4. \A i \in 1 .. Len(pending) - 1 : pending'[i] # pending[1] /\ pending'[i] # 0
      BY <3>1, <3>2
    <3>5. \/ hand' = 0 /\ pc' \notin {"check", "send"}
          \/ hand' = pending[1] /\ hand' # 0 /\ pc' = "check"
      <4>1. Head(pending) = pending[1] /\ pending[1] # 0
        BY <3>1, <3>2
      <4>2. \/ UNCHANGED hand /\ pc' \in {"idle", "next"}
            \/ pc' = "check" /\ hand' = Head(pending)
        BY <1>5 DEF TakeNext, Goto
      <4> QED
        BY <2>1, <4>1, <4>2
    <3> QED
      BY <3>1, <3>2, <3>3, <3>4, <3>5 DEF HandSound
  <2> QED
    BY <1>5, <2>2, <2>3 DEF TakeNext
<1>6. CASE Check
  BY <1>6, HandStands, PutBackFits DEF Check, Goto
<1>7. CASE Send
  <2>1. hand # 0 /\ hand' = 0 /\ pending' = pending /\ pc' = "next"
    BY <1>7 DEF Send, Goto, FeedInv, HandSound
  <2>2. pending \in Seq(Topic) /\ \A i \in DOMAIN pending : pending[i] # 0
    BY <1>0 DEF TypeOK, Topic
  <2> QED
    BY <2>1, <2>2 DEF FeedInv, HandSound
<1>8. CASE SendFails
  BY <1>8, PutBackFits DEF SendFails
<1> QED
  BY <1>1, <1>2, <1>3, <1>4, <1>5, <1>6, <1>7, <1>8 DEF Next, CallStep

-----------------------------------------------------------------------------

\* Every step keeps the count of late requests at one: the test under the lock is made
\* again before each request, and a session that is over does not come back.
LEMMA LateStep == FeedInv /\ [Next]_vars => LateSound' /\ AtMostOneLate'
<1> SUFFICES ASSUME FeedInv, [Next]_vars PROVE LateSound' /\ AtMostOneLate'
  OBVIOUS
<1>0. /\ connected \in BOOLEAN /\ stopping \in BOOLEAN
      /\ epoch \in Nat /\ seen \in Nat /\ late \in {0, 1}
      /\ LateSound /\ pc \in PC
  BY DEF FeedInv, TypeOK, AtMostOneLate
<1> USE DEF LateSound, AtMostOneLate, InSession, feedVars, localVars, sessionVars
<1>1. CASE SessionUp
  <2>1. epoch' = epoch + 1 /\ UNCHANGED <<seen, late, pc>>
    BY <1>1 DEF SessionUp
  <2>2. seen # epoch' /\ seen <= epoch'
    BY <1>0, <2>1
  <2> QED
    BY <1>0, <2>1, <2>2
<1>2. CASE SessionDown \/ StopBegins
  <2>1. ~connected' /\ UNCHANGED <<epoch, seen, late, pc>>
    BY <1>2 DEF SessionDown, StopBegins
  <2> QED
    BY <1>0, <2>1
<1>3. CASE \/ \E S \in SUBSET Topic : CatalogChanges(S)
           \/ \E k \in Timers : Expires(k)
           \/ UNCHANGED vars
  <2>1. UNCHANGED <<connected, stopping, epoch, seen, late, pc>>
    BY <1>3 DEF CatalogChanges, Expires, vars
  <2> QED
    BY <1>0, <2>1
<1>4. CASE Enter
  <2>1. late' = 0 /\ seen' = epoch /\ epoch' = epoch
    BY <1>4 DEF Enter
  <2> QED
    BY <1>0, <2>1
<1>5. CASE Keepalive
  <2>1. UNCHANGED <<connected, stopping, epoch, seen, late>>
    BY <1>5 DEF Keepalive
  <2>2. pc' = "select" \/ (pc' = "sendKeepalive" /\ InSession)
    BY <1>5 DEF Keepalive, MayPublish, Goto
  <2> QED
    BY <1>0, <2>1, <2>2
<1>6. CASE SendKeepalive \/ Send
  <2>1. UNCHANGED <<connected, stopping, epoch, seen>> /\ pc' \in {"select", "next"}
    BY <1>6 DEF SendKeepalive, Send, Goto
  <2>2. late = 0 /\ late' = IF InSession THEN 0 ELSE 1
    BY <1>0, <1>6 DEF SendKeepalive, Send, Count
  <2> QED
    BY <1>0, <2>1, <2>2
<1>7. CASE Select \/ TakeNext \/ SendFails
  <2>1. UNCHANGED <<connected, stopping, epoch, seen, late>>
    BY <1>7 DEF Select, TakeNext, SendFails
  <2>2. pc' \notin {"sendKeepalive", "send"}
    BY <1>7 DEF Select, TakeNext, SendFails, PutBack, Goto
  <2> QED
    BY <1>0, <2>1, <2>2
<1>8. CASE Check
  <2>1. UNCHANGED <<connected, stopping, epoch, seen, late>>
    BY <1>8 DEF Check
  <2>2. pc' = "idle" \/ (pc' = "send" /\ InSession)
    BY <1>8 DEF Check, PutBack, MayPublish, Goto
  <2> QED
    BY <1>0, <2>1, <2>2
<1> QED
  BY <1>1, <1>2, <1>3, <1>4, <1>5, <1>6, <1>7, <1>8 DEF Next, CallStep

-----------------------------------------------------------------------------

\* The inductive invariant of the read feed: the topic in hand is the one that was
\* taken from the cycle, and a request that came late used up the only test that had
\* passed (_maintain_read_feed, _publish_read).
THEOREM FeedInvariance == Spec => []FeedInv
<1>1. ASSUME Init PROVE FeedInv
  <2>1. TypeOK
    <3>1. /\ connected \in BOOLEAN /\ stopping \in BOOLEAN
          /\ catalog \subseteq Topic /\ eligible \subseteq Topic
          /\ due \subseteq Timers /\ pc \in PC /\ hand \in Topic \cup {0}
      BY <1>1 DEF Init, PC
    <3>3. pending \in Seq(Topic)
      BY <1>1 DEF Init
    <3>2. /\ epoch \in 0 .. MaxEpoch /\ feedEpoch \in 0 .. MaxEpoch + 1 /\ seen \in 0 .. MaxEpoch /\ cursor \in Nat
          /\ budget \in 0 .. RefreshBatchSize /\ late \in Nat
      BY <1>1 DEF Init
    <3> QED
      BY <3>1, <3>2, <3>3 DEF TypeOK
  <2>2. HandSound
    BY <1>1 DEF Init, HandSound
  <2>3. LateSound /\ AtMostOneLate
    BY <1>1 DEF Init, LateSound, AtMostOneLate
  <2> QED
    BY <2>1, <2>2, <2>3 DEF FeedInv
<1>2. FeedInv /\ [Next]_vars => FeedInv'
  BY FeedTypeStep, HandStep, LateStep DEF FeedInv
<1> QED
  BY <1>1, <1>2, PTL DEF Spec

\* The topics of a cycle still to be asked for are distinct and at most
\* MAX_REFRESH_TOPICS, whatever the catalog does and however often a request is put
\* back (_maintain_read_feed).
THEOREM CycleIsBoundedHolds == Spec => []CycleIsBounded
<1>1. ASSUME FeedInv PROVE CycleIsBounded
  <2>1. pending \in Seq(Topic) /\ hand \in Topic \cup {0}
    BY <1>1 DEF FeedInv, TypeOK
  <2>2. CASE hand = 0
    BY <1>1, <2>1, <2>2 DEF FeedInv, HandSound, CycleIsBounded
  <2>3. CASE hand # 0
    <3> DEFINE q == <<hand>> \o pending
    <3>1. /\ Len(q) = Len(pending) + 1 /\ DOMAIN q = 1 .. Len(pending) + 1
          /\ q[1] = hand
          /\ \A i \in 2 .. Len(pending) + 1 : q[i] = pending[i - 1]
          /\ Len(pending) \in Nat
      BY <2>1
    <3>2. /\ \A i, j \in 1 .. Len(pending) : i # j => pending[i] # pending[j]
          /\ \A i \in 1 .. Len(pending) : pending[i] # hand
          /\ Len(pending) + 1 <= MaxRefreshTopics
      BY <1>1, <2>1, <2>3 DEF FeedInv, HandSound
    <3> HIDE DEF q
    <3>3. \A i, j \in DOMAIN q : i # j => q[i] # q[j]
      BY <3>1, <3>2
    <3> QED
      BY <2>3, <3>1, <3>2, <3>3 DEF CycleIsBounded, q
  <2> QED
    BY <2>2, <2>3
<1> QED
  BY <1>1, FeedInvariance, PTL

\* A session that ends in the middle of a batch gets at most one request more, however
\* many sessions there are (_publish_read).
THEOREM AtMostOneLateHolds == Spec => []AtMostOneLate
<1>1. FeedInv => AtMostOneLate
  BY DEF FeedInv
<1> QED
  BY <1>1, FeedInvariance, PTL
=============================================================================
