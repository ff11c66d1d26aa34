------------------------------ MODULE ReadFeed ------------------------------
(***************************************************************************)
(* _maintain_read_feed of MQTTClient (mqtt_client.py): the decoder worker  *)
(* renews the gateway's publication and asks again, topic by topic, for    *)
(* the values whose freshness matters.  Large catalogs are taken in turn   *)
(* (_refresh_cursor) and paced (_pending_refresh), while the network       *)
(* thread ends and starts sessions and a shutdown may begin.               *)
(*                                                                         *)
(* Topics are numbered in their sorted order.  A deadline is a timer that  *)
(* is due or not; how long it runs is left open.  The transport does not   *)
(* change while its decoder lives (MQTTLifecycle), so it is not modelled.  *)
(***************************************************************************)
EXTENDS Naturals, Sequences, FiniteSets

CONSTANTS
  TopicCount,        \* topics 1 .. TopicCount
  MaxRefreshTopics,  \* MAX_REFRESH_TOPICS
  RefreshBatchSize,  \* REFRESH_BATCH_SIZE
  MaxEpoch           \* bound on sessions

ASSUME FeedAssumption ==
  /\ TopicCount \in Nat /\ MaxEpoch \in Nat
  /\ MaxRefreshTopics \in Nat \ {0} /\ RefreshBatchSize \in Nat \ {0}

VARIABLES
  connected,  \* self._connected
  epoch,      \* self._connection_epoch
  stopping,   \* self._stopping and _worker_stop: a shutdown has begun
  catalog,    \* what _refresh_candidates() would return, as a set
  feedEpoch,  \* self._maintenance_epoch
  due,        \* the timers that have expired
  pending,    \* self._pending_refresh
  cursor,     \* self._refresh_cursor
  pc,         \* where the call of _maintain_read_feed stands
  seen,       \* the epoch it read at its start
  eligible,   \* its snapshot of the catalog
  budget,     \* what is left of its batch
  hand,       \* the topic it is about to request, or 0
  late        \* history: requests it made in a session that is not its own

sessionVars == <<connected, epoch, stopping, catalog>>
feedVars    == <<feedEpoch, due, pending, cursor>>
localVars   == <<pc, seen, eligible, budget, hand, late>>
vars        == <<sessionVars, feedVars, localVars>>

-----------------------------------------------------------------------------

Topic  == 1 .. TopicCount
Timers == {"keepalive", "refresh", "batch"}
PC     == {"idle", "keepalive", "sendKeepalive", "select", "next", "check", "send"}

Init ==
  /\ connected = FALSE /\ epoch = 0 /\ stopping = FALSE
  /\ catalog \in SUBSET Topic
  /\ feedEpoch = MaxEpoch + 1  \* -1: no epoch at all
  /\ due = Timers
  /\ pending = <<>>
  /\ cursor = 0
  /\ pc = "idle" /\ seen = 0 /\ eligible = {} /\ budget = 0 /\ hand = 0
  /\ late = 0

-----------------------------------------------------------------------------
(* The network thread, the subscribers, the cache and the clock.           *)

SessionUp ==
  /\ ~stopping /\ epoch < MaxEpoch
  /\ connected' = TRUE
  /\ epoch' = epoch + 1
  /\ UNCHANGED <<stopping, catalog, feedVars, localVars>>

SessionDown ==
  /\ connected
  /\ connected' = FALSE
  /\ UNCHANGED <<epoch, stopping, catalog, feedVars, localVars>>

StopBegins ==
  /\ ~stopping
  /\ stopping' = TRUE
  /\ connected' = FALSE
  /\ UNCHANGED <<epoch, catalog, feedVars, localVars>>

\* Items appear and disappear, subscriptions come and go.
CatalogChanges(S) ==
  /\ catalog' = S
  /\ UNCHANGED <<connected, epoch, stopping, feedVars, localVars>>

\* A call reads the clock once, at its start.
Expires(k) ==
  /\ pc = "idle"
  /\ k \notin due
  /\ due' = due \cup {k}
  /\ UNCHANGED <<sessionVars, feedEpoch, pending, cursor, localVars>>

-----------------------------------------------------------------------------
(* One call of _maintain_read_feed.                                        *)

Goto(l) == pc' = l

\* The first look at the session.  A new epoch only resets the schedule.
Enter ==
  /\ pc = "idle"
  /\ connected /\ ~stopping
  /\ late' = 0
  /\ seen' = epoch
  /\ \/ /\ feedEpoch # epoch
        /\ feedEpoch' = epoch
        /\ pending' = <<>>
        /\ due' = {"batch"}
        /\ UNCHANGED <<cursor, pc>>
     \/ /\ feedEpoch = epoch
        /\ Goto("keepalive")
        /\ UNCHANGED feedVars
  /\ UNCHANGED <<sessionVars, eligible, budget, hand>>

\* Is the session the call belongs to still there?
InSession == connected /\ ~stopping /\ seen = epoch

\* Mutant: a lost session is only noticed once there is a new one.
MayPublishWhenLost == ~stopping /\ seen = epoch

\* The test of _publish_read.
MayPublish == connected /\ ~stopping /\ seen = epoch

\* Is it time for a keepalive, and may it go out?
Keepalive ==
  /\ pc = "keepalive"
  /\ \/ /\ "keepalive" \notin due
        /\ Goto("select") /\ UNCHANGED due
     \/ /\ "keepalive" \in due /\ MayPublish
        /\ Goto("sendKeepalive") /\ UNCHANGED due
     \/ /\ "keepalive" \in due /\ ~MayPublish
        /\ Goto("select") /\ due' = due \ {"keepalive"}
  /\ UNCHANGED <<sessionVars, feedEpoch, pending, cursor, seen, eligible, budget, hand, late>>

\* A request handed to paho, in its own session or just after it.
Count == IF InSession THEN late ELSE late + 1

SendKeepalive ==
  /\ pc = "sendKeepalive"
  /\ Goto("select")
  /\ due' = due \ {"keepalive"}
  /\ late' = Count
  /\ UNCHANGED <<sessionVars, feedEpoch, pending, cursor, seen, eligible, budget, hand>>

\* sorted(targets): there is exactly one.
Candidates(S) ==
  {order \in [1 .. Cardinality(S) -> S] :
     \A i, j \in 1 .. Cardinality(S) : i < j => order[i] < order[j]}

Start(n) == cursor % n

\* candidates[start:] + candidates[:start], cut to MAX_REFRESH_TOPICS
Selected(order, n) ==
  [i \in 1 .. IF MaxRefreshTopics < n THEN MaxRefreshTopics ELSE n |->
     order[IF Start(n) + i <= n THEN Start(n) + i ELSE Start(n) + i - n]]

\* Mutant: the next cycle starts where this one did.
AfterUnmoved(n) == Start(n)

\* Where the next cycle will start.
After(n) == (Start(n) + IF MaxRefreshTopics < n THEN MaxRefreshTopics ELSE n) % n

\* A new cycle starts when the last one is through and the interval is over.
Cycle == "refresh" \in due /\ pending = <<>>

\* The batch to work on, if it is time for one.
Select ==
  /\ pc = "select"
  /\ \/ /\ "batch" \notin due \/ ("refresh" \notin due /\ pending = <<>>)
        /\ Goto("idle")
        /\ UNCHANGED <<due, pending, cursor, eligible, budget>>
     \/ /\ "batch" \in due /\ ("refresh" \in due \/ pending # <<>>)
        /\ IF Cycle /\ catalog # {}
             THEN \E order \in Candidates(catalog) :
                    /\ pending' = Selected(order, Cardinality(catalog))
                    /\ cursor' = After(Cardinality(catalog))
             ELSE UNCHANGED <<pending, cursor>>
        /\ due' = due \ (IF Cycle THEN {"batch", "refresh"} ELSE {"batch"})
        /\ eligible' = catalog
        /\ budget' = RefreshBatchSize
        /\ Goto("next")
  /\ UNCHANGED <<sessionVars, feedEpoch, seen, hand, late>>

\* for _ in range(REFRESH_BATCH_SIZE)
BatchLeft == budget > 0

\* Top of the loop: is this still the session, and what comes next?
TakeNext ==
  /\ pc = "next"
  /\ \/ /\ stopping \/ seen # epoch \/ ~BatchLeft \/ pending = <<>>
        /\ Goto("idle")
        /\ UNCHANGED <<pending, budget, hand>>
     \/ /\ ~stopping /\ seen = epoch /\ BatchLeft /\ pending # <<>>
        /\ pending' = Tail(pending)
        /\ budget' = budget - 1
        /\ IF Head(pending) \in eligible
             THEN Goto("check") /\ hand' = Head(pending)
             ELSE UNCHANGED <<pc, hand>>
  /\ UNCHANGED <<sessionVars, feedEpoch, due, cursor, seen, eligible, late>>

\* Mutant: the refused topic is put back twice.
PutBackTwice ==
  /\ pending' = <<hand, hand>> \o pending
  /\ hand' = 0
  /\ Goto("idle")

\* appendleft: the topic is tried again in the next batch.
PutBack ==
  /\ pending' = <<hand>> \o pending
  /\ hand' = 0
  /\ Goto("idle")

\* _publish_read: the test under the lock ...
Check ==
  /\ pc = "check"
  /\ \/ /\ MayPublish
        /\ Goto("send")
        /\ UNCHANGED <<pending, hand>>
     \/ /\ ~MayPublish
        /\ PutBack
  /\ UNCHANGED <<sessionVars, feedEpoch, due, cursor, seen, eligible, budget, late>>

\* ... and the publication after it, accepted or not.
Send ==
  /\ pc = "send"
  /\ hand' = 0
  /\ Goto("next")
  /\ late' = Count
  /\ UNCHANGED <<sessionVars, feedVars, seen, eligible, budget>>

SendFails ==
  /\ pc = "send"
  /\ PutBack
  /\ UNCHANGED <<sessionVars, feedEpoch, due, cursor, seen, eligible, budget, late>>

-----------------------------------------------------------------------------

CallStep ==
  Enter \/ Keepalive \/ SendKeepalive \/ Select \/ TakeNext \/ Check \/ Send \/ SendFails

Next ==
  \/ SessionUp \/ SessionDown \/ StopBegins
  \/ \E S \in SUBSET Topic : CatalogChanges(S)
  \/ \E k \in Timers : Expires(k)
  \/ CallStep

Spec == Init /\ [][Next]_vars

\* The decoder runs, time passes, and paho does not refuse for ever.
Fairness ==
  /\ WF_vars(CallStep) /\ SF_vars(Send)
  /\ \A k \in Timers : SF_vars(Expires(k))

FairSpec == Spec /\ Fairness

-----------------------------------------------------------------------------
(* Properties.                                                             *)

TypeOK ==
  /\ connected \in BOOLEAN /\ epoch \in 0 .. MaxEpoch /\ stopping \in BOOLEAN
  /\ catalog \subseteq Topic /\ eligible \subseteq Topic
  /\ feedEpoch \in 0 .. MaxEpoch + 1 /\ seen \in 0 .. MaxEpoch
  /\ due \subseteq Timers
  /\ pending \in Seq(Topic) /\ cursor \in Nat
  /\ pc \in PC
  /\ budget \in 0 .. RefreshBatchSize
  /\ hand \in Topic \cup {0}
  /\ late \in Nat

\* The topics of a cycle that are still to be asked for are distinct and no more
\* than MAX_REFRESH_TOPICS, the one in hand included, however often a request was
\* refused and put back (README: "at most ... 512 per cycle").
CycleIsBounded ==
  LET queued == IF hand = 0 THEN pending ELSE <<hand>> \o pending IN
  /\ Len(queued) <= MaxRefreshTopics
  /\ \A i, j \in DOMAIN queued : i # j => queued[i] # queued[j]

\* A session that ends in the middle of a batch gets at most one request more: the
\* one whose test had passed (_publish_read tests and publishes in two steps).
AtMostOneLate == late <= 1

\* In a session that lasts, with a catalog that no longer changes, every topic of
\* the catalog is asked for again and again, although catalogs larger than a cycle
\* are split, requests are refused, and reconnects threw away what was selected
\* (README: "rotating larger catalogs").
EveryTopicInTurn ==
  \A t \in Topic :
    <>[](connected /\ ~stopping /\ t \in catalog) /\ <>[][catalog' = catalog]_vars
      => []<><<Send /\ hand = t>>_vars

-----------------------------------------------------------------------------
(* The inductive strengthening of CycleIsBounded and AtMostOneLate.        *)

\* A topic is in hand exactly between its removal and its request.
HandSound ==
  /\ pc \in {"check", "send"} <=> hand # 0
  /\ Len(pending) + (IF hand = 0 THEN 0 ELSE 1) <= MaxRefreshTopics
  /\ \A i, j \in DOMAIN pending : i # j => pending[i] # pending[j]
  /\ \A i \in DOMAIN pending : pending[i] # hand

\* A session that is over does not come back, and a passed test is used up by it.
LateSound ==
  /\ seen <= epoch
  /\ late > 0 => ~InSession
  /\ pc \in {"sendKeepalive", "send"} => late = 0

FeedInv == TypeOK /\ HandSound /\ LateSound /\ AtMostOneLate

=============================================================================
