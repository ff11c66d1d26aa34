--------------------------- MODULE MQTTLifecycle ---------------------------
(***************************************************************************)
(* Ownership of the MQTT transport in MQTTClient (mqtt_client.py).         *)
(*                                                                         *)
(* Three kinds of thread share one MQTTClient object:                      *)
(*   - the asyncio event loop runs the tool calls.  A call that enters     *)
(*     connect() or disconnect() creates or retires the transport while it *)
(*     holds _lifecycle_lock, and then polls for the session unlocked;     *)
(*   - paho's network thread of a transport runs the callbacks;            *)
(*   - the decoder worker takes messages off the inbox.                    *)
(* A join of a thread may time out, so a thread can outlive the call that  *)
(* asked it to stop, and an awaiting call can be cancelled.                *)
(*                                                                         *)
(* Identities of transports are recycled once nothing refers to them: the  *)
(* code only ever compares them with "is".                                 *)
(***************************************************************************)
EXTENDS Naturals, Sequences

CONSTANTS
  Calls,         \* tool calls that may be inside connect()/disconnect() at once
  Transports,    \* identities of paho clients
  NoTransport,   \* self.client is None
  NoCall,        \* _lifecycle_lock is free
  Sentinel,      \* the None put in the inbox to wake the decoder
  InboxMaxSize,  \* INBOX_MAXSIZE
  WaitSteps      \* CONNECT_WAIT_STEPS

ASSUME LifecycleAssumption ==
  /\ NoTransport \notin Transports
  /\ NoCall \notin Calls
  /\ Sentinel \notin Transports
  /\ InboxMaxSize \in Nat \ {0}
  /\ WaitSteps \in Nat \ {0}

VARIABLES
  client,      \* self.client
  connected,   \* self._connected
  stopping,    \* self._stopping
  workerStop,  \* self._worker_stop.is_set()
  workerRef,   \* self._worker: the transport it was started for, or NoTransport
  loopRef,     \* self._loop_thread: the transport it belongs to, or NoTransport
  inbox,       \* self._inbox: the transport each message came from, or Sentinel
  net,         \* net[t]: paho's network thread of t is alive
  link,        \* link[t]: t's network thread holds an accepted session
  leaving,     \* leaving[t]: t.disconnect() was called
  worker,      \* worker[t]: where the decoder started for t stands
  hand,        \* hand[t]: the message that decoder is working on
  lock,        \* holder of _lifecycle_lock
  pc, op,      \* where each call stands, and which of the two methods it runs
  target,      \* target[c]: the transport connect() polls
  waits        \* waits[c]: polls done so far

sharedVars == <<client, connected, stopping, workerStop, workerRef, loopRef, inbox>>
netVars    == <<net, link, leaving>>
workerVars == <<worker, hand>>
callVars   == <<lock, pc, op, target, waits>>
vars       == <<sharedVars, netVars, workerVars, callVars>>

-----------------------------------------------------------------------------

\* Where a call can stand while it holds _lifecycle_lock.
LockedPC == {"stopMark", "stopSignal", "join", "reap", "start", "startWorker", "startLoop"}
PC == {"idle", "lock", "poll"} \cup LockedPC

WorkerPC == {"dead", "check", "get", "handle", "notify"}

MaybeTransport == Transports \cup {NoTransport}

WorkerAlive(t) == t # NoTransport /\ worker[t] # "dead"
LoopAlive(t)   == t # NoTransport /\ net[t]

\* The identity test at the top of every paho callback:
\* "if client is not self.client or self._stopping: return".
Current(t) == client = t /\ ~stopping

Init ==
  /\ client = NoTransport
  /\ connected = FALSE
  /\ stopping = FALSE
  /\ workerStop = FALSE
  /\ workerRef = NoTransport
  /\ loopRef = NoTransport
  /\ inbox = <<>>
  /\ net = [t \in Transports |-> FALSE]
  /\ link = [t \in Transports |-> FALSE]
  /\ leaving = [t \in Transports |-> FALSE]
  /\ worker = [t \in Transports |-> "dead"]
  /\ hand = [t \in Transports |-> NoTransport]
  /\ lock = NoCall
  /\ pc = [c \in Calls |-> "idle"]
  /\ op = [c \in Calls |-> "connect"]
  /\ target = [c \in Calls |-> NoTransport]
  /\ waits = [c \in Calls |-> 0]

-----------------------------------------------------------------------------
(* The calls: connect() and disconnect().                                  *)

Goto(c, l) == pc' = [pc EXCEPT ![c] = l]

\* Mutant: an error path that leaves without releasing the lock.
ReturnLocked(c) ==
  /\ UNCHANGED lock
  /\ Goto(c, "idle")

\* Leave the "async with self._lifecycle_lock" block and return or raise.
ReleaseAndReturn(c) ==
  /\ lock' = NoCall
  /\ Goto(c, "idle")

\* A tool call enters connect() or disconnect() and queues for the lock.
Begin(c, o) ==
  /\ pc[c] = "idle"
  /\ Goto(c, "lock")
  /\ op' = [op EXCEPT ![c] = o]
  /\ UNCHANGED <<sharedVars, netVars, workerVars, lock, target, waits>>

\* connect() retires a transport that is half stopped or lost its thread.
MustRetire == stopping \/ (client # NoTransport /\ ~LoopAlive(loopRef))

\* The lock is granted; what the call does next depends on the owned state.
Acquire(c) ==
  /\ pc[c] = "lock"
  /\ lock = NoCall
  /\ \/ /\ op[c] = "disconnect" \/ MustRetire
        /\ lock' = c
        /\ Goto(c, "stopMark")
        /\ UNCHANGED <<target, waits>>
     \/ /\ op[c] = "connect" /\ ~MustRetire
        /\ client = NoTransport
        /\ lock' = c
        /\ Goto(c, "start")
        /\ UNCHANGED <<target, waits>>
     \/ /\ op[c] = "connect" /\ ~MustRetire
        /\ client # NoTransport
        /\ target' = [target EXCEPT ![c] = client]
        /\ waits' = [waits EXCEPT ![c] = 0]
        /\ Goto(c, "poll")
        /\ UNCHANGED lock
  /\ UNCHANGED <<sharedVars, netVars, workerVars, op>>

\* _stop_transport, under _state_lock: callbacks are refused from here on.
StopMark(c) ==
  /\ pc[c] = "stopMark"
  /\ stopping' = TRUE
  /\ connected' = FALSE
  /\ Goto(c, "stopSignal")
  /\ UNCHANGED <<client, workerStop, workerRef, loopRef, inbox,
                 netVars, workerVars, lock, op, target, waits>>

\* _stop_transport: disconnect the transport, set the event, put the sentinel
\* (a full queue cannot take one and the event alone must do).  Only a live
\* thread is joined: without one there is no await here.
StopSignal(c) ==
  /\ pc[c] = "stopSignal"
  /\ leaving' = [t \in Transports |-> leaving[t] \/ t = client]
  /\ workerStop' = TRUE
  /\ inbox' = IF Len(inbox) < InboxMaxSize THEN Append(inbox, Sentinel) ELSE inbox
  /\ Goto(c, IF WorkerAlive(workerRef) \/ LoopAlive(loopRef) THEN "join" ELSE "reap")
  /\ UNCHANGED <<client, connected, stopping, workerRef, loopRef,
                 net, link, workerVars, lock, op, target, waits>>

\* The bounded joins end: the threads are dead, or a timeout passed.
JoinDone(c) ==
  /\ pc[c] = "join"
  /\ Goto(c, "reap")
  /\ UNCHANGED <<sharedVars, netVars, workerVars, lock, op, target, waits>>

\* Mutants: only one of the two joins is looked at.
LoopGone   == ~LoopAlive(loopRef)
WorkerGone == ~WorkerAlive(workerRef)

\* Both threads have ended ("stopped" of _stop_transport).
ThreadsGone == ~WorkerAlive(workerRef) /\ ~LoopAlive(loopRef)

\* Mutant: the queue is not replaced.
QueueKept == inbox

\* The queue after a stop: replaced once nobody uses the old one.
QueueAfterStop == IF ThreadsGone THEN <<>> ELSE inbox

\* _stop_transport after the joins, and what its caller does with the outcome.
\* Only when both threads are gone is the transport given up.
Reap(c) ==
  /\ pc[c] = "reap"
  /\ workerRef' = IF WorkerAlive(workerRef) THEN workerRef ELSE NoTransport
  /\ loopRef' = IF LoopAlive(loopRef) THEN loopRef ELSE NoTransport
  /\ client' = IF ThreadsGone THEN NoTransport ELSE client
  /\ inbox' = QueueAfterStop
  /\ stopping' = IF ThreadsGone THEN FALSE ELSE stopping
  /\ IF ThreadsGone /\ op[c] = "connect"
       THEN Goto(c, "start") /\ UNCHANGED lock
       ELSE ReleaseAndReturn(c)
  /\ UNCHANGED <<connected, workerStop, netVars, workerVars, op, target, waits>>

\* A new paho client object: nothing in the process refers to it yet.
Fresh(t) ==
  /\ ~net[t] /\ worker[t] = "dead"
  /\ \A d \in Calls : pc[d] = "poll" => target[d] # t
  /\ \A i \in DOMAIN inbox : inbox[i] # t

\* _start_transport up to the publication of the new transport.
StartTransport(c, t) ==
  /\ pc[c] = "start"
  /\ Fresh(t)
  /\ client' = t
  /\ stopping' = FALSE
  /\ connected' = FALSE
  /\ leaving' = [leaving EXCEPT ![t] = FALSE]
  /\ Goto(c, "startWorker")
  /\ UNCHANGED <<workerStop, workerRef, loopRef, inbox, net, link,
                 workerVars, lock, op, target, waits>>

\* mqtt.Client(), the TLS context or connect_async() raises: nothing was kept.
StartTransportFails(c) ==
  /\ pc[c] = "start"
  /\ ReleaseAndReturn(c)
  /\ UNCHANGED <<sharedVars, netVars, workerVars, op, target, waits>>

\* _start_worker: a live decoder is kept as it is, its stop event included.
StartWorker(c) ==
  /\ pc[c] = "startWorker"
  /\ IF WorkerAlive(workerRef)
       THEN UNCHANGED <<workerStop, workerRef, worker>>
       ELSE /\ workerStop' = FALSE
            /\ workerRef' = client
            /\ worker' = [worker EXCEPT ![client] = "check"]
  /\ Goto(c, "startLoop")
  /\ UNCHANGED <<client, connected, stopping, loopRef, inbox,
                 netVars, hand, lock, op, target, waits>>

\* loop_start() succeeds: connect() goes on to wait for the session.
StartLoop(c) ==
  /\ pc[c] = "startLoop"
  /\ net' = [net EXCEPT ![client] = TRUE]
  /\ loopRef' = client
  /\ target' = [target EXCEPT ![c] = client]
  /\ waits' = [waits EXCEPT ![c] = 0]
  /\ lock' = NoCall
  /\ Goto(c, "poll")
  /\ UNCHANGED <<client, connected, stopping, workerStop, workerRef, inbox,
                 link, leaving, workerVars, op>>

\* loop_start() fails: the worker is told to stop and connect() raises.  The
\* transport stays owned, so the next connect() retires it.
StartLoopFails(c) ==
  /\ pc[c] = "startLoop"
  /\ workerStop' = TRUE
  /\ ReleaseAndReturn(c)
  /\ UNCHANGED <<client, connected, stopping, workerRef, loopRef, inbox,
                 netVars, workerVars, op, target, waits>>

WaitsLeft(c) == waits[c] < WaitSteps

\* One iteration of connect()'s waiting loop, outside the lock: it returns,
\* raises because its transport was retired, sleeps, or times out.
Poll(c) ==
  /\ pc[c] = "poll"
  /\ \/ /\ client # target[c] \/ stopping \/ connected \/ ~WaitsLeft(c)
        /\ Goto(c, "idle")
        /\ UNCHANGED waits
     \/ /\ client = target[c] /\ ~stopping /\ ~connected /\ WaitsLeft(c)
        /\ waits' = [waits EXCEPT ![c] = @ + 1]
        /\ UNCHANGED pc
  /\ UNCHANGED <<sharedVars, netVars, workerVars, lock, op, target>>

\* The task is cancelled at one of its awaits: queueing for the lock, joining
\* the threads, or polling.
Cancel(c) ==
  /\ \/ pc[c] \in {"lock", "poll"} /\ UNCHANGED lock
     \/ pc[c] = "join" /\ lock' = NoCall
  /\ Goto(c, "idle")
  /\ UNCHANGED <<sharedVars, netVars, workerVars, op, target, waits>>

-----------------------------------------------------------------------------
(* Paho's network thread of transport t.                                   *)

\* CONNACK, then _on_connect: under _state_lock, for the current transport.
OnConnect(t, accepted) ==
  /\ net[t] /\ ~link[t]
  /\ link' = [link EXCEPT ![t] = accepted]
  /\ connected' = IF Current(t) THEN accepted ELSE connected
  /\ UNCHANGED <<client, stopping, workerStop, workerRef, loopRef, inbox,
                 net, leaving, workerVars, callVars>>

\* _on_disconnect; paho may call it twice for one loss, and for a session
\* that was never accepted.
OnDisconnect(t) ==
  /\ net[t]
  /\ link' = [link EXCEPT ![t] = FALSE]
  /\ connected' = IF Current(t) THEN FALSE ELSE connected
  /\ UNCHANGED <<client, stopping, workerStop, workerRef, loopRef, inbox,
                 net, leaving, workerVars, callVars>>

\* _on_message only enqueues; a full inbox drops the message.
OnMessage(t) ==
  /\ net[t] /\ link[t]
  /\ inbox' = IF Current(t) /\ Len(inbox) < InboxMaxSize
                THEN Append(inbox, t) ELSE inbox
  /\ UNCHANGED <<client, connected, stopping, workerStop, workerRef, loopRef,
                 netVars, workerVars, callVars>>

\* The thread notices disconnect() and leaves its loop.
NetExit(t) ==
  /\ net[t] /\ leaving[t]
  /\ net' = [net EXCEPT ![t] = FALSE]
  /\ link' = [link EXCEPT ![t] = FALSE]
  /\ UNCHANGED <<sharedVars, leaving, workerVars, callVars>>

\* The thread dies on its own (an exception in a callback leaves paho's loop);
\* nothing resets _connected.
NetDies(t) ==
  /\ net[t]
  /\ net' = [net EXCEPT ![t] = FALSE]
  /\ link' = [link EXCEPT ![t] = FALSE]
  /\ UNCHANGED <<sharedVars, leaving, workerVars, callVars>>

-----------------------------------------------------------------------------
(* The decoder worker started for transport t: _process_inbox.             *)

WorkerGoto(t, l) == worker' = [worker EXCEPT ![t] = l]

\* Mutant: only the sentinel ends the loop.
WorkerIgnoresEvent(t) ==
  /\ worker[t] = "check"
  /\ WorkerGoto(t, "get")
  /\ UNCHANGED <<sharedVars, netVars, hand, callVars>>

\* while not self._worker_stop.is_set()
WorkerCheck(t) ==
  /\ worker[t] = "check"
  /\ WorkerGoto(t, IF workerStop THEN "dead" ELSE "get")
  /\ UNCHANGED <<sharedVars, netVars, hand, callVars>>

\* inbox.get(timeout=0.25): an entry, the sentinel, or queue.Empty.
WorkerGet(t) ==
  /\ worker[t] = "get"
  /\ \/ /\ inbox = <<>>
        /\ WorkerGoto(t, "check")
        /\ UNCHANGED <<inbox, hand>>
     \/ /\ inbox # <<>>
        /\ inbox' = Tail(inbox)
        /\ IF Head(inbox) = Sentinel
             THEN WorkerGoto(t, "dead") /\ UNCHANGED hand
             ELSE /\ WorkerGoto(t, "handle")
                  /\ hand' = [hand EXCEPT ![t] = Head(inbox)]
  /\ UNCHANGED <<client, connected, stopping, workerStop, workerRef, loopRef,
                 netVars, callVars>>

\* _handle_message, under _state_lock: only the current transport's message
\* reaches the cache and then, unlocked, the subscribers.
WorkerHandle(t) ==
  /\ worker[t] = "handle"
  /\ WorkerGoto(t, IF Current(hand[t]) THEN "notify" ELSE "check")
  /\ UNCHANGED <<sharedVars, netVars, hand, callVars>>

\* The last callback of _notify_callbacks returns; it may have taken long.
WorkerNotified(t) ==
  /\ worker[t] = "notify"
  /\ WorkerGoto(t, "check")
  /\ UNCHANGED <<sharedVars, netVars, hand, callVars>>

-----------------------------------------------------------------------------

CallStep(c) ==
  \/ Acquire(c) \/ StopMark(c) \/ StopSignal(c) \/ JoinDone(c) \/ Reap(c)
  \/ \E t \in Transports : StartTransport(c, t)
  \/ StartTransportFails(c) \/ StartWorker(c) \/ StartLoop(c) \/ StartLoopFails(c) \/ Poll(c)

NetStep(t) ==
  \/ \E accepted \in BOOLEAN : OnConnect(t, accepted)
  \/ OnDisconnect(t) \/ OnMessage(t) \/ NetExit(t) \/ NetDies(t)

WorkerStep(t) ==
  WorkerCheck(t) \/ WorkerGet(t) \/ WorkerHandle(t) \/ WorkerNotified(t)

Next ==
  \/ \E c \in Calls :
       \/ \E o \in {"connect", "disconnect"} : Begin(c, o)
       \/ CallStep(c)
       \/ Cancel(c)
  \/ \E t \in Transports : NetStep(t) \/ WorkerStep(t)

Spec == Init /\ [][Next]_vars

\* The event loop keeps running the calls and asyncio.Lock serves its waiters
\* first come, first served (strong fairness of Acquire); the decoder thread is
\* scheduled; a transport told to disconnect lets its thread end.
Fairness ==
  /\ \A c \in Calls : WF_vars(CallStep(c)) /\ SF_vars(Acquire(c))
  /\ \A t \in Transports : WF_vars(WorkerStep(t)) /\ WF_vars(NetExit(t))

FairSpec == Spec /\ Fairness

-----------------------------------------------------------------------------
(* Properties.                                                             *)

TypeOK ==
  /\ client \in MaybeTransport /\ workerRef \in MaybeTransport /\ loopRef \in MaybeTransport
  /\ connected \in BOOLEAN /\ stopping \in BOOLEAN /\ workerStop \in BOOLEAN
  /\ inbox \in Seq(Transports \cup {Sentinel})
  /\ net \in [Transports -> BOOLEAN]
  /\ link \in [Transports -> BOOLEAN]
  /\ leaving \in [Transports -> BOOLEAN]
  /\ worker \in [Transports -> WorkerPC]
  /\ hand \in [Transports -> MaybeTransport]
  /\ lock \in Calls \cup {NoCall}
  /\ pc \in [Calls -> PC]
  /\ op \in [Calls -> {"connect", "disconnect"}]
  /\ target \in [Calls -> MaybeTransport]
  /\ waits \in [Calls -> 0 .. WaitSteps]

\* A network thread or decoder that is still alive, however late, belongs to the
\* transport the client still owns: a slow shutdown, a timed-out join or a
\* cancelled call never leaves room for a second transport with the same broker
\* client ID (README "Reconnects"; connect(), _stop_transport()).
SoleOwner == \A t \in Transports : net[t] \/ worker[t] # "dead" => t = client

\* While the client reports a session, its decoder is running and nothing that
\* would end it (the stop event, a sentinel left by an earlier shutdown) is
\* pending: a connected client never silently stops updating its cache
\* (_start_worker(), _process_inbox(), the queue replaced in _stop_transport()).
SessionHasDecoder ==
  connected =>
    /\ client # NoTransport /\ ~stopping
    /\ worker[client] # "dead" /\ ~workerStop
    /\ \A i \in DOMAIN inbox : inbox[i] # Sentinel

\* No message of a retired transport is queued, and none is being delivered to
\* subscribers, after another transport (or none) is owned.
DeliversOnlyOwned ==
  /\ \A i \in DOMAIN inbox : inbox[i] \in {client, Sentinel}
  /\ \A t \in Transports : worker[t] = "notify" => hand[t] = client

\* The transport is replaced in two steps only: it is given up once both of its
\* threads are gone, and a new one is adopted when none is owned.
HandoverNeedsDeadThreads ==
  [][client' # client =>
       \/ client = NoTransport
       \/ /\ client' = NoTransport
          /\ \A t \in Transports : ~net[t] /\ worker[t] = "dead"]_vars

\* The threads of each transport that are alive.
ThreadsOf ==
  [t \in Transports |-> {k \in {"network", "decoder"} :
                           \/ k = "network" /\ net[t]
                           \/ k = "decoder" /\ worker[t] # "dead"}]

\* What the client promises its callers.
Promise == INSTANCE TransportOwner WITH
  owner   <- client,
  threads <- ThreadsOf,
  session <- connected

\* The lifecycle implements TransportOwner: one owner at a time, threads only
\* under an owner, and the decoder alive as long as a session is reported.
KeepsPromise == Promise!Spec

-----------------------------------------------------------------------------
(* The inductive invariant behind the safety properties.                   *)

\* Only the holder of _lifecycle_lock is between its acquire and its release.
LockInv == \A c \in Calls : pc[c] \in LockedPC <=> lock = c

\* A live thread is one the client still refers to, and it refers to none but
\* the owned transport's.
OwnerInv ==
  /\ workerRef \in {NoTransport, client}
  /\ loopRef \in {NoTransport, client}
  /\ \A t \in Transports : net[t] => t = client /\ t = loopRef
  /\ \A t \in Transports : worker[t] # "dead" => t = client /\ t = workerRef

\* Without a transport the queue is empty and nothing is being stopped, except
\* inside a stop that has not come to its end.
ClearInv ==
  client = NoTransport =>
    /\ inbox = <<>> \/ \E c \in Calls : pc[c] = "reap"
    /\ ~stopping \/ \E c \in Calls : pc[c] \in {"stopSignal", "reap"}

\* What holds at each place inside the lock.
PhaseInv ==
  \A c \in Calls :
    /\ pc[c] \in {"stopSignal", "join", "reap"} => stopping
    /\ pc[c] = "start" => client = NoTransport /\ ~stopping /\ inbox = <<>>
    /\ pc[c] \in {"startWorker", "startLoop"} =>
         client # NoTransport /\ ~stopping /\ inbox = <<>> /\ loopRef = NoTransport
    /\ pc[c] = "startWorker" => workerRef = NoTransport
    /\ pc[c] = "startLoop" => WorkerAlive(client) /\ workerRef = client /\ ~workerStop

\* A transport whose network thread was started, and which is not being stopped,
\* has a decoder that nothing is about to end.
DecoderInv ==
  client # NoTransport /\ ~stopping /\ loopRef = client =>
    /\ WorkerAlive(client) /\ ~workerStop
    /\ \A i \in DOMAIN inbox : inbox[i] # Sentinel

\* A session is only reported for such a transport.
SessionInv == connected => client # NoTransport /\ ~stopping /\ loopRef = client

Inv ==
  /\ TypeOK /\ LockInv /\ OwnerInv /\ ClearInv
  /\ PhaseInv /\ DecoderInv /\ SessionInv /\ DeliversOnlyOwned

-----------------------------------------------------------------------------
(* Liveness.                                                               *)

\* Every connect() and disconnect() ends, whatever the broker, the threads and
\* the other calls do (bounded joins, bounded polling, the lock is released).
CallsReturn == \A c \in Calls : pc[c] # "idle" ~> pc[c] = "idle"

\* Once a shutdown began, both threads end, even when the inbox was too full to
\* take the sentinel and even when the call that began it was cancelled.
ThreadsWindDown ==
  stopping ~> (\A t \in Transports : ~net[t] /\ worker[t] = "dead")

=============================================================================
