------------------------ MODULE MQTTLifecycleProofs ------------------------
(***************************************************************************)
(* Machine-checked proofs about MQTTLifecycle, for every number of calls,  *)
(* transports, every inbox size and every number of polls.                 *)
(***************************************************************************)
EXTENDS MQTTLifecycle, TLAPS

USE LifecycleAssumption DEF LifecycleAssumption

\* The first poll count is a legal one, and the inbox may be empty.
LEMMA Zero == /\ 0 \in 0 .. WaitSteps
              /\ <<>> \in Seq(Transports \cup {Sentinel})
  OBVIOUS

\* What is left in a queue after a get was in it before.
LEMMA TailElements ==
  ASSUME NEW S, NEW q \in Seq(S), q # <<>>, NEW i \in DOMAIN Tail(q)
  PROVE  i + 1 \in DOMAIN q /\ Tail(q)[i] = q[i + 1]
  OBVIOUS

\* The initial state satisfies the inductive invariant.
LEMMA InitInv == Init => Inv
<1> SUFFICES ASSUME Init PROVE Inv
  OBVIOUS
<1>1. TypeOK
  BY Zero DEF Init, TypeOK, MaybeTransport, WorkerPC, PC, LockedPC
<1>2. LockInv /\ OwnerInv /\ ClearInv /\ PhaseInv
  BY DEF Init, LockInv, OwnerInv, ClearInv, PhaseInv, LockedPC
<1>3. DecoderInv /\ SessionInv /\ DeliversOnlyOwned
  BY DEF Init, DecoderInv, SessionInv, DeliversOnlyOwned
<1> QED
  BY <1>1, <1>2, <1>3 DEF Inv

\* Every step keeps every variable in its type.
LEMMA TypeStep == TypeOK /\ [Next]_vars => TypeOK'
<1> SUFFICES ASSUME TypeOK, [Next]_vars PROVE TypeOK'
  OBVIOUS
<1> USE DEF TypeOK, MaybeTransport, PC, LockedPC, WorkerPC, Goto, ReleaseAndReturn
<1>1. ASSUME NEW c \in Calls, NEW o \in {"connect", "disconnect"}, Begin(c, o) PROVE TypeOK'
  BY <1>1 DEF Begin, sharedVars, netVars, workerVars
<1>2. ASSUME NEW c \in Calls, Acquire(c) PROVE TypeOK'
  <2>1. /\ target' \in [Calls -> MaybeTransport]
        /\ waits' \in [Calls -> 0 .. WaitSteps]
    <3>1. CASE UNCHANGED <<target, waits>>
      BY <3>1
    <3>2. CASE /\ target' = [target EXCEPT ![c] = client]
               /\ waits' = [waits EXCEPT ![c] = 0]
      BY <3>2, Zero
    <3> QED
      BY <1>2, <3>1, <3>2 DEF Acquire
  <2>2. /\ lock' \in Calls \cup {NoCall}
        /\ pc' \in [Calls -> PC]
    BY <1>2 DEF Acquire
  <2> QED
    BY <1>2, <2>1, <2>2 DEF Acquire, sharedVars, netVars, workerVars
<1>3. ASSUME NEW c \in Calls, StopMark(c) PROVE TypeOK'
  BY <1>3 DEF StopMark, netVars, workerVars
<1>4. ASSUME NEW c \in Calls, StopSignal(c) PROVE TypeOK'
  BY <1>4 DEF StopSignal, workerVars
<1>5. ASSUME NEW c \in Calls, JoinDone(c) PROVE TypeOK'
  BY <1>5 DEF JoinDone, sharedVars, netVars, workerVars
<1>6. ASSUME NEW c \in Calls, Reap(c) PROVE TypeOK'
  BY <1>6, Zero DEF Reap, ThreadsGone, QueueAfterStop, netVars, workerVars
<1>7. ASSUME NEW c \in Calls, NEW t \in Transports, StartTransport(c, t) PROVE TypeOK'
  BY <1>7 DEF StartTransport, workerVars
<1>8. ASSUME NEW c \in Calls, StartTransportFails(c) PROVE TypeOK'
  BY <1>8 DEF StartTransportFails, sharedVars, netVars, workerVars
<1>9. ASSUME NEW c \in Calls, StartWorker(c) PROVE TypeOK'
  BY <1>9 DEF StartWorker, netVars
<1>10. ASSUME NEW c \in Calls, StartLoop(c) PROVE TypeOK'
  BY <1>10, Zero DEF StartLoop, workerVars
<1>11. ASSUME NEW c \in Calls, StartLoopFails(c) PROVE TypeOK'
  BY <1>11 DEF StartLoopFails, netVars, workerVars
<1>12. ASSUME NEW c \in Calls, Poll(c) PROVE TypeOK'
  <2>1. waits' \in [Calls -> 0 .. WaitSteps]
    <3>1. CASE UNCHANGED waits
      BY <3>1
    <3>2. CASE waits[c] < WaitSteps /\ waits' = [waits EXCEPT ![c] = @ + 1]
      <4>1. waits[c] + 1 \in 0 .. WaitSteps
        BY <3>2
      <4> QED
        BY <3>2, <4>1
    <3> QED
      BY <1>12, <3>1, <3>2 DEF Poll, WaitsLeft
  <2> QED
    BY <1>12, <2>1 DEF Poll, WaitsLeft, sharedVars, netVars, workerVars
<1>13. ASSUME NEW c \in Calls, Cancel(c) PROVE TypeOK'
  BY <1>13 DEF Cancel, sharedVars, netVars, workerVars
<1>14. ASSUME NEW t \in Transports, NetStep(t) PROVE TypeOK'
  <2>1. ASSUME NEW accepted \in BOOLEAN, OnConnect(t, accepted) PROVE TypeOK'
    BY <2>1 DEF OnConnect, workerVars, callVars
  <2>2. CASE OnMessage(t)
    <3>1. inbox' \in Seq(Transports \cup {Sentinel})
      BY <2>2 DEF OnMessage
    <3> QED
      BY <2>2, <3>1 DEF OnMessage, netVars, workerVars, callVars
  <2>3. CASE OnDisconnect(t)
    BY <2>3 DEF OnDisconnect, workerVars, callVars
  <2>4. CASE NetExit(t) \/ NetDies(t)
    BY <2>4 DEF NetExit, NetDies, sharedVars, workerVars, callVars
  <2> QED
    BY <1>14, <2>1, <2>2, <2>3, <2>4 DEF NetStep
<1>15. ASSUME NEW t \in Transports, WorkerStep(t) PROVE TypeOK'
  <2>1. CASE WorkerGet(t)
    <3>1. /\ inbox' \in Seq(Transports \cup {Sentinel})
          /\ hand' \in [Transports -> MaybeTransport]
          /\ worker' \in [Transports -> WorkerPC]
      <4>1. CASE inbox = <<>>
        BY <2>1, <4>1 DEF WorkerGet, WorkerGoto
      <4>2. CASE inbox # <<>>
        <5>1. Head(inbox) \in Transports \cup {Sentinel} /\ Tail(inbox) \in Seq(Transports \cup {Sentinel})
          BY <4>2
        <5> QED
          <6>1. CASE Head(inbox) = Sentinel
            BY <2>1, <4>2, <5>1, <6>1 DEF WorkerGet, WorkerGoto
          <6>2. CASE Head(inbox) # Sentinel
            <7>1. /\ inbox' = Tail(inbox)
                  /\ worker' = [worker EXCEPT ![t] = "handle"]
                  /\ hand' = [hand EXCEPT ![t] = Head(inbox)]
              BY <2>1, <4>2, <6>2 DEF WorkerGet, WorkerGoto
            <7> QED
              BY <5>1, <6>2, <7>1
          <6> QED
            BY <6>1, <6>2
      <4> QED
        BY <4>1, <4>2
    <3> QED
      BY <2>1, <3>1 DEF WorkerGet, netVars, callVars
  <2>2. CASE WorkerCheck(t) \/ WorkerHandle(t) \/ WorkerNotified(t)
    BY <2>2 DEF WorkerCheck, WorkerHandle, WorkerNotified, WorkerGoto,
                sharedVars, netVars, callVars
  <2> QED
    BY <1>15, <2>1, <2>2 DEF WorkerStep
<1>16. CASE UNCHANGED vars
  BY <1>16 DEF vars, sharedVars, netVars, workerVars, callVars
<1> QED
  BY <1>1, <1>2, <1>3, <1>4, <1>5, <1>6, <1>7, <1>8, <1>9, <1>10, <1>11, <1>12,
     <1>13, <1>14, <1>15, <1>16 DEF Next, CallStep

\* THEOREM: every reachable state is well typed.
THEOREM TypeCorrect == Spec => []TypeOK
<1>1. Init => TypeOK
  BY InitInv DEF Inv
<1> QED
  BY <1>1, TypeStep, PTL DEF Spec

\* Every step preserves the inductive invariant: one step per action, and under it
\* one per conjunct.
LEMMA InvStep == Inv /\ [Next]_vars => Inv'
<1> SUFFICES ASSUME Inv, [Next]_vars PROVE Inv'
  OBVIOUS
<1>0. TypeOK /\ TypeOK'
  BY TypeStep DEF Inv
<1> USE <1>0 DEF TypeOK, MaybeTransport, WorkerAlive, LoopAlive, Goto, ReleaseAndReturn
<1>1. ASSUME NEW c \in Calls, NEW o \in {"connect", "disconnect"}, Begin(c, o) PROVE Inv'
  <2>1. LockInv'
    BY <1>1 DEF Begin, sharedVars, netVars, workerVars, Inv, LockInv, LockedPC, PC
  <2>2. OwnerInv'
    BY <1>1 DEF Begin, sharedVars, netVars, workerVars, Inv, OwnerInv
  <2>3. ClearInv'
    BY <1>1 DEF Begin, sharedVars, netVars, workerVars, Inv, ClearInv, LockedPC, PC
  <2>4. PhaseInv'
    BY <1>1 DEF Begin, sharedVars, netVars, workerVars, Inv, PhaseInv, LockInv, LockedPC, PC
  <2>5. DecoderInv'
    BY <1>1 DEF Begin, sharedVars, netVars, workerVars, Inv, DecoderInv
  <2>6. SessionInv'
    BY <1>1 DEF Begin, sharedVars, netVars, workerVars, Inv, SessionInv
  <2>7. DeliversOnlyOwned'
    BY <1>1 DEF Begin, sharedVars, netVars, workerVars, Inv, DeliversOnlyOwned
  <2> QED
    BY <2>1, <2>2, <2>3, <2>4, <2>5, <2>6, <2>7 DEF Inv
<1>2. ASSUME NEW c \in Calls, Acquire(c) PROVE Inv'
  <2>1. LockInv'
    BY <1>2 DEF Acquire, MustRetire, sharedVars, netVars, workerVars, Inv, LockInv, LockedPC, PC
  <2>2. OwnerInv'
    BY <1>2 DEF Acquire, MustRetire, sharedVars, netVars, workerVars, Inv, OwnerInv
  <2>3. ClearInv'
    BY <1>2 DEF Acquire, MustRetire, sharedVars, netVars, workerVars, Inv, ClearInv, LockedPC, PC
  <2>4. PhaseInv'
    BY <1>2 DEF Acquire, MustRetire, sharedVars, netVars, workerVars, Inv, PhaseInv, LockInv, ClearInv, LockedPC, PC
  <2>5. DecoderInv'
    BY <1>2 DEF Acquire, MustRetire, sharedVars, netVars, workerVars, Inv, DecoderInv
  <2>6. SessionInv'
    BY <1>2 DEF Acquire, MustRetire, sharedVars, netVars, workerVars, Inv, SessionInv
  <2>7. DeliversOnlyOwned'
    BY <1>2 DEF Acquire, MustRetire, sharedVars, netVars, workerVars, Inv, DeliversOnlyOwned
  <2> QED
    BY <2>1, <2>2, <2>3, <2>4, <2>5, <2>6, <2>7 DEF Inv
<1>3. ASSUME NEW c \in Calls, StopMark(c) PROVE Inv'
  <2>1. LockInv'
    BY <1>3 DEF StopMark, netVars, workerVars, Inv, LockInv, LockedPC, PC
  <2>2. OwnerInv'
    BY <1>3 DEF StopMark, netVars, workerVars, Inv, OwnerInv
  <2>3. ClearInv'
    BY <1>3 DEF StopMark, netVars, workerVars, Inv, ClearInv, LockInv, LockedPC, PC
  <2>4. PhaseInv'
    BY <1>3 DEF StopMark, netVars, workerVars, Inv, PhaseInv, LockInv, LockedPC, PC
  <2>5. DecoderInv'
    BY <1>3 DEF StopMark, netVars, workerVars, Inv, DecoderInv
  <2>6. SessionInv'
    BY <1>3 DEF StopMark, netVars, workerVars, Inv, SessionInv
  <2>7. DeliversOnlyOwned'
    BY <1>3 DEF StopMark, netVars, workerVars, Inv, DeliversOnlyOwned
  <2> QED
    BY <2>1, <2>2, <2>3, <2>4, <2>5, <2>6, <2>7 DEF Inv
<1>4. ASSUME NEW c \in Calls, StopSignal(c) PROVE Inv'
  <2>1. LockInv'
    BY <1>4 DEF StopSignal, workerVars, Inv, LockInv, LockedPC, PC
  <2>2. OwnerInv'
    BY <1>4 DEF StopSignal, workerVars, Inv, OwnerInv
  <2>3. ClearInv'
    BY <1>4 DEF StopSignal, workerVars, Inv, ClearInv, OwnerInv, LockInv, LockedPC, PC
  <2>4. PhaseInv'
    BY <1>4 DEF StopSignal, workerVars, Inv, PhaseInv, LockInv, LockedPC, PC
  <2>5. DecoderInv'
    BY <1>4 DEF StopSignal, workerVars, Inv, DecoderInv, PhaseInv
  <2>6. SessionInv'
    BY <1>4 DEF StopSignal, workerVars, Inv, SessionInv
  <2>7. DeliversOnlyOwned'
    BY <1>4 DEF StopSignal, workerVars, Inv, DeliversOnlyOwned
  <2> QED
    BY <2>1, <2>2, <2>3, <2>4, <2>5, <2>6, <2>7 DEF Inv
<1>5. ASSUME NEW c \in Calls, JoinDone(c) PROVE Inv'
  <2>1. LockInv'
    BY <1>5 DEF JoinDone, sharedVars, netVars, workerVars, Inv, LockInv, LockedPC, PC
  <2>2. OwnerInv'
    BY <1>5 DEF JoinDone, sharedVars, netVars, workerVars, Inv, OwnerInv
  <2>3. ClearInv'
    BY <1>5 DEF JoinDone, sharedVars, netVars, workerVars, Inv, ClearInv, LockedPC, PC
  <2>4. PhaseInv'
    BY <1>5 DEF JoinDone, sharedVars, netVars, workerVars, Inv, PhaseInv, LockInv, LockedPC, PC
  <2>5. DecoderInv'
    BY <1>5 DEF JoinDone, sharedVars, netVars, workerVars, Inv, DecoderInv
  <2>6. SessionInv'
    BY <1>5 DEF JoinDone, sharedVars, netVars, workerVars, Inv, SessionInv
  <2>7. DeliversOnlyOwned'
    BY <1>5 DEF JoinDone, sharedVars, netVars, workerVars, Inv, DeliversOnlyOwned
  <2> QED
    BY <2>1, <2>2, <2>3, <2>4, <2>5, <2>6, <2>7 DEF Inv
<1>6. ASSUME NEW c \in Calls, Reap(c) PROVE Inv'
  <2>1. LockInv'
    <3>1. CASE lock' = lock /\ pc' = [pc EXCEPT ![c] = "start"]
      BY <1>6, <3>1 DEF Reap, ThreadsGone, QueueAfterStop, Inv, LockInv, LockedPC, PC
    <3>2. CASE lock' = NoCall /\ pc' = [pc EXCEPT ![c] = "idle"]
      BY <1>6, <3>2 DEF Reap, ThreadsGone, QueueAfterStop, Inv, LockInv, LockedPC, PC
    <3> QED
      BY <1>6, <3>1, <3>2 DEF Reap, ThreadsGone, QueueAfterStop
  <2>2. OwnerInv'
    BY <1>6 DEF Reap, ThreadsGone, QueueAfterStop, netVars, workerVars, Inv, OwnerInv
  <2>3. ClearInv'
    BY <1>6 DEF Reap, ThreadsGone, QueueAfterStop, netVars, workerVars, Inv, ClearInv, OwnerInv, LockedPC, PC
  <2>4. PhaseInv'
    BY <1>6 DEF Reap, ThreadsGone, QueueAfterStop, netVars, workerVars, Inv, PhaseInv, LockInv, OwnerInv, LockedPC, PC
  <2>5. DecoderInv'
    BY <1>6 DEF Reap, ThreadsGone, QueueAfterStop, netVars, workerVars, Inv, DecoderInv, PhaseInv
  <2>6. SessionInv'
    BY <1>6 DEF Reap, ThreadsGone, QueueAfterStop, netVars, workerVars, Inv, SessionInv, PhaseInv, OwnerInv
  <2>7. DeliversOnlyOwned'
    <3>1. CASE ThreadsGone
      <4>1. inbox' = <<>> /\ DOMAIN inbox' = {} /\ UNCHANGED <<worker, hand>>
        BY <1>6, <3>1 DEF Reap, QueueAfterStop, workerVars
      <4>2. \A t \in Transports : worker[t] = "dead"
        BY <3>1 DEF ThreadsGone, WorkerAlive, Inv, OwnerInv
      <4> QED
        BY <4>1, <4>2 DEF DeliversOnlyOwned
    <3>2. CASE ~ThreadsGone
      BY <1>6, <3>2 DEF Reap, QueueAfterStop, workerVars, Inv, DeliversOnlyOwned
    <3> QED
      BY <3>1, <3>2
  <2> QED
    BY <2>1, <2>2, <2>3, <2>4, <2>5, <2>6, <2>7 DEF Inv
<1>7. ASSUME NEW c \in Calls, NEW t \in Transports, StartTransport(c, t) PROVE Inv'
  <2>1. LockInv'
    BY <1>7 DEF StartTransport, workerVars, Inv, LockInv, LockedPC, PC
  <2>2. OwnerInv'
    BY <1>7 DEF StartTransport, workerVars, Inv, OwnerInv, PhaseInv
  <2>3. ClearInv'
    BY <1>7 DEF StartTransport, workerVars, Inv, ClearInv, LockedPC, PC
  <2>4. PhaseInv'
    BY <1>7 DEF StartTransport, workerVars, Inv, PhaseInv, LockInv, OwnerInv, LockedPC, PC
  <2>5. DecoderInv'
    BY <1>7 DEF StartTransport, workerVars, Inv, DecoderInv, PhaseInv, OwnerInv
  <2>6. SessionInv'
    BY <1>7 DEF StartTransport, workerVars, Inv, SessionInv
  <2>7. DeliversOnlyOwned'
    <3>1. client = NoTransport /\ inbox' = <<>>
      BY <1>7 DEF StartTransport, Inv, PhaseInv
    <3>2. \A u \in Transports : worker'[u] = "dead"
      BY <1>7, <3>1 DEF StartTransport, workerVars, Inv, OwnerInv
    <3> QED
      BY <3>1, <3>2 DEF DeliversOnlyOwned
  <2> QED
    BY <2>1, <2>2, <2>3, <2>4, <2>5, <2>6, <2>7 DEF Inv
<1>8. ASSUME NEW c \in Calls, StartTransportFails(c) PROVE Inv'
  <2>1. LockInv'
    BY <1>8 DEF StartTransportFails, sharedVars, netVars, workerVars, Inv, LockInv, LockedPC, PC
  <2>2. OwnerInv'
    BY <1>8 DEF StartTransportFails, sharedVars, netVars, workerVars, Inv, OwnerInv
  <2>3. ClearInv'
    BY <1>8 DEF StartTransportFails, sharedVars, netVars, workerVars, Inv, ClearInv, LockedPC, PC
  <2>4. PhaseInv'
    BY <1>8 DEF StartTransportFails, sharedVars, netVars, workerVars, Inv, PhaseInv, LockInv, LockedPC, PC
  <2>5. DecoderInv'
    BY <1>8 DEF StartTransportFails, sharedVars, netVars, workerVars, Inv, DecoderInv
  <2>6. SessionInv'
    BY <1>8 DEF StartTransportFails, sharedVars, netVars, workerVars, Inv, SessionInv
  <2>7. DeliversOnlyOwned'
    BY <1>8 DEF StartTransportFails, sharedVars, netVars, workerVars, Inv, DeliversOnlyOwned
  <2> QED
    BY <2>1, <2>2, <2>3, <2>4, <2>5, <2>6, <2>7 DEF Inv
<1>9. ASSUME NEW c \in Calls, StartWorker(c) PROVE Inv'
  <2>1. LockInv'
    BY <1>9 DEF StartWorker, netVars, Inv, LockInv, LockedPC, PC
  <2>2. OwnerInv'
    BY <1>9 DEF StartWorker, netVars, Inv, OwnerInv, PhaseInv
  <2>3. ClearInv'
    BY <1>9 DEF StartWorker, netVars, Inv, ClearInv, LockedPC, PC
  <2>4. PhaseInv'
    BY <1>9 DEF StartWorker, netVars, Inv, PhaseInv, LockInv, OwnerInv, LockedPC, PC
  <2>5. DecoderInv'
    BY <1>9 DEF StartWorker, netVars, Inv, DecoderInv, PhaseInv
  <2>6. SessionInv'
    BY <1>9 DEF StartWorker, netVars, Inv, SessionInv
  <2>7. DeliversOnlyOwned'
    BY <1>9 DEF StartWorker, netVars, Inv, DeliversOnlyOwned, PhaseInv
  <2> QED
    BY <2>1, <2>2, <2>3, <2>4, <2>5, <2>6, <2>7 DEF Inv
<1>10. ASSUME NEW c \in Calls, StartLoop(c) PROVE Inv'
  <2>1. LockInv'
    BY <1>10 DEF StartLoop, workerVars, Inv, LockInv, LockedPC, PC
  <2>2. OwnerInv'
    BY <1>10 DEF StartLoop, workerVars, Inv, OwnerInv, PhaseInv
  <2>3. ClearInv'
    BY <1>10 DEF StartLoop, workerVars, Inv, ClearInv, LockedPC, PC
  <2>4. PhaseInv'
    BY <1>10 DEF StartLoop, workerVars, Inv, PhaseInv, LockInv, LockedPC, PC
  <2>5. DecoderInv'
    BY <1>10 DEF StartLoop, workerVars, Inv, DecoderInv, PhaseInv
  <2>6. SessionInv'
    BY <1>10 DEF StartLoop, workerVars, Inv, SessionInv, PhaseInv
  <2>7. DeliversOnlyOwned'
    BY <1>10 DEF StartLoop, workerVars, Inv, DeliversOnlyOwned
  <2> QED
    BY <2>1, <2>2, <2>3, <2>4, <2>5, <2>6, <2>7 DEF Inv
<1>11. ASSUME NEW c \in Calls, StartLoopFails(c) PROVE Inv'
  <2>1. LockInv'
    BY <1>11 DEF StartLoopFails, netVars, workerVars, Inv, LockInv, LockedPC, PC
  <2>2. OwnerInv'
    BY <1>11 DEF StartLoopFails, netVars, workerVars, Inv, OwnerInv
  <2>3. ClearInv'
    BY <1>11 DEF StartLoopFails, netVars, workerVars, Inv, ClearInv, LockedPC, PC
  <2>4. PhaseInv'
    BY <1>11 DEF StartLoopFails, netVars, workerVars, Inv, PhaseInv, LockInv, LockedPC, PC
  <2>5. DecoderInv'
    BY <1>11 DEF StartLoopFails, netVars, workerVars, Inv, DecoderInv, PhaseInv
  <2>6. SessionInv'
    BY <1>11 DEF StartLoopFails, netVars, workerVars, Inv, SessionInv
  <2>7. DeliversOnlyOwned'
    BY <1>11 DEF StartLoopFails, netVars, workerVars, Inv, DeliversOnlyOwned
  <2> QED
    BY <2>1, <2>2, <2>3, <2>4, <2>5, <2>6, <2>7 DEF Inv
<1>12. ASSUME NEW c \in Calls, Poll(c) PROVE Inv'
  <2>1. LockInv'
    BY <1>12 DEF Poll, WaitsLeft, sharedVars, netVars, workerVars, Inv, LockInv, LockedPC, PC
  <2>2. OwnerInv'
    BY <1>12 DEF Poll, WaitsLeft, sharedVars, netVars, workerVars, Inv, OwnerInv
  <2>3. ClearInv'
    BY <1>12 DEF Poll, WaitsLeft, sharedVars, netVars, workerVars, Inv, ClearInv, LockedPC, PC
  <2>4. PhaseInv'
    BY <1>12 DEF Poll, WaitsLeft, sharedVars, netVars, workerVars, Inv, PhaseInv, LockInv, LockedPC, PC
  <2>5. DecoderInv'
    BY <1>12 DEF Poll, WaitsLeft, sharedVars, netVars, workerVars, Inv, DecoderInv
  <2>6. SessionInv'
    BY <1>12 DEF Poll, WaitsLeft, sharedVars, netVars, workerVars, Inv, SessionInv
  <2>7. DeliversOnlyOwned'
    BY <1>12 DEF Poll, WaitsLeft, sharedVars, netVars, workerVars, Inv, DeliversOnlyOwned
  <2> QED
    BY <2>1, <2>2, <2>3, <2>4, <2>5, <2>6, <2>7 DEF Inv
<1>13. ASSUME NEW c \in Calls, Cancel(c) PROVE Inv'
  <2>1. LockInv'
    BY <1>13 DEF Cancel, sharedVars, netVars, workerVars, Inv, LockInv, LockedPC, PC
  <2>2. OwnerInv'
    BY <1>13 DEF Cancel, sharedVars, netVars, workerVars, Inv, OwnerInv
  <2>3. ClearInv'
    BY <1>13 DEF Cancel, sharedVars, netVars, workerVars, Inv, ClearInv, LockInv, LockedPC, PC
  <2>4. PhaseInv'
    BY <1>13 DEF Cancel, sharedVars, netVars, workerVars, Inv, PhaseInv, LockInv, LockedPC, PC
  <2>5. DecoderInv'
    BY <1>13 DEF Cancel, sharedVars, netVars, workerVars, Inv, DecoderInv
  <2>6. SessionInv'
    BY <1>13 DEF Cancel, sharedVars, netVars, workerVars, Inv, SessionInv
  <2>7. DeliversOnlyOwned'
    BY <1>13 DEF Cancel, sharedVars, netVars, workerVars, Inv, DeliversOnlyOwned
  <2> QED
    BY <2>1, <2>2, <2>3, <2>4, <2>5, <2>6, <2>7 DEF Inv
<1>14. ASSUME NEW t \in Transports, NEW accepted \in BOOLEAN, OnConnect(t, accepted) PROVE Inv'
  <2>1. LockInv'
    BY <1>14 DEF OnConnect, Current, workerVars, callVars, Inv, LockInv, LockedPC, PC
  <2>2. OwnerInv'
    BY <1>14 DEF OnConnect, Current, workerVars, callVars, Inv, OwnerInv
  <2>3. ClearInv'
    BY <1>14 DEF OnConnect, Current, workerVars, callVars, Inv, ClearInv, LockedPC, PC
  <2>4. PhaseInv'
    BY <1>14 DEF OnConnect, Current, workerVars, callVars, Inv, PhaseInv, LockInv, LockedPC, PC
  <2>5. DecoderInv'
    BY <1>14 DEF OnConnect, Current, workerVars, callVars, Inv, DecoderInv
  <2>6. SessionInv'
    BY <1>14 DEF OnConnect, Current, workerVars, callVars, Inv, SessionInv, OwnerInv
  <2>7. DeliversOnlyOwned'
    BY <1>14 DEF OnConnect, Current, workerVars, callVars, Inv, DeliversOnlyOwned
  <2> QED
    BY <2>1, <2>2, <2>3, <2>4, <2>5, <2>6, <2>7 DEF Inv
<1>15. ASSUME NEW t \in Transports, OnDisconnect(t) PROVE Inv'
  <2>1. LockInv'
    BY <1>15 DEF OnDisconnect, Current, workerVars, callVars, Inv, LockInv, LockedPC, PC
  <2>2. OwnerInv'
    BY <1>15 DEF OnDisconnect, Current, workerVars, callVars, Inv, OwnerInv
  <2>3. ClearInv'
    BY <1>15 DEF OnDisconnect, Current, workerVars, callVars, Inv, ClearInv, LockedPC, PC
  <2>4. PhaseInv'
    BY <1>15 DEF OnDisconnect, Current, workerVars, callVars, Inv, PhaseInv, LockInv, LockedPC, PC
  <2>5. DecoderInv'
    BY <1>15 DEF OnDisconnect, Current, workerVars, callVars, Inv, DecoderInv
  <2>6. SessionInv'
    BY <1>15 DEF OnDisconnect, Current, workerVars, callVars, Inv, SessionInv
  <2>7. DeliversOnlyOwned'
    BY <1>15 DEF OnDisconnect, Current, workerVars, callVars, Inv, DeliversOnlyOwned
  <2> QED
    BY <2>1, <2>2, <2>3, <2>4, <2>5, <2>6, <2>7 DEF Inv
<1>16. ASSUME NEW t \in Transports, OnMessage(t) PROVE Inv'
  <2>1. LockInv'
    BY <1>16 DEF OnMessage, Current, netVars, workerVars, callVars, Inv, LockInv, LockedPC, PC
  <2>2. OwnerInv'
    BY <1>16 DEF OnMessage, Current, netVars, workerVars, callVars, Inv, OwnerInv
  <2>3. ClearInv'
    BY <1>16 DEF OnMessage, Current, netVars, workerVars, callVars, Inv, ClearInv, LockedPC, PC
  <2>4. PhaseInv'
    BY <1>16 DEF OnMessage, Current, netVars, workerVars, callVars, Inv, PhaseInv, LockInv, OwnerInv, LockedPC, PC
  <2>5. DecoderInv'
    BY <1>16 DEF OnMessage, Current, netVars, workerVars, callVars, Inv, DecoderInv
  <2>6. SessionInv'
    BY <1>16 DEF OnMessage, Current, netVars, workerVars, callVars, Inv, SessionInv
  <2>7. DeliversOnlyOwned'
    BY <1>16 DEF OnMessage, Current, netVars, workerVars, callVars, Inv, DeliversOnlyOwned
  <2> QED
    BY <2>1, <2>2, <2>3, <2>4, <2>5, <2>6, <2>7 DEF Inv
<1>17. ASSUME NEW t \in Transports, NetExit(t) PROVE Inv'
  <2>1. LockInv'
    BY <1>17 DEF NetExit, sharedVars, workerVars, callVars, Inv, LockInv, LockedPC, PC
  <2>2. OwnerInv'
    BY <1>17 DEF NetExit, sharedVars, workerVars, callVars, Inv, OwnerInv
  <2>3. ClearInv'
    BY <1>17 DEF NetExit, sharedVars, workerVars, callVars, Inv, ClearInv, LockedPC, PC
  <2>4. PhaseInv'
    BY <1>17 DEF NetExit, sharedVars, workerVars, callVars, Inv, PhaseInv, LockInv, LockedPC, PC
  <2>5. DecoderInv'
    BY <1>17 DEF NetExit, sharedVars, workerVars, callVars, Inv, DecoderInv
  <2>6. SessionInv'
    BY <1>17 DEF NetExit, sharedVars, workerVars, callVars, Inv, SessionInv
  <2>7. DeliversOnlyOwned'
    BY <1>17 DEF NetExit, sharedVars, workerVars, callVars, Inv, DeliversOnlyOwned
  <2> QED
    BY <2>1, <2>2, <2>3, <2>4, <2>5, <2>6, <2>7 DEF Inv
<1>18. ASSUME NEW t \in Transports, NetDies(t) PROVE Inv'
  <2>1. LockInv'
    BY <1>18 DEF NetDies, sharedVars, workerVars, callVars, Inv, LockInv, LockedPC, PC
  <2>2. OwnerInv'
    BY <1>18 DEF NetDies, sharedVars, workerVars, callVars, Inv, OwnerInv
  <2>3. ClearInv'
    BY <1>18 DEF NetDies, sharedVars, workerVars, callVars, Inv, ClearInv, LockedPC, PC
  <2>4. PhaseInv'
    BY <1>18 DEF NetDies, sharedVars, workerVars, callVars, Inv, PhaseInv, LockInv, LockedPC, PC
  <2>5. DecoderInv'
    BY <1>18 DEF NetDies, sharedVars, workerVars, callVars, Inv, DecoderInv
  <2>6. SessionInv'
    BY <1>18 DEF NetDies, sharedVars, workerVars, callVars, Inv, SessionInv
  <2>7. DeliversOnlyOwned'
    BY <1>18 DEF NetDies, sharedVars, workerVars, callVars, Inv, DeliversOnlyOwned
  <2> QED
    BY <2>1, <2>2, <2>3, <2>4, <2>5, <2>6, <2>7 DEF Inv
<1>19. ASSUME NEW t \in Transports, WorkerCheck(t) PROVE Inv'
  <2>1. LockInv'
    BY <1>19 DEF WorkerCheck, WorkerGoto, sharedVars, netVars, callVars, Inv, LockInv, LockedPC, PC
  <2>2. OwnerInv'
    BY <1>19 DEF WorkerCheck, WorkerGoto, sharedVars, netVars, callVars, Inv, OwnerInv
  <2>3. ClearInv'
    BY <1>19 DEF WorkerCheck, WorkerGoto, sharedVars, netVars, callVars, Inv, ClearInv, LockedPC, PC
  <2>4. PhaseInv'
    BY <1>19 DEF WorkerCheck, WorkerGoto, sharedVars, netVars, callVars, Inv, PhaseInv, LockInv, LockedPC, PC
  <2>5. DecoderInv'
    BY <1>19 DEF WorkerCheck, WorkerGoto, sharedVars, netVars, callVars, Inv, DecoderInv, OwnerInv
  <2>6. SessionInv'
    BY <1>19 DEF WorkerCheck, WorkerGoto, sharedVars, netVars, callVars, Inv, SessionInv
  <2>7. DeliversOnlyOwned'
    BY <1>19 DEF WorkerCheck, WorkerGoto, sharedVars, netVars, callVars, Inv, DeliversOnlyOwned
  <2> QED
    BY <2>1, <2>2, <2>3, <2>4, <2>5, <2>6, <2>7 DEF Inv
<1>20. ASSUME NEW t \in Transports, WorkerGet(t) PROVE Inv'
  <2>1. LockInv'
    BY <1>20 DEF WorkerGet, WorkerGoto, netVars, callVars, Inv, LockInv, LockedPC, PC
  <2>2. OwnerInv'
    BY <1>20 DEF WorkerGet, WorkerGoto, netVars, callVars, Inv, OwnerInv
  <2>3. ClearInv'
    BY <1>20 DEF WorkerGet, WorkerGoto, netVars, callVars, Inv, ClearInv, LockedPC, PC
  <2>4. PhaseInv'
    BY <1>20 DEF WorkerGet, WorkerGoto, netVars, callVars, Inv, PhaseInv, LockInv, LockedPC, PC
  <2>5. DecoderInv'
    <3>1. CASE inbox = <<>>
      BY <1>20, <3>1 DEF WorkerGet, WorkerGoto, netVars, callVars, Inv, DecoderInv, OwnerInv
    <3>2. CASE inbox # <<>>
      <4>1. 1 \in DOMAIN inbox /\ Head(inbox) = inbox[1]
        BY <3>2
      <4>2. \A i \in DOMAIN inbox' : i + 1 \in DOMAIN inbox /\ inbox'[i] = inbox[i + 1]
        BY <1>20, <3>2, TailElements DEF WorkerGet
      <4> QED
        BY <1>20, <3>2, <4>1, <4>2 DEF WorkerGet, WorkerGoto, netVars, callVars, Inv, DecoderInv, OwnerInv
    <3> QED
      BY <3>1, <3>2
  <2>6. SessionInv'
    BY <1>20 DEF WorkerGet, WorkerGoto, netVars, callVars, Inv, SessionInv
  <2>7. DeliversOnlyOwned'
    <3>1. \A i \in DOMAIN inbox' : inbox'[i] \in {client', Sentinel}
      <4>1. CASE inbox = <<>>
        BY <1>20, <4>1 DEF WorkerGet, Inv, DeliversOnlyOwned
      <4>2. CASE inbox # <<>>
        <5>1. \A i \in DOMAIN inbox' : i + 1 \in DOMAIN inbox /\ inbox'[i] = inbox[i + 1]
          BY <1>20, <4>2, TailElements DEF WorkerGet
        <5> QED
          BY <1>20, <5>1 DEF WorkerGet, Inv, DeliversOnlyOwned
      <4> QED
        BY <4>1, <4>2
    <3>2. \A u \in Transports : worker'[u] = "notify" => hand'[u] = client'
      BY <1>20 DEF WorkerGet, WorkerGoto, Inv, DeliversOnlyOwned
    <3> QED
      BY <3>1, <3>2 DEF DeliversOnlyOwned
  <2> QED
    BY <2>1, <2>2, <2>3, <2>4, <2>5, <2>6, <2>7 DEF Inv
<1>21. ASSUME NEW t \in Transports, WorkerHandle(t) PROVE Inv'
  <2>1. LockInv'
    BY <1>21 DEF WorkerHandle, WorkerGoto, Current, sharedVars, netVars, callVars, Inv, LockInv, LockedPC, PC
  <2>2. OwnerInv'
    BY <1>21 DEF WorkerHandle, WorkerGoto, Current, sharedVars, netVars, callVars, Inv, OwnerInv
  <2>3. ClearInv'
    BY <1>21 DEF WorkerHandle, WorkerGoto, Current, sharedVars, netVars, callVars, Inv, ClearInv, LockedPC, PC
  <2>4. PhaseInv'
    BY <1>21 DEF WorkerHandle, WorkerGoto, Current, sharedVars, netVars, callVars, Inv, PhaseInv, LockInv, LockedPC, PC
  <2>5. DecoderInv'
    BY <1>21 DEF WorkerHandle, WorkerGoto, Current, sharedVars, netVars, callVars, Inv, DecoderInv
  <2>6. SessionInv'
    BY <1>21 DEF WorkerHandle, WorkerGoto, Current, sharedVars, netVars, callVars, Inv, SessionInv
  <2>7. DeliversOnlyOwned'
    BY <1>21 DEF WorkerHandle, WorkerGoto, Current, sharedVars, netVars, callVars, Inv, DeliversOnlyOwned
  <2> QED
    BY <2>1, <2>2, <2>3, <2>4, <2>5, <2>6, <2>7 DEF Inv
<1>22. ASSUME NEW t \in Transports, WorkerNotified(t) PROVE Inv'
  <2>1. LockInv'
    BY <1>22 DEF WorkerNotified, WorkerGoto, sharedVars, netVars, callVars, Inv, LockInv, LockedPC, PC
  <2>2. OwnerInv'
    BY <1>22 DEF WorkerNotified, WorkerGoto, sharedVars, netVars, callVars, Inv, OwnerInv
  <2>3. ClearInv'
    BY <1>22 DEF WorkerNotified, WorkerGoto, sharedVars, netVars, callVars, Inv, ClearInv, LockedPC, PC
  <2>4. PhaseInv'
    BY <1>22 DEF WorkerNotified, WorkerGoto, sharedVars, netVars, callVars, Inv, PhaseInv, LockInv, LockedPC, PC
  <2>5. DecoderInv'
    BY <1>22 DEF WorkerNotified, WorkerGoto, sharedVars, netVars, callVars, Inv, DecoderInv
  <2>6. SessionInv'
    BY <1>22 DEF WorkerNotified, WorkerGoto, sharedVars, netVars, callVars, Inv, SessionInv
  <2>7. DeliversOnlyOwned'
    BY <1>22 DEF WorkerNotified, WorkerGoto, sharedVars, netVars, callVars, Inv, DeliversOnlyOwned
  <2> QED
    BY <2>1, <2>2, <2>3, <2>4, <2>5, <2>6, <2>7 DEF Inv
<1>23. CASE UNCHANGED vars
  BY <1>23 DEF vars, sharedVars, netVars, workerVars, callVars, Inv, LockInv, OwnerInv, ClearInv,
     PhaseInv, DecoderInv, SessionInv, DeliversOnlyOwned
<1> QED
  BY <1>1, <1>2, <1>3, <1>4, <1>5, <1>6, <1>7, <1>8, <1>9, <1>10, <1>11, <1>12, <1>13, <1>14, <1>15, <1>16, <1>17, <1>18, <1>19, <1>20, <1>21, <1>22, <1>23
  DEF Next, CallStep, NetStep, WorkerStep


\* THEOREM: the inductive invariant holds in every reachable state.
THEOREM Invariance == Spec => []Inv
  BY InitInv, InvStep, PTL DEF Spec

\* THEOREM: a thread that is still alive belongs to the transport the client
\* still owns, whatever joins timed out and whatever calls were cancelled.
THEOREM SoleOwnerHolds == Spec => []SoleOwner
<1>1. Inv => SoleOwner
  BY DEF Inv, OwnerInv, SoleOwner
<1> QED
  BY <1>1, Invariance, PTL

\* THEOREM: while the client reports a session its decoder runs and no stop event
\* and no sentinel is pending.
THEOREM SessionHasDecoderHolds == Spec => []SessionHasDecoder
<1>1. Inv => SessionHasDecoder
  BY DEF Inv, TypeOK, SessionInv, DecoderInv, WorkerAlive, SessionHasDecoder
<1> QED
  BY <1>1, Invariance, PTL

\* THEOREM: no message of a retired transport is queued or delivered.
THEOREM DeliversOnlyOwnedHolds == Spec => []DeliversOnlyOwned
<1>1. Inv => DeliversOnlyOwned
  BY DEF Inv
<1> QED
  BY <1>1, Invariance, PTL

\* A step that changes the owned transport either adopts one when none was owned
\* or gives it up when every thread is gone.
LEMMA HandoverStep ==
  ASSUME Inv, [Next]_vars, client' # client
  PROVE  \/ client = NoTransport
         \/ /\ client' = NoTransport
            /\ \A t \in Transports : ~net[t] /\ worker[t] = "dead"
<1>1. ASSUME NEW c \in Calls, Reap(c)
      PROVE  /\ client' = NoTransport
             /\ \A t \in Transports : ~net[t] /\ worker[t] = "dead"
  BY <1>1 DEF Reap, ThreadsGone, QueueAfterStop, Inv, TypeOK, MaybeTransport, OwnerInv, WorkerAlive, LoopAlive
<1>2. ASSUME NEW c \in Calls, NEW t \in Transports, StartTransport(c, t)
      PROVE  client = NoTransport
  BY <1>2 DEF StartTransport, Inv, PhaseInv
<1>3. ASSUME NEW c \in Calls,
             \/ \E o \in {"connect", "disconnect"} : Begin(c, o)
             \/ Acquire(c) \/ StopMark(c) \/ StopSignal(c) \/ JoinDone(c)
             \/ StartTransportFails(c) \/ StartWorker(c) \/ StartLoop(c)
             \/ StartLoopFails(c) \/ Poll(c) \/ Cancel(c)
      PROVE  FALSE
  BY <1>3 DEF Begin, Acquire, StopMark, StopSignal, JoinDone, StartTransportFails, StartWorker,
              StartLoop, StartLoopFails, Poll, WaitsLeft, Cancel, sharedVars
<1>4. ASSUME NEW t \in Transports, NetStep(t) \/ WorkerStep(t) PROVE FALSE
  BY <1>4 DEF NetStep, WorkerStep, OnConnect, OnDisconnect, OnMessage, NetExit, NetDies,
              WorkerCheck, WorkerGet, WorkerHandle, WorkerNotified, sharedVars
<1>5. CASE UNCHANGED vars
  BY <1>5 DEF vars, sharedVars
<1> QED
  BY <1>1, <1>2, <1>3, <1>4, <1>5 DEF Next, CallStep

\* THEOREM: the transport is only ever replaced through "none owned", and given
\* up only when both of its threads are gone.
THEOREM HandoverHolds == Spec => HandoverNeedsDeadThreads
<1>1. Inv /\ [Next]_vars =>
        [client' # client =>
           \/ client = NoTransport
           \/ /\ client' = NoTransport
              /\ \A t \in Transports : ~net[t] /\ worker[t] = "dead"]_vars
  BY HandoverStep
<1> QED
  BY <1>1, Invariance, PTL DEF Spec, HandoverNeedsDeadThreads

\* A step that moves no thread between dead and alive leaves ThreadsOf alone.
LEMMA SameThreads ==
  ASSUME TypeOK, \A t \in Transports : /\ net'[t] = net[t]
                                       /\ worker'[t] = "dead" <=> worker[t] = "dead"
  PROVE  ThreadsOf' = ThreadsOf
  BY DEF ThreadsOf

\* Starting a thread of the owned transport.
LEMMA OneMoreThread ==
  ASSUME TypeOK, NEW k \in {"network", "decoder"}, client \in Transports,
         \A t \in Transports :
           /\ net'[t] <=> (net[t] \/ (t = client /\ k = "network"))
           /\ worker'[t] # "dead" <=> (worker[t] # "dead" \/ (t = client /\ k = "decoder"))
  PROVE  ThreadsOf' = [ThreadsOf EXCEPT ![client] = @ \cup {k}]
  BY DEF ThreadsOf

\* The end of a thread of the owned transport.
LEMMA OneThreadLess ==
  ASSUME TypeOK, NEW k \in {"network", "decoder"}, client \in Transports,
         \A t \in Transports :
           /\ net'[t] <=> (net[t] /\ ~(t = client /\ k = "network"))
           /\ worker'[t] # "dead" <=> (worker[t] # "dead" /\ ~(t = client /\ k = "decoder"))
  PROVE  ThreadsOf' = [ThreadsOf EXCEPT ![client] = @ \ {k}]
  BY DEF ThreadsOf

\* Every step of the lifecycle is a step of TransportOwner or leaves what it
\* speaks of unchanged.
LEMMA PromiseStep == Inv /\ [Next]_vars => [Promise!Next]_(Promise!vars)
<1> SUFFICES ASSUME Inv, [Next]_vars PROVE Promise!Next \/ UNCHANGED Promise!vars
  OBVIOUS
<1> USE DEF Inv
<1>0. TypeOK /\ TypeOK'
  BY TypeStep
<1> DEFINE Stutter == UNCHANGED <<client, connected, ThreadsOf>>
<1>1. Stutter => UNCHANGED Promise!vars
  BY DEF Promise!vars
<1>2. ASSUME NEW c \in Calls,
             \/ \E o \in {"connect", "disconnect"} : Begin(c, o)
             \/ Acquire(c) \/ StopSignal(c) \/ JoinDone(c) \/ StartTransportFails(c)
             \/ StartLoopFails(c) \/ Poll(c) \/ Cancel(c)
      PROVE  Stutter
  <2>1. UNCHANGED <<client, connected, net, worker>>
    BY <1>2 DEF Begin, Acquire, StopSignal, JoinDone, StartTransportFails, StartLoopFails, Poll, WaitsLeft,
                Cancel, sharedVars, netVars, workerVars
  <2> QED
    BY <1>0, <2>1, SameThreads
<1>3. ASSUME NEW c \in Calls, StopMark(c) PROVE Promise!Down
  <2>1. connected' = FALSE /\ UNCHANGED <<client, net, worker>>
    BY <1>3 DEF StopMark, netVars, workerVars
  <2> QED
    BY <1>0, <2>1, SameThreads DEF Promise!Down
<1>4. ASSUME NEW c \in Calls, Reap(c) PROVE Stutter \/ Promise!Retire
  <2>1. UNCHANGED <<connected, net, worker>> /\ ThreadsOf' = ThreadsOf
    BY <1>0, <1>4, SameThreads DEF Reap, ThreadsGone, QueueAfterStop, netVars, workerVars
  <2>2. CASE client' = client
    BY <2>1, <2>2
  <2>3. CASE client' # client
    <3>1. ~connected
      BY <1>4 DEF Reap, ThreadsGone, QueueAfterStop, PhaseInv, SessionInv
    <3>2. client' = NoTransport /\ \A t \in Transports : ~net[t] /\ worker[t] = "dead"
      BY <1>4, <2>3, <1>0 DEF Reap, ThreadsGone, QueueAfterStop, MaybeTransport, TypeOK, OwnerInv, WorkerAlive, LoopAlive
    <3>3. ThreadsOf = [t \in Transports |-> {}]
      BY <3>2 DEF ThreadsOf
    <3> QED
      BY <2>1, <3>1, <3>2, <3>3 DEF Promise!Retire
  <2> QED
    BY <2>2, <2>3
<1>5. ASSUME NEW c \in Calls, NEW t \in Transports, StartTransport(c, t) PROVE Promise!Adopt(t)
  <2>1. client = NoTransport /\ client' = t /\ connected' = connected
    BY <1>0, <1>5 DEF StartTransport, PhaseInv, SessionInv, TypeOK
  <2>2. ThreadsOf' = ThreadsOf
    BY <1>0, <1>5, SameThreads DEF StartTransport, workerVars
  <2> QED
    BY <2>1, <2>2 DEF Promise!Adopt
<1>6. ASSUME NEW c \in Calls, StartWorker(c) PROVE Promise!Spawn("decoder")
  <2>1. client # NoTransport /\ client \in Transports /\ UNCHANGED <<client, connected, net>>
    BY <1>0, <1>6 DEF StartWorker, PhaseInv, netVars, TypeOK, MaybeTransport
  <2>2. worker' = [worker EXCEPT ![client] = "check"]
    BY <1>6 DEF StartWorker, PhaseInv, WorkerAlive
  <2>3. ThreadsOf' = [ThreadsOf EXCEPT ![client] = @ \cup {"decoder"}]
    BY <1>0, <2>1, <2>2, OneMoreThread DEF TypeOK
  <2> QED
    BY <2>1, <2>3 DEF Promise!Spawn
<1>7. ASSUME NEW c \in Calls, StartLoop(c) PROVE Promise!Spawn("network")
  <2>1. /\ client # NoTransport /\ client \in Transports
        /\ worker[client] # "dead" /\ UNCHANGED <<client, connected, worker>>
    BY <1>0, <1>7 DEF StartLoop, PhaseInv, workerVars, WorkerAlive, TypeOK, MaybeTransport
  <2>2. net' = [net EXCEPT ![client] = TRUE]
    BY <1>7 DEF StartLoop
  <2>3. ThreadsOf' = [ThreadsOf EXCEPT ![client] = @ \cup {"network"}]
    BY <1>0, <2>1, <2>2, OneMoreThread DEF TypeOK
  <2>4. "decoder" \in ThreadsOf[client]
    BY <2>1 DEF ThreadsOf
  <2> QED
    BY <2>1, <2>3, <2>4 DEF Promise!Spawn
<1>8. ASSUME NEW t \in Transports, NEW accepted \in BOOLEAN, OnConnect(t, accepted)
      PROVE  Stutter \/ Promise!Down \/ Promise!Up
  <2>1. UNCHANGED <<client, net, worker>> /\ ThreadsOf' = ThreadsOf
    BY <1>0, <1>8, SameThreads DEF OnConnect, workerVars
  <2>2. CASE ~Current(t)
    BY <1>8, <2>1, <2>2 DEF OnConnect
  <2>3. CASE Current(t) /\ ~accepted
    BY <1>8, <2>1, <2>3 DEF OnConnect, Promise!Down
  <2>4. CASE Current(t) /\ accepted
    <3>1. client # NoTransport /\ net[client] /\ worker[client] # "dead"
      BY <1>8, <2>4 DEF OnConnect, Current, OwnerInv, DecoderInv, WorkerAlive
    <3>2. ThreadsOf[client] = {"network", "decoder"}
      BY <1>8, <2>4, <3>1 DEF ThreadsOf, Current
    <3> QED
      BY <1>8, <2>1, <2>4, <3>1, <3>2 DEF OnConnect, Promise!Up, Promise!Threads
  <2> QED
    BY <2>2, <2>3, <2>4
<1>9. ASSUME NEW t \in Transports, OnDisconnect(t) PROVE Stutter \/ Promise!Down
  <2>1. UNCHANGED <<client, net, worker>> /\ ThreadsOf' = ThreadsOf
    BY <1>0, <1>9, SameThreads DEF OnDisconnect, workerVars
  <2> QED
    BY <1>9, <2>1 DEF OnDisconnect, Promise!Down
<1>10. ASSUME NEW t \in Transports, OnMessage(t) \/ WorkerHandle(t) \/ WorkerNotified(t)
       PROVE  Stutter
  <2>1. UNCHANGED <<client, connected, net>>
    BY <1>10 DEF OnMessage, WorkerHandle, WorkerNotified, sharedVars, netVars
  <2>2. \A u \in Transports : worker'[u] = "dead" <=> worker[u] = "dead"
    BY <1>0, <1>10 DEF OnMessage, WorkerHandle, WorkerNotified, WorkerGoto, workerVars, TypeOK
  <2> QED
    BY <1>0, <2>1, <2>2, SameThreads
<1>11. ASSUME NEW t \in Transports, NetExit(t) \/ NetDies(t) PROVE Promise!End("network")
  <2>1. /\ t = client /\ client # NoTransport /\ client \in Transports
        /\ net' = [net EXCEPT ![t] = FALSE] /\ UNCHANGED <<client, connected, worker>>
    BY <1>0, <1>11 DEF NetExit, NetDies, OwnerInv, sharedVars, workerVars, TypeOK, MaybeTransport
  <2>2. ThreadsOf' = [ThreadsOf EXCEPT ![client] = @ \ {"network"}]
    BY <1>0, <2>1, OneThreadLess DEF TypeOK
  <2> QED
    BY <2>1, <2>2 DEF Promise!End
<1>12. ASSUME NEW t \in Transports, WorkerCheck(t) \/ WorkerGet(t)
       PROVE  Stutter \/ Promise!End("decoder")
  <2>1. /\ t = client /\ client # NoTransport /\ client \in Transports
        /\ UNCHANGED <<client, connected, net>>
    BY <1>0, <1>12 DEF WorkerCheck, WorkerGet, OwnerInv, sharedVars, netVars, TypeOK
  <2>2. CASE worker'[t] # "dead"
    <3>1. \A u \in Transports : worker'[u] = "dead" <=> worker[u] = "dead"
      BY <1>0, <1>12, <2>2 DEF WorkerCheck, WorkerGet, WorkerGoto, TypeOK
    <3> QED
      BY <1>0, <2>1, <3>1, SameThreads
  <2>3. CASE worker'[t] = "dead"
    <3>1. worker' = [worker EXCEPT ![t] = "dead"]
      BY <1>0, <1>12, <2>3 DEF WorkerCheck, WorkerGet, WorkerGoto, TypeOK
    <3>2. ~connected
      <4>1. workerStop \/ \E i \in DOMAIN inbox : inbox[i] = Sentinel
        <5>1. inbox # <<>> => 1 \in DOMAIN inbox /\ inbox[1] = Head(inbox)
          BY <1>0 DEF TypeOK
        <5> QED
          BY <1>0, <1>12, <2>3, <5>1 DEF WorkerCheck, WorkerGet, WorkerGoto, TypeOK
      <4> QED
        BY <4>1 DEF SessionInv, DecoderInv
    <3>3. ThreadsOf' = [ThreadsOf EXCEPT ![client] = @ \ {"decoder"}]
      BY <1>0, <2>1, <3>1, OneThreadLess DEF TypeOK
    <3> QED
      BY <2>1, <3>2, <3>3 DEF Promise!End
  <2> QED
    BY <2>2, <2>3
<1>13. CASE UNCHANGED vars
  <2>1. UNCHANGED <<client, connected, net, worker>>
    BY <1>13 DEF vars, sharedVars, netVars, workerVars
  <2> QED
    BY <1>0, <1>1, <2>1, SameThreads
<1> HIDE DEF Stutter
<1> QED
  BY <1>1, <1>2, <1>3, <1>4, <1>5, <1>6, <1>7, <1>8, <1>9, <1>10, <1>11, <1>12, <1>13
  DEF Next, CallStep, NetStep, WorkerStep, Promise!Next, Promise!Threads

\* THEOREM: the lifecycle implements TransportOwner.
THEOREM Refinement == Spec => KeepsPromise
<1>1. Init => Promise!Init
  BY DEF Init, Promise!Init, ThreadsOf
<1> QED
  BY <1>1, Invariance, PromiseStep, PTL DEF Spec, KeepsPromise, Promise!Spec

=============================================================================
