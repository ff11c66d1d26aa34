-------------------------- MODULE SSHClientProofs ---------------------------
(* The shared SSH connection, for any number of calls and connections.     *)
EXTENDS SSHClient, TLAPS

USE SSHAssumption

-----------------------------------------------------------------------------

\* Finish stays within the types and never leaves a call in a handshake or on a
\* connection: what it does to the calls, whatever the command and its result.
LEMMA FinishKeeps ==
  ASSUME TypeOK, NEW c \in Calls, NEW r \in Outcomes, Finish(c, r)
  PROVE  /\ pc' \in [Calls -> PC] /\ op' \in [Calls -> Ops] /\ cmd' \in [Calls -> Commands]
         /\ mine' \in [Calls -> Conns \cup {0}] /\ answer' \in [Calls -> Answers]
         /\ pc'[c] \in {"idle", "ensure"} /\ mine'[c] = 0
         /\ \A d \in Calls : d # c => pc'[d] = pc[d] /\ mine'[d] = mine[d]
<1>1. mine' \in [Calls -> Conns \cup {0}] /\ mine'[c] = 0
  BY DEF Finish, TypeOK
<1>2. cmd[c] \in Commands
  BY DEF TypeOK
<1>3. HasNext(cmd[c], r) => NextCommand(cmd[c], r) \in Commands
  BY <1>2 DEF HasNext, NextCommand, Commands, Files, Outcomes
<1>4. AnswerOf(cmd[c], r) \in Answers
  BY <1>2 DEF AnswerOf, Answers
<1>5. op' = op
  BY DEF Finish
<1>6. pc' \in [Calls -> PC] /\ pc'[c] \in {"idle", "ensure"}
  BY DEF Finish, TypeOK, PC
<1>7. cmd' \in [Calls -> Commands] /\ answer' \in [Calls -> Answers]
  BY <1>3, <1>4 DEF Finish, TypeOK
<1>8. \A d \in Calls : d # c => pc'[d] = pc[d] /\ mine'[d] = mine[d]
  BY DEF Finish, TypeOK
<1> QED
  BY <1>1, <1>5, <1>6, <1>7, <1>8 DEF TypeOK

-----------------------------------------------------------------------------

\* The invariant holds at the start: no connection and no call.
LEMMA InitInv == Init => Inv
  BY DEF Init, Inv, TypeOK, NothingUntracked, FailedAreGone, Numbered, Handshake, RunsOnOne,
         ClosedForCause, FailureIsCause, Conns, PC, Ops, Commands, Files, Answers

\* Every step of every call, of close() and of the network keeps the invariant.
LEMMA NextInv == Inv /\ [Next]_vars => Inv'
<1> SUFFICES ASSUME Inv, [Next]_vars PROVE Inv'
  OBVIOUS
<1> USE DEF Inv
<1>1. ASSUME NEW c \in Calls, NEW o \in Ops, Call(c, o) PROVE Inv'
  <2>1. FirstCommand(o) \in Commands
    BY DEF FirstCommand, Ops, Commands, Files
  <2>2. TypeOK'
    BY <1>1, <2>1 DEF Call, TypeOK, connVars, history, PC, Answers
  <2> QED
    BY <1>1, <2>2 DEF Call, TypeOK, connVars, history, NothingUntracked, FailedAreGone, Numbered, Handshake, RunsOnOne,
       ClosedForCause, FailureIsCause
<1>2. ASSUME NEW c \in Calls, Ensure(c) PROVE Inv'
  <2>1. TypeOK'
    BY <1>2 DEF Ensure, TypeOK, connVars, history, PC
  <2>2. NothingUntracked' /\ FailedAreGone'
    BY <1>2 DEF Ensure, connVars, history, NothingUntracked, FailedAreGone
  <2>3. Numbered'
    BY <1>2 DEF Ensure, TypeOK, connVars, history, Numbered
  <2>4. Handshake'
    BY <1>2 DEF Ensure, TypeOK, connVars, history, Handshake, LockFree
  <2>5. RunsOnOne'
    BY <1>2 DEF Ensure, TypeOK, connVars, history, RunsOnOne, Conns
  <2>6. ClosedForCause' /\ FailureIsCause'
    BY <1>2 DEF Ensure, TypeOK, connVars, history, ClosedForCause, FailureIsCause
  <2> QED
    BY <2>1, <2>2, <2>3, <2>4, <2>5, <2>6
<1>3. ASSUME NEW c \in Calls, Connected(c) PROVE Inv'
  <2>1. TypeOK'
    BY <1>3 DEF Connected, history, TypeOK, Conns, PC
  <2>2. open = {}
    BY <1>3 DEF Connected, Handshake, NothingUntracked
  <2>3. NothingUntracked'
    BY <1>3, <2>2 DEF Connected, NothingUntracked
  <2>4. FailedAreGone'
    BY <1>3, <2>2 DEF Connected, history, FailedAreGone, Numbered, TypeOK
  <2>5. Numbered'
    BY <1>3 DEF Connected, history, Numbered, TypeOK
  <2>6. Handshake'
    BY <1>3 DEF Connected, Handshake, TypeOK
  <2>7. RunsOnOne'
    BY <1>3 DEF Connected, RunsOnOne, TypeOK
  <2>8. ClosedForCause'
    BY <1>3 DEF Connected, history, ClosedForCause, TypeOK
  <2>9. FailureIsCause'
    BY <1>3, <2>2 DEF Connected, history, FailureIsCause, Numbered, TypeOK
  <2> QED
    BY <2>1, <2>3, <2>4, <2>5, <2>6, <2>7, <2>8, <2>9
\* A result, a failed handshake: the connections stay as they are.
<1>4. ASSUME NEW c \in Calls, NEW r \in Outcomes, Finish(c, r),
             UNCHANGED <<files, connVars, history>>
      PROVE Inv'
  <2>1. TypeOK'
    BY <1>4, FinishKeeps DEF TypeOK, connVars, history
  <2>2. NothingUntracked' /\ FailedAreGone'
    BY <1>4 DEF connVars, history, NothingUntracked, FailedAreGone
  <2>3. Numbered' /\ Handshake' /\ RunsOnOne'
    BY <1>4, FinishKeeps DEF TypeOK, connVars, history, Numbered, Handshake, RunsOnOne
  <2>4. ClosedForCause' /\ FailureIsCause'
    BY <1>4, FinishKeeps DEF TypeOK, connVars, history, ClosedForCause, FailureIsCause
  <2> QED
    BY <2>1, <2>2, <2>3, <2>4
<1>5. ASSUME NEW c \in Calls, RunFails(c) PROVE Inv'
  <2>1. TypeOK'
    BY <1>5 DEF RunFails, TypeOK, connVars, PC
  <2>2. NothingUntracked' /\ FailedAreGone' /\ Numbered' /\ Handshake' /\ RunsOnOne'
    BY <1>5 DEF RunFails, TypeOK, connVars, NothingUntracked, FailedAreGone, Numbered, Handshake, RunsOnOne
  <2>3. ClosedForCause'
    BY <1>5 DEF RunFails, connVars, ClosedForCause
  <2>4. FailureIsCause'
    BY <1>5 DEF RunFails, TypeOK, connVars, FailureIsCause
  <2> QED
    BY <2>1, <2>2, <2>3, <2>4
<1>6. ASSUME NEW c \in Calls, Cleanup(c) PROVE Inv'
  <2>1. mine[c] \in Conns /\ mine[c] \in 1 .. made
    BY <1>6 DEF Cleanup, RunsOnOne, TypeOK, Numbered
  <2>2. open' \subseteq open /\ mine[c] \notin open' /\ tracked' \in {0, tracked}
    BY <1>6 DEF Cleanup, Drop, NothingUntracked
  <2>3. NothingUntracked' /\ 0 \notin open'
    BY <1>6, <2>2 DEF Cleanup, Drop, NothingUntracked, TypeOK, Conns
  <2>4. FailedAreGone'
    BY <1>6, <2>2 DEF Cleanup, FailedAreGone
  <2>5. "failed" \in Outcomes
    BY DEF Outcomes
  <2>6. TypeOK'
    BY <1>6, <2>1, <2>2, <2>5, FinishKeeps DEF Cleanup, TypeOK
  <2>7. Numbered'
    <3>1. made' = made /\ failed' = failed \cup {mine[c]} /\ made \in Nat
      BY <1>6 DEF Cleanup, TypeOK
    <3>2. \A d \in Calls : mine'[d] \in 0 .. made
      BY <1>6, <2>5, <3>1, FinishKeeps DEF Cleanup, Numbered
    <3>3. tracked' \in 0 .. made
      BY <2>2, <3>1 DEF Numbered
    <3>4. open' \subseteq 1 .. made /\ failed' \subseteq 1 .. made
      BY <2>1, <2>2, <3>1 DEF Numbered
    <3> QED
      BY <3>1, <3>2, <3>3, <3>4 DEF Numbered
  <2>8. Handshake' /\ RunsOnOne'
    BY <1>6, <2>2, <2>3, <2>5, FinishKeeps DEF Cleanup, TypeOK, Handshake, RunsOnOne, LockFree
  <2>9. ClosedForCause'
    <3>1. open \ open' \subseteq {mine[c]} /\ made' = made /\ spent' = spent
      BY <1>6 DEF Cleanup, Drop
    <3>2. mine[c] \in open => mine[c] \in spent
      BY <1>6 DEF Cleanup, FailureIsCause
    <3> QED
      BY <3>1, <3>2 DEF ClosedForCause
  <2>10. FailureIsCause'
    BY <1>6, <2>2, <2>5, FinishKeeps DEF Cleanup, FailureIsCause
  <2> QED
    BY <2>3, <2>4, <2>6, <2>7, <2>8, <2>9, <2>10
<1>7. ASSUME Close PROVE Inv'
  BY <1>7 DEF Close, callVars, TypeOK, NothingUntracked, FailedAreGone, Numbered, Handshake, RunsOnOne,
     ClosedForCause, FailureIsCause, LockFree, Conns
<1>8. ASSUME NEW k \in Conns, Broken(k) PROVE Inv'
  BY <1>8 DEF Broken, callVars, TypeOK, NothingUntracked, FailedAreGone, Numbered, Handshake, RunsOnOne,
     ClosedForCause, FailureIsCause
<1>9. ASSUME NEW c \in Calls, Cancel(c) PROVE Inv'
  BY <1>9 DEF Cancel, TypeOK, connVars, history, NothingUntracked, FailedAreGone, Numbered, Handshake, RunsOnOne,
     ClosedForCause, FailureIsCause, PC, Answers
<1>10. CASE UNCHANGED vars
  BY <1>10 DEF vars, connVars, history, callVars, TypeOK, NothingUntracked, FailedAreGone, Numbered, Handshake, RunsOnOne,
     ClosedForCause, FailureIsCause
<1>11. ASSUME NEW c \in Calls, ConnectFails(c) PROVE Inv'
  BY <1>4, <1>11 DEF ConnectFails, Outcomes
<1>12. ASSUME NEW c \in Calls, NEW r \in Outcomes, RunDone(c, r) PROVE Inv'
  BY <1>4, <1>12 DEF RunDone
<1>13. ASSUME NEW c \in Calls, Refuse(c) PROVE Inv'
  BY <1>13 DEF Refuse, TypeOK, connVars, history, NothingUntracked, FailedAreGone, Numbered, Handshake, RunsOnOne,
     ClosedForCause, FailureIsCause, Answers
<1> QED
  BY <1>1, <1>2, <1>3, <1>5, <1>6, <1>7, <1>8, <1>9, <1>10, <1>11, <1>12, <1>13 DEF Next, CallStep

\* The inductive invariant of the shared connection.
THEOREM Invariance == Spec => []Inv
  BY InitInv, NextInv, PTL DEF Spec

\* The client's state is well typed for any number of calls.
THEOREM TypeCorrect == Spec => []TypeOK
<1>1. Inv => TypeOK
  BY DEF Inv
<1> QED
  BY <1>1, Invariance, PTL

\* No open connection is lost track of: _ensure_conn makes one only under the lock
\* and only when the last is closed.
THEOREM NothingUntrackedHolds == Spec => []NothingUntracked
<1>1. Inv => NothingUntracked
  BY DEF Inv
<1> QED
  BY <1>1, Invariance, PTL

\* After the cleanup of a failed command its connection is closed, although
\* _close_connection does nothing when the shared connection is another one.
THEOREM FailedAreGoneHolds == Spec => []FailedAreGone
<1>1. Inv => FailedAreGone
  BY DEF Inv
<1> QED
  BY <1>1, Invariance, PTL

\* No connection is closed for the failure of another: a cleanup that comes after
\* its connection was replaced leaves the replacement open.
THEOREM ClosedForCauseHolds == Spec => []ClosedForCause
<1>1. Inv => ClosedForCause
  BY DEF Inv
<1> QED
  BY <1>1, Invariance, PTL

=============================================================================
