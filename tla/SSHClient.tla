----------------------------- MODULE SSHClient ------------------------------
(***************************************************************************)
(* CerboSSHClient (ssh_client.py): tool calls share one SSH connection,    *)
(* made when first needed and made again when it broke.  Every command of  *)
(* a call asks for the connection, so a call of several commands may use   *)
(* several connections; a command that fails closes the one it used.       *)
(*                                                                         *)
(* Connections are numbered as they are made.  _connection_lock is held    *)
(* across one await only, the handshake: it is held while some call is     *)
(* "connecting", and every other section under it is one step.             *)
(***************************************************************************)
EXTENDS Naturals, FiniteSets

CONSTANTS
  Calls,    \* slots for concurrent tool calls
  MaxConns  \* bound on connections

ASSUME SSHAssumption == MaxConns \in Nat

VARIABLES
  files,    \* what the Cerbo has: update scripts and the SetupHelper directory
  tracked,  \* self._conn, or 0 for None
  open,     \* the connections that are not closed
  made,     \* how many have been made
  pc,       \* where a call stands
  op,       \* its operation
  cmd,      \* the command it is at
  mine,     \* the connection it runs on, or 0
  answer,   \* what it answered last
  failed,   \* history: connections a failed command has been cleaned up after
  spent     \* history: connections with a cause to be closed: close() was called,
            \* the peer ended it, or a command failed on it while it was open

connVars == <<tracked, open, made>>
callVars == <<pc, op, cmd, mine, answer>>
history  == <<failed, spent>>
vars     == <<files, connVars, callVars, history>>

-----------------------------------------------------------------------------

Conns    == 1 .. MaxConns
Ops      == {"run", "updates", "status", "password"}
Files    == {"probe1", "probe2", "directory"}
Commands == Files \cup {"exec", "script", "version", "packages", "chpasswd"}
PC       == {"idle", "ensure", "connecting", "running", "closing"}
Outcomes == {"ok", "nonzero", "failed"}
Answers  == {"none", "success", "error", "absent", "installed", "refused", "cancelled"}

Init ==
  /\ files \in SUBSET Files
  /\ tracked = 0 /\ open = {} /\ made = 0
  /\ pc = [c \in Calls |-> "idle"]
  /\ op = [c \in Calls |-> "run"]
  /\ cmd = [c \in Calls |-> "exec"]
  /\ mine = [c \in Calls |-> 0]
  /\ answer = [c \in Calls |-> "none"]
  /\ failed = {} /\ spent = {}

-----------------------------------------------------------------------------
(* The operations as sequences of commands.                                *)

FirstCommand(o) ==
  CASE o = "run"      -> "exec"
    [] o = "updates"  -> "probe1"
    [] o = "status"   -> "directory"
    [] o = "password" -> "chpasswd"

\* Is there another command after cmd k ended with r, and which?
HasNext(k, r) ==
  \/ k \in {"probe1", "version"}
  \/ k \in {"probe2", "directory"} /\ r = "ok"

NextCommand(k, r) ==
  CASE k = "probe1" /\ r # "ok" -> "probe2"
    [] k \in {"probe1", "probe2"} /\ r = "ok" -> "script"
    [] k = "directory" -> "version"
    [] k = "version" -> "packages"

AnswerOf(k, r) ==
  CASE k \in {"probe2", "directory"} -> "absent"
    [] k = "packages" -> "installed"
    [] OTHER -> IF r = "ok" THEN "success" ELSE "error"

\* The result r of its command reaches call c.
Finish(c, r) ==
  /\ mine' = [mine EXCEPT ![c] = 0]
  /\ IF HasNext(cmd[c], r)
       THEN /\ pc' = [pc EXCEPT ![c] = "ensure"]
            /\ cmd' = [cmd EXCEPT ![c] = NextCommand(cmd[c], r)]
            /\ UNCHANGED <<op, answer>>
       ELSE /\ pc' = [pc EXCEPT ![c] = "idle"]
            /\ answer' = [answer EXCEPT ![c] = AnswerOf(cmd[c], r)]
            /\ UNCHANGED <<op, cmd>>

Call(c, o) ==
  /\ pc[c] = "idle"
  /\ pc' = [pc EXCEPT ![c] = "ensure"]
  /\ op' = [op EXCEPT ![c] = o]
  /\ cmd' = [cmd EXCEPT ![c] = FirstCommand(o)]
  /\ answer' = [answer EXCEPT ![c] = "none"]
  /\ UNCHANGED <<files, connVars, mine, history>>

\* The gate asks for confirmation or denies, an argument is malformed, or there
\* are no credentials: nothing is run.
Refuse(c) ==
  /\ pc[c] = "idle"
  /\ answer' = [answer EXCEPT ![c] = "refused"]
  /\ UNCHANGED <<files, connVars, pc, op, cmd, mine, history>>

-----------------------------------------------------------------------------
(* The shared connection.                                                  *)

\* Mutant: no lock around the handshake.
NoLock == TRUE

\* _connection_lock is free.
LockFree == \A c \in Calls : pc[c] # "connecting"

\* _ensure_conn takes the lock: the connection there is, or a new one.
Ensure(c) ==
  /\ pc[c] = "ensure" /\ LockFree
  /\ IF tracked \in open
       THEN /\ pc' = [pc EXCEPT ![c] = "running"]
            /\ mine' = [mine EXCEPT ![c] = tracked]
       ELSE /\ pc' = [pc EXCEPT ![c] = "connecting"]
            /\ UNCHANGED mine
  /\ UNCHANGED <<files, connVars, op, cmd, answer, history>>

Connected(c) ==
  /\ pc[c] = "connecting" /\ made < MaxConns
  /\ made' = made + 1
  /\ tracked' = made + 1
  /\ open' = open \cup {made + 1}
  /\ mine' = [mine EXCEPT ![c] = made + 1]
  /\ pc' = [pc EXCEPT ![c] = "running"]
  /\ UNCHANGED <<files, op, cmd, answer, history>>

\* Refused, timed out or not authorised: there is no connection to close.
ConnectFails(c) ==
  /\ pc[c] = "connecting"
  /\ Finish(c, "failed")
  /\ UNCHANGED <<files, connVars, history>>

\* The command ended; a test for a file tells whether it is there.
RunDone(c, r) ==
  /\ pc[c] = "running" /\ mine[c] \in open
  /\ r \in {"ok", "nonzero"}
  /\ cmd[c] \in Files => (r = "ok" <=> cmd[c] \in files)
  /\ Finish(c, r)
  /\ UNCHANGED <<files, connVars, history>>

\* Mutant: no command has a timeout.
RunLosesOnly(c) ==
  /\ pc[c] = "running"
  /\ mine[c] \notin open
  /\ pc' = [pc EXCEPT ![c] = "closing"]
  /\ UNCHANGED <<files, connVars, op, cmd, mine, answer, history>>

\* The connection is lost, or the time is up (chpasswd has no timeout).
RunFails(c) ==
  /\ pc[c] = "running"
  /\ cmd[c] = "chpasswd" => mine[c] \notin open
  /\ pc' = [pc EXCEPT ![c] = "closing"]
  /\ spent' = spent \cup ({mine[c]} \cap open)
  /\ UNCHANGED <<files, connVars, op, cmd, mine, answer, failed>>

\* Mutant: whatever is there is torn down.
DropAny(k) ==
  /\ open' = open \ {tracked}
  /\ tracked' = 0

\* Mutant: the broken connection is kept.
DropNone(k) == UNCHANGED <<open, tracked>>

\* _close_connection(k): only if it is still the shared one.
Drop(k) ==
  IF tracked = k
    THEN open' = open \ {k} /\ tracked' = 0
    ELSE UNCHANGED <<open, tracked>>

\* The cleanup of a failed command.
Cleanup(c) ==
  /\ pc[c] = "closing" /\ LockFree
  /\ Drop(mine[c])
  /\ failed' = failed \cup {mine[c]}
  /\ Finish(c, "failed")
  /\ UNCHANGED <<files, made, spent>>

\* close(): whatever there is.
Close ==
  /\ LockFree /\ tracked # 0
  /\ open' = open \ {tracked}
  /\ tracked' = 0
  /\ spent' = spent \cup {tracked}
  /\ UNCHANGED <<files, made, callVars, failed>>

\* The peer or the network ends it.
Broken(k) ==
  /\ k \in open
  /\ open' = open \ {k}
  /\ spent' = spent \cup {k}
  /\ UNCHANGED <<files, tracked, made, callVars, failed>>

\* The task is cancelled at one of its awaits; nothing is cleaned up.
Cancel(c) ==
  /\ pc[c] # "idle"
  /\ pc' = [pc EXCEPT ![c] = "idle"]
  /\ mine' = [mine EXCEPT ![c] = 0]
  /\ answer' = [answer EXCEPT ![c] = "cancelled"]
  /\ UNCHANGED <<files, connVars, op, cmd, history>>

-----------------------------------------------------------------------------

CallStep(c) ==
  \/ \E o \in Ops : Call(c, o)
  \/ Refuse(c)
  \/ Ensure(c) \/ Connected(c) \/ ConnectFails(c)
  \/ \E r \in Outcomes : RunDone(c, r)
  \/ RunFails(c) \/ Cleanup(c) \/ Cancel(c)

Next ==
  \/ \E c \in Calls : CallStep(c)
  \/ Close
  \/ \E k \in Conns : Broken(k)

Spec == Init /\ [][Next]_vars

\* asyncio.Lock serves its waiters in turn; the handshake and a command end by
\* their timeouts, chpasswd by the loss of its connection only.
Fairness ==
  \A c \in Calls :
    /\ SF_vars(Ensure(c)) /\ SF_vars(Cleanup(c))
    /\ WF_vars(Connected(c) \/ ConnectFails(c))
    /\ WF_vars(RunFails(c))

FairSpec == Spec /\ Fairness

-----------------------------------------------------------------------------
(* Properties.                                                             *)

TypeOK ==
  /\ files \subseteq Files
  /\ tracked \in Conns \cup {0} /\ open \subseteq Conns /\ made \in 0 .. MaxConns
  /\ pc \in [Calls -> PC] /\ op \in [Calls -> Ops] /\ cmd \in [Calls -> Commands]
  /\ mine \in [Calls -> Conns \cup {0}]
  /\ answer \in [Calls -> Answers]
  /\ failed \subseteq Conns /\ spent \subseteq Conns

\* No connection is open that the client does not hold: nothing it could not close
\* any more, and never two at once, whatever fails or is cancelled in between.
NothingUntracked == open \subseteq {tracked}

\* When a failed command has been cleaned up after, its connection is closed for
\* good: no later command is run on it.
FailedAreGone == failed \cap open = {}

\* No connection is lost for the failure of another: one that is no longer open was
\* closed by close(), ended by the peer, or had a command fail on it while it was
\* open.  A call whose connection broke under it may clean up long after another
\* call made the replacement, and must leave that alone (_close_connection,
\* expected); a time-out costs the calls that share its connection, no others.
ClosedForCause == (1 .. made) \ open \subseteq spent

\* A command that failed on an open connection is a cause to close it.
FailureIsCause ==
  \A c \in Calls : pc[c] = "closing" /\ mine[c] \in open => mine[c] \in spent

\* Connections are numbered as they are made.
Numbered ==
  /\ tracked \in 0 .. made /\ open \subseteq 1 .. made /\ failed \subseteq 1 .. made
  /\ \A c \in Calls : mine[c] \in 0 .. made

\* One handshake at a time, and only while there is no connection.
Handshake ==
  \A c \in Calls : pc[c] = "connecting" =>
    /\ tracked \notin open
    /\ \A d \in Calls : pc[d] = "connecting" => d = c

\* A command that runs, or has failed, has a connection.
RunsOnOne == \A c \in Calls : pc[c] \in {"running", "closing"} => mine[c] # 0

\* The inductive invariant: why a handshake never leaves a second connection
\* behind, and why the connection of a failed command cannot be the shared one, and
\* why a late cleanup closes none that still serves.
Inv ==
  /\ TypeOK /\ NothingUntracked /\ FailedAreGone /\ Numbered /\ Handshake /\ RunsOnOne
  /\ ClosedForCause /\ FailureIsCause

\* Every call but that of enable_root_password returns.
CallsReturn ==
  \A c \in Calls : (pc[c] # "idle" /\ op[c] # "password") ~> (pc[c] = "idle")

\* What docs/CAPABILITIES.md says of setuphelper_status ("SetupHelper installed?"):
\* the answer that it is absent is about the device.
AbsentMeansAbsent ==
  \A c \in Calls : (answer[c] = "absent" /\ op[c] = "status") => "directory" \notin files

=============================================================================
