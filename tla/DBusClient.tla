----------------------------- MODULE DBusClient -----------------------------
(***************************************************************************)
(* dbus_client.py: reads of the on-device backend.  Every read connects    *)
(* first; connect() tests the flag, awaits the bus and only then sets it,  *)
(* so reads that start together each open a bus and the last one is kept.  *)
(* A read is several property calls, each on the bus the client holds at   *)
(* that moment.                                                            *)
(***************************************************************************)
EXTENDS Naturals, FiniteSets

CONSTANTS
  Readers,      \* tool calls that may be under way at once
  Properties,   \* property calls of one read
  MaxReads      \* reads in all

ASSUME DBusAssumption == /\ IsFiniteSet(Readers) /\ Readers # {}
                         /\ Properties \in Nat /\ MaxReads \in Nat

VARIABLES
  bus,        \* self.bus: the bus held, 0 for None
  flag,       \* self._connected
  open,       \* buses with an open socket
  broken,     \* buses that the daemon closed
  opened,     \* buses opened so far
  reader,     \* the reads: [pc, left]
  reads,
  stopped     \* lifespan() has shut the client down

dbusVars == <<bus, flag, open, broken, opened, reader, reads, stopped>>

IdleReader == [pc |-> "idle", left |-> 0]

DBusInit ==
  /\ bus = 0 /\ flag = FALSE
  /\ open = {} /\ broken = {} /\ opened = 0
  /\ reader = [r \in Readers |-> IdleReader]
  /\ reads = 0 /\ stopped = FALSE

Reader(r, pc, left) == reader' = [reader EXCEPT ![r] = [pc |-> pc, left |-> left]]

\* connect() up to its await.
BeginRead(r) ==
  /\ reader[r].pc = "idle" /\ reads < MaxReads /\ ~stopped
  /\ reads' = reads + 1
  /\ IF flag THEN Reader(r, "reading", Properties) ELSE Reader(r, "opening", 0)
  /\ UNCHANGED <<bus, flag, open, broken, opened, stopped>>

\* Mutant: the flag is never set.
FlagKept == flag

FlagSet == TRUE

\* The await returns: the bus is kept, whatever was kept before.
Opened(r) ==
  /\ reader[r].pc = "opening"
  /\ opened' = opened + 1
  /\ open' = open \cup {opened'}
  /\ bus' = opened'
  /\ flag' = FlagSet
  /\ Reader(r, "reading", Properties)
  /\ UNCHANGED <<broken, reads, stopped>>

\* The bus is not there; connect() raises.
OpenFails(r) ==
  /\ reader[r].pc = "opening"
  /\ Reader(r, "idle", 0)
  /\ UNCHANGED <<bus, flag, open, broken, opened, reads, stopped>>

\* _get_property: a reply on an open bus, an exception on one that is closed or
\* when the reply is an error.
GetProperty(r) ==
  /\ reader[r].pc = "reading" /\ reader[r].left > 0
  /\ \/ bus \in open /\ Reader(r, "reading", reader[r].left - 1)
     \/ Reader(r, "idle", 0)
  /\ UNCHANGED <<bus, flag, open, broken, opened, reads, stopped>>

ReadDone(r) ==
  /\ reader[r].pc = "reading" /\ reader[r].left = 0
  /\ Reader(r, "idle", 0)
  /\ UNCHANGED <<bus, flag, open, broken, opened, reads, stopped>>

\* disconnect(), at the end of lifespan().
Disconnect ==
  /\ ~stopped
  /\ stopped' = TRUE
  /\ IF flag THEN open' = open \ {bus} /\ flag' = FALSE ELSE UNCHANGED <<open, flag>>
  /\ UNCHANGED <<bus, broken, opened, reader, reads>>

\* The daemon closes a connection; nothing resets the flag.
BusBreaks(b) ==
  /\ b \in open
  /\ open' = open \ {b} /\ broken' = broken \cup {b}
  /\ UNCHANGED <<bus, flag, opened, reader, reads, stopped>>

DBusNext ==
  \/ Disconnect
  \/ \E b \in open : BusBreaks(b)
  \/ \E r \in Readers : BeginRead(r) \/ Opened(r) \/ OpenFails(r) \/ GetProperty(r) \/ ReadDone(r)

DBusSpec == DBusInit /\ [][DBusNext]_dbusVars
-----------------------------------------------------------------------------
(***************************************************************************)
(* The shape of the state (DBusClient.__init__ and its concurrent reads).  *)
(***************************************************************************)
DBusTypeOK ==
  /\ opened \in Nat /\ bus \in 0 .. opened
  /\ open \subseteq 1 .. opened /\ broken \subseteq 1 .. opened
  /\ flag \in BOOLEAN /\ stopped \in BOOLEAN /\ reads \in Nat
  /\ reader \in [Readers -> [pc : {"idle", "opening", "reading"}, left : 0 .. Properties]]

(***************************************************************************)
(* Connections are lost track of only among reads that start together: the *)
(* buses open but not held are fewer than the concurrent reads, however    *)
(* many reads there are, until shutdown; and the bus of a read that got    *)
(* past connect was closed by nobody but the daemon (connect,              *)
(* _get_property).                                                         *)
(***************************************************************************)
LostBusesAreFew ==
  ~stopped => /\ Cardinality(open \ {bus}) < Cardinality(Readers)
              /\ (\E r \in Readers : reader[r].pc = "reading") => bus \in open \cup broken

Opening == {r \in Readers : reader[r].pc = "opening"}
Reading == {r \in Readers : reader[r].pc = "reading"}
Lost == open \ {bus}

(***************************************************************************)
(* The inductive strengthening of LostBusesAreFew: until the first bus is  *)
(* open nothing is; from then on every reader that may still lose a bus    *)
(* was under way by then, and one of them keeps its own.                   *)
(***************************************************************************)
DBusInv ==
  /\ DBusTypeOK
  /\ ~stopped /\ ~flag => open = {} /\ Reading = {}
  /\ ~stopped /\ flag =>
       bus \in open \cup broken /\ Cardinality(Lost) + Cardinality(Opening) < Cardinality(Readers)
=============================================================================
