----------------------------- MODULE ReadTools -----------------------------
(***************************************************************************)
(* The read tools of server.py.  A call waits for the gateway's first full *)
(* publish or its deadline, registers the tools of companion services it   *)
(* finds, discovers devices from a copy of the cache, and reads field by   *)
(* field.  It never yields while it reads, but the decoder thread changes  *)
(* the cache under it: a device may come, go, or grow stale between two    *)
(* reads.  A topic is <<device type, instance, path>>, the companion       *)
(* services' own topics included.                                          *)
(***************************************************************************)
EXTENDS Naturals, Sequences, FiniteSets, SequencesExt

CONSTANTS
  Items,        \* topics that may be cached
  ItemValues,   \* values of an item
  Absent,       \* no entry
  FieldPaths,   \* the candidate paths of each field, in order
  ToolCalls,    \* [types : sequence of device types, instance : 0 for all]
  Markers,      \* capability -> the device type of its marker topics
  SSHConfigured,
  MaxUpdates,   \* changes by the decoder thread
  MaxCalls

\* Instances are numbers, no tool asks for a type twice, and no companion
\* service is called like the group that SSH_HOST enables.
ASSUME ToolAssumption ==
  /\ IsFiniteSet(Items) /\ \A t \in Items : t[2] \in Nat
  /\ ItemValues # {}
  /\ \A c \in ToolCalls : /\ c.types \in Seq(Range(c.types)) /\ IsInjective(c.types)
                          /\ c.instance \in Nat
  /\ "ssh" \notin DOMAIN Markers
  /\ MaxUpdates \in Nat /\ MaxCalls \in Nat

VARIABLES
  items,       \* self._cache: [value, old], old beyond stale_after_seconds
  registered,  \* _registered_capabilities
  call,        \* the running tool call
  updates, calls,
  held,        \* history: topics cached ever since the call began
  fresh,       \* history: <<topic, value>> cached and not old at some time since
  everSeen     \* history: topics ever cached

toolVars == <<items, registered, call, updates, calls, held, fresh, everSeen>>

Cached == {t \in Items : items[t] # Absent}
FreshNow == {<<t, items[t].value>> : t \in {u \in Cached : ~items[u].old}}

NoCall == [pc |-> "idle", asked |-> <<>>, types |-> <<>>, instance |-> 0, todo |-> <<>>, field |-> 1,
           candidate |-> 1, used |-> {}, old |-> FALSE, readings |-> <<>>]

ToolInit ==
  /\ \E S \in SUBSET Items : \E o \in BOOLEAN :
       items = [t \in Items |-> IF t \in S THEN [value |-> CHOOSE v \in ItemValues : TRUE,
                                                 old |-> o] ELSE Absent]
  /\ registered = {} /\ call = NoCall
  /\ updates = 0 /\ calls = 0
  /\ held = {} /\ fresh = {} /\ everSeen = Cached

Keep == UNCHANGED <<items, updates, held, fresh, everSeen>>

\* _mqtt_ready: connect(), then the marker of the full publish or the deadline.
\* The warm-up of lifespan() is a call that reads nothing.
CallTool(c) ==
  /\ call.pc = "idle" /\ calls < MaxCalls
  /\ calls' = calls + 1
  /\ call' = [NoCall EXCEPT !.pc = "waiting", !.asked = c.types, !.types = c.types,
                              !.instance = c.instance]
  /\ held' = Cached /\ fresh' = FreshNow
  /\ UNCHANGED <<items, registered, updates, everSeen>>

\* The broker is unreachable, or the warm-up is cancelled at its own deadline.
NotReady ==
  /\ call.pc = "waiting"
  /\ call' = NoCall
  /\ Keep /\ UNCHANGED <<registered, calls>>

\* Mutant: a service is believed in without a topic.
AnyCapability(topics) == DOMAIN Markers

\* detect_capabilities().
Detected(topics) == {c \in DOMAIN Markers : \E t \in topics : t[1] = Markers[c]}

\* _apply_capability_tools().
Ready ==
  /\ call.pc = "waiting"
  /\ registered' = registered \cup Detected(Cached)
                     \cup (IF SSHConfigured THEN {"ssh"} ELSE {})
  /\ call' = [call EXCEPT !.pc = "discover"]
  /\ Keep /\ UNCHANGED calls

\* list_devices(), from one copy of the cache: every device once.  get_tank_level
\* finds its instances the same way, from the Level topics of dbus-pump, which are
\* the only items a tank has here.  Both skip a topic whose instance is no number;
\* Items holds none, and none whose instance int() would read in another spelling.
Devices == {<<t[1], t[2]>> : t \in Cached}

\* The instances of a type, sorted: there is exactly one such order.
OfType(type) ==
  LET found == {d[2] : d \in {e \in Devices : e[1] = type}}
  IN {is \in [1 .. Cardinality(found) -> found] :
        Range(is) = found /\ \A i, j \in DOMAIN is : i < j => is[i] < is[j]}

\* _instance_device_type(): the first type that owns the instance, else the first.
OwnerType(i) ==
  LET owners == {j \in DOMAIN call.types : <<call.types[j], call.instance>> \in Devices}
  IN IF owners = {} THEN i = 1 ELSE i \in owners /\ \A j \in owners : i <= j

\* The devices to read: of one type after the other, or the one asked for.
Discover ==
  /\ call.pc = "discover" /\ call.todo = <<>> /\ call.types # <<>>
  /\ \/ /\ call.instance = 0
        /\ \E is \in OfType(Head(call.types)) :
             call' = [call EXCEPT !.types = Tail(@),
                        !.todo = [i \in DOMAIN is |-> <<Head(call.types), is[i]>>]]
     \/ /\ call.instance # 0
        /\ \E i \in DOMAIN call.types :
             /\ OwnerType(i)
             /\ call' = [call EXCEPT !.types = <<>>,
                                     !.todo = <<<<call.types[i], call.instance>>>>]
  /\ Keep /\ UNCHANGED <<registered, calls>>

\* read_first(): one look at the cache for each candidate path, in order; of the
\* values found by _collect_mqtt() the oldest decides.
ReadCandidate ==
  LET d == Head(call.todo)
      paths == FieldPaths[call.field]
      t == <<d[1], d[2], paths[call.candidate]>>
      found == t \in Cached
      next == found \/ call.candidate = Len(paths)
  IN /\ call.pc = "discover" /\ call.todo # <<>> /\ call.field <= Len(FieldPaths)
     /\ call' = [call EXCEPT !.field = IF next THEN @ + 1 ELSE @,
                             !.candidate = IF next THEN 1 ELSE @ + 1,
                             !.used = IF found THEN @ \cup {<<t, items[t].value>>} ELSE @,
                             !.old = @ \/ (found /\ items[t].old)]
     /\ Keep /\ UNCHANGED <<registered, calls>>

\* Mutant: only a device without any value is stale.
NothingUsed(c) == c.used = {}

\* out["stale"]: too old a value, or none at all.
Stale(c) == c.used = {} \/ c.old

FinishReading ==
  /\ call.pc = "discover" /\ call.todo # <<>> /\ call.field > Len(FieldPaths)
  /\ call' = [call EXCEPT !.todo = Tail(@), !.field = 1, !.used = {}, !.old = FALSE,
       !.readings = Append(@, [device |-> Head(call.todo), used |-> call.used,
                               stale |-> Stale(call)])]
  /\ Keep /\ UNCHANGED <<registered, calls>>

Answer ==
  /\ call.pc = "discover" /\ call.todo = <<>> /\ call.types = <<>>
  /\ call' = [call EXCEPT !.pc = "answered"]
  /\ Keep /\ UNCHANGED <<registered, calls>>

\* The client has the answer.
Return ==
  /\ call.pc = "answered"
  /\ call' = NoCall
  /\ held' = {} /\ fresh' = {}
  /\ UNCHANGED <<items, registered, updates, calls, everSeen>>

\* The decoder thread stores or removes one item, or time passes for one.
Decode(t) ==
  /\ updates < MaxUpdates /\ call.pc \notin {"idle", "answered"}
  /\ updates' = updates + 1
  /\ \E e \in {Absent} \cup [value : ItemValues, old : {FALSE}]
                \cup (IF t \in Cached THEN {[items[t] EXCEPT !.old = TRUE]} ELSE {}) :
       items[t] # e /\ items' = [items EXCEPT ![t] = e]
  /\ held' = held \cap Cached'
  /\ fresh' = fresh \cup FreshNow'
  /\ everSeen' = everSeen \cup Cached'
  /\ UNCHANGED <<registered, call, calls>>

ToolNext ==
  \/ NotReady \/ Ready \/ Discover \/ ReadCandidate \/ FinishReading \/ Answer \/ Return
  \/ \E c \in ToolCalls : CallTool(c)
  \/ \E t \in Items : Decode(t)

ToolSpec == ToolInit /\ [][ToolNext]_toolVars
-----------------------------------------------------------------------------
Answered == Range(call.readings)

DevicesRead == [i \in DOMAIN call.readings |-> call.readings[i].device]
\* The devices of the asked types with a topic that was cached throughout.
Steady == {<<t[1], t[2]>> : t \in {u \in held : u[1] \in Range(call.asked)}}
SeenDevices == {<<t[1], t[2]>> : t \in everSeen}

(***************************************************************************)
(* A read tool hides nothing and calls nothing fresh that is not, however  *)
(* the cache changes while it reads: a device of the asked types whose     *)
(* topic was cached throughout is read exactly once (instance=0) or owns   *)
(* the answer (instance=N), and a reading that is not marked stale has a   *)
(* value and only values that were current at some time during the call    *)
(* (_read_all_instances, _instance_device_type, _collect_mqtt).            *)
(***************************************************************************)
ReadsAreHonest ==
  /\ \A r \in Answered : ~r.stale => r.used # {} /\ r.used \subseteq fresh
  /\ call.pc = "answered" =>
       /\ IsInjective(DevicesRead)
       /\ call.instance = 0 => Steady \subseteq Range(DevicesRead)
       /\ (\E d \in Steady : d[2] = call.instance) => Range(DevicesRead) \subseteq SeenDevices

(***************************************************************************)
(* "An installation without a service never advertises its tool": a group  *)
(* is registered only after one of its topics was seen, and it is there    *)
(* when a call answers during all of which its topic was cached            *)
(* (_apply_capability_tools, detect_capabilities).                         *)
(***************************************************************************)
ToolsAreOffered ==
  \A c \in DOMAIN Markers :
    /\ c \in registered => \E t \in everSeen : t[1] = Markers[c]
    /\ call.pc = "answered" /\ (\E t \in held : t[1] = Markers[c]) => c \in registered
-----------------------------------------------------------------------------
\* What makes the two inductive.
AskedTypes == UNION {Range(c.types) : c \in ToolCalls}
Device == AskedTypes \X Nat
UsedValues == SUBSET (Items \X ItemValues)

ToolTypeOK ==
  /\ items \in [Items -> {Absent} \cup [value : ItemValues, old : BOOLEAN]]
  /\ registered \subseteq DOMAIN Markers \cup {"ssh"}
  /\ call \in [pc : {"idle", "waiting", "discover", "answered"},
               asked : Seq(AskedTypes), types : Seq(AskedTypes), instance : Nat,
               todo : Seq(Device), field : Nat, candidate : Nat,
               used : UsedValues, old : BOOLEAN,
               readings : Seq([device : Device, used : UsedValues, stale : BOOLEAN])]
  /\ updates \in 0 .. MaxUpdates /\ calls \in 0 .. MaxCalls
  /\ held \subseteq Items /\ everSeen \subseteq Items /\ fresh \in UsedValues

\* The histories lag behind the cache, never ahead of it.
HistorySound ==
  /\ held \subseteq Cached /\ Cached \subseteq everSeen
  /\ call.pc # "idle" => FreshNow \subseteq fresh

\* What was read is kept with the truth about its age.
ReadingSound ==
  /\ ~call.old => call.used \subseteq fresh
  /\ \A r \in Answered : ~r.stale => r.used # {} /\ r.used \subseteq fresh

\* No device twice: what is still to read and what was read are distinct, and of
\* types that are done with.
ReadOnce ==
  /\ IsInjective(call.types) /\ IsInjective(call.todo) /\ IsInjective(DevicesRead)
  /\ Range(call.todo) \cap Range(DevicesRead) = {}
  /\ \A d \in Range(call.todo) \cup Range(DevicesRead) : d[1] \notin Range(call.types)

\* No device hidden: a steady one is read, about to be, or of a type still to come.
NoneHidden ==
  /\ (call.pc = "waiting" \/ (call.instance # 0 /\ call.types # <<>>))
       => call.types = call.asked /\ call.todo = <<>> /\ call.readings = <<>>
  /\ call.instance = 0 =>
       \A d \in Steady : \/ d \in Range(call.todo) \cup Range(DevicesRead)
                        \/ d[1] \in Range(call.types)
  /\ (\E d \in Steady : d[2] = call.instance)
       => Range(call.todo) \cup Range(DevicesRead) \subseteq SeenDevices
  /\ call.pc = "answered" => call.types = <<>> /\ call.todo = <<>>

\* A group is registered from the moment a call has looked at the cache.
GroupsSound ==
  \A c \in DOMAIN Markers :
    /\ c \in registered => \E t \in everSeen : t[1] = Markers[c]
    /\ call.pc \in {"discover", "answered"} /\ (\E t \in held : t[1] = Markers[c])
         => c \in registered

ToolInv == ToolTypeOK /\ HistorySound /\ ReadingSound /\ ReadOnce /\ NoneHidden /\ GroupsSound
=============================================================================
