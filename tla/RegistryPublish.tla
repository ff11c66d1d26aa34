--------------------------- MODULE RegistryPublish ---------------------------
(***************************************************************************)
(* publish_verified.py: operators copy the payloads of published stable    *)
(* releases to container registries and to PyPI.  Several operators run at *)
(* once, a command may fail halfway through the list, a maintainer may     *)
(* replace or withdraw what a release shows, and a container registry      *)
(* stores whatever it is given under a tag that it may hold already: only  *)
(* the checks made before stand in between.                                *)
(***************************************************************************)
EXTENDS Naturals, Sequences, SequencesExt

CONSTANTS
  Operators,
  Stable,       \* versions of stable releases
  Mapping,      \* container_assets of the RC's source policy: images in order
  PyPI,         \* the PyPI project
  MaxChanges    \* what maintainers change on GitHub

Destinations == Range(Mapping)

\* container_commands() does nothing without a mapping.
ASSUME MappingAssumption == Mapping \in Seq(Destinations) /\ Mapping # <<>>

Contents == {"none", "approved", "other"}   \* approved: the bytes of the RC evidence

\* container_assets and pypi_assets of the RC's source policy.
Configured == [containers |-> Mapping, pypi |-> <<PyPI>>]

VARIABLES
  offered,   \* what the GitHub release of each version holds now
  current,   \* container_assets and pypi_assets of the operators' checkout
  registry,  \* what each destination holds under each version
  latest,    \* the version that `latest' of each image names, or 0
  op,        \* the operators
  changes

regVars == <<offered, current, registry, latest, op, changes>>

NoOp == [pc |-> "idle", version |-> 0, bytes |-> "none", checked |-> 0, todo |-> <<>>]

RegInit ==
  /\ offered = [v \in Stable |-> "approved"]
  /\ current = Configured
  /\ registry = [d \in Destinations \cup {PyPI} |-> [v \in Stable |-> "none"]]
  /\ latest = [d \in Destinations |-> 0]
  /\ op = [o \in Operators |-> NoOp]
  /\ changes = 0

Operator(o, s) == op' = [op EXCEPT ![o] = s]

\* verified_assets(): the release is public, and every byte is that of the evidence.
VerifiedAssets(v) == offered[v] = "approved"

Versioned == [i \in DOMAIN Mapping |-> <<Mapping[i], "version">>]
Latest == [i \in DOMAIN Mapping |-> <<Mapping[i], "latest">>]

\* Mutant: each image gets its latest tag at once.
LatestFirst(move) == IF move THEN Latest \o Versioned ELSE Versioned

\* container_commands(): every version, then every latest.
ContainerCommands(move) == IF move THEN Versioned \o Latest ELSE Versioned

\* main() up to the preflight of the images; pypi_commands() has none.
Verify(o, target, v, move) ==
  /\ op[o].pc = "idle"
  /\ VerifiedAssets(v)
  /\ current[target] = Configured[target]             \* verified_publication_config
  /\ Operator(o, [NoOp EXCEPT !.pc = IF target = "pypi" THEN "execute" ELSE "preflight",
                              !.version = v, !.bytes = offered[v],
                              !.todo = IF target = "pypi" THEN <<<<PyPI, "version">>>>
                                       ELSE ContainerCommands(move)])
  /\ UNCHANGED <<offered, current, registry, latest, changes>>

\* require_unpublished_version(), image after image.
CheckImage(o) ==
  LET s == op[o] IN
  /\ s.pc = "preflight"
  /\ IF registry[Mapping[s.checked + 1]][s.version] # "none" THEN Operator(o, NoOp)
     ELSE IF s.checked + 1 < Len(Mapping) THEN Operator(o, [s EXCEPT !.checked = @ + 1])
     ELSE Operator(o, [s EXCEPT !.pc = "execute", !.checked = 0])
  /\ UNCHANGED <<offered, current, registry, latest, changes>>

\* One command; PyPI itself refuses a file it holds.
Execute(o) ==
  LET s == op[o] c == s.todo[1] IN
  /\ s.pc = "execute"
  /\ \/ /\ c[2] = "version"
        /\ c[1] = PyPI => registry[PyPI][s.version] = "none"
        /\ registry' = [registry EXCEPT ![c[1]][s.version] = s.bytes]
        /\ UNCHANGED latest
     \/ /\ c[2] = "latest"
        /\ latest' = [latest EXCEPT ![c[1]] = s.version]
        /\ UNCHANGED registry
  /\ Operator(o, IF Len(s.todo) = 1 THEN NoOp ELSE [s EXCEPT !.todo = Tail(@)])
  /\ UNCHANGED <<offered, current, changes>>

\* A tool fails, a registry cannot be listed, the operator gives up.
OperatorFails(o) ==
  /\ op[o].pc # "idle"
  /\ Operator(o, NoOp)
  /\ UNCHANGED <<offered, current, registry, latest, changes>>

\* A maintainer replaces an asset or withdraws the release.
ChangeRelease(v) ==
  /\ changes < MaxChanges
  /\ changes' = changes + 1
  /\ \E c \in Contents \ {offered[v]} : offered' = [offered EXCEPT ![v] = c]
  /\ UNCHANGED <<current, registry, latest, op>>

\* The checkout moves to another policy.
ChangePolicy ==
  /\ changes < MaxChanges
  /\ changes' = changes + 1
  /\ \E t \in DOMAIN Configured : \E m \in {Configured[t], Tail(Configured[t])} \ {current[t]} :
       current' = [current EXCEPT ![t] = m]
  /\ UNCHANGED <<offered, registry, latest, op>>

RegNext ==
  \/ \E o \in Operators :
       \/ CheckImage(o) \/ Execute(o) \/ OperatorFails(o)
       \/ \E v \in Stable : Verify(o, "pypi", v, FALSE)
                            \/ \E move \in BOOLEAN : Verify(o, "containers", v, move)
  \/ ChangePolicy
  \/ \E v \in Stable : ChangeRelease(v)

RegSpec == RegInit /\ [][RegNext]_regVars
-----------------------------------------------------------------------------
(***************************************************************************)
(* "Publish verified stable assets to a registry without rebuilding", with *)
(* operators racing and failing halfway: a version in a registry is only   *)
(* ever the approved bytes, and `latest' names a version that every image  *)
(* of the product already has (verified_assets, container_commands, the    *)
(* loop of main).                                                          *)
(***************************************************************************)
RegistryHoldsApproved ==
  /\ \A d \in DOMAIN registry : \A v \in Stable : registry[d][v] \in {"none", "approved"}
  /\ \A d \in Destinations : latest[d] # 0 => \A e \in Destinations : registry[e][latest[d]] = "approved"
-----------------------------------------------------------------------------
(* The inductive strengthening of RegistryHoldsApproved.                   *)

Commands == (Destinations \X {"version", "latest"}) \cup {<<PyPI, "version">>}

RegTypeOK ==
  /\ offered \in [Stable -> Contents]
  /\ registry \in [Destinations \cup {PyPI} -> [Stable -> Contents]]
  /\ latest \in [Destinations -> Stable \cup {0}]
  /\ op \in [Operators -> [pc : {"idle", "preflight", "execute"}, version : Stable \cup {0},
                           bytes : Contents, checked : Nat, todo : Seq(Commands)]]

\* Whoever still has to move a latest tag has pushed the version of every image, or
\* will do so before.
CommandsSound(s) ==
  LET moves == {i \in DOMAIN s.todo : s.todo[i][2] = "latest"} IN
  /\ s.todo # <<>>
  /\ \A i \in moves : \A j \in DOMAIN s.todo : i < j => j \in moves
  /\ moves # {} => \A e \in Destinations :
       registry[e][s.version] = "approved" \/ \E j \in DOMAIN s.todo : s.todo[j] = <<e, "version">>

OperatorSound(s) ==
  s.pc # "idle" => s.version \in Stable /\ s.bytes = "approved" /\ CommandsSound(s)

OperatorsSound == \A o \in Operators : OperatorSound(op[o])

RegInv == RegTypeOK /\ OperatorsSound /\ RegistryHoldsApproved

=============================================================================
