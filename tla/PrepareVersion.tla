--------------------------- MODULE PrepareVersion ---------------------------
(***************************************************************************)
(* prepare_version.py --pull-request: a topic branch release/version-X.Y.Z *)
(* with the version fields of a new base, and one pull request for it.     *)
(* Several preparations run at once, each from its own clean checkout of   *)
(* main; between their calls others push, merge, tag and delete.  Main is  *)
(* the sequence of the bases its commits hold; a topic is the main commit  *)
(* it branched from, the base in its tree, and whether it holds anything   *)
(* besides the generated version fields (foreign).                         *)
(***************************************************************************)
EXTENDS Naturals, Sequences, FiniteSetsExt

CONSTANTS
  Preps,       \* processes that prepare
  Requests,    \* of each process: [requested : version or 0, bump : kind]
  Versions,    \* the versions that topics are made for
  OtherTags,   \* tags of the remote that main does not reach
  MaxMoves     \* steps of everybody else, and deaths

\* A request names its version or one of the bumps that the command line offers.
ASSUME PrepAssumption ==
  /\ Versions \subseteq Nat /\ IsFiniteSet(OtherTags)
  /\ \A p \in Preps : \A r \in Requests[p] :
       /\ r.requested \in Nat
       /\ r.requested = 0 => r.bump \in {"major", "minor", "patch", "next-patch"}

VARIABLES
  main, tagged, topic,
  pr,          \* which versions have an open pull request
  prep,        \* the processes, with what each read
  moves

prepVars == <<main, tagged, topic, pr, prep, moves>>
remote == <<main, tagged, topic, pr>>

NoTopic == [n |-> 0, from |-> 0, base |-> 0, foreign |-> FALSE]
NoPrep == [pc |-> "idle", head |-> 0, target |-> 0, existing |-> 0, read |-> NoTopic]

PrepInit ==
  /\ main = <<100>>
  /\ tagged = {} /\ moves = 0
  /\ topic = [v \in Versions |-> NoTopic]
  /\ pr = [v \in Versions |-> FALSE]
  /\ prep = [p \in Preps |-> NoPrep]

Base == main[Len(main)]
Occupied == tagged \cup OtherTags

\* Commits have names of their own; one that nobody remembers stands for a new one.
Remembered == {topic[v].n : v \in Versions} \cup {prep[p].existing : p \in Preps}
                \cup {prep[p].read.n : p \in Preps}
FreshId == Min((1 .. Cardinality(Remembered) + 1) \ Remembered)

\* X.Y.Z is 100X + 10Y + Z.
BumpedVersion(current, bump) ==
  CASE bump = "major" -> (current \div 100 + 1) * 100
    [] bump = "minor" -> (current \div 10 + 1) * 10
    [] bump = "patch" -> current + 1
    [] bump = "next-patch" ->
         IF \A t \in tagged : current > t THEN current ELSE Max(tagged) + 1

Selected(current, r) == IF r.requested # 0 THEN r.requested ELSE BumpedVersion(current, r.bump)

\* choose_version(): only the implicit bump steps over occupied names.
FreeVersions(current, r) ==
  LET s == Selected(current, r) IN
  IF r.requested # 0 \/ r.bump # "next-patch" THEN {s} \ Occupied
  ELSE {Min((s .. s + Cardinality(Occupied)) \ Occupied)}

\* Mutant: an older base may be prepared.
AnyChoice(current, r) == FreeVersions(current, r)

ChooseVersion(current, r) == {v \in FreeVersions(current, r) : Selected(current, r) >= current}

Set(p, s) == prep' = [prep EXCEPT ![p] = s]
Stop(p) == Set(p, NoPrep)

\* _validate_preparation_checkout, advertised_tags, choose_version.
Checkout(p, r) ==
  /\ prep[p].pc = "idle"
  /\ \E v \in ChooseVersion(Base, r) \cap Versions :
       Set(p, [NoPrep EXCEPT !.pc = "list", !.head = Len(main), !.target = v])
  /\ UNCHANGED <<remote, moves>>

\* gh pr list, own_pull_requests.
ListPullRequests(p) ==
  LET v == prep[p].target IN
  /\ prep[p].pc = "list"
  /\ Set(p, [prep[p] EXCEPT !.pc = "fetch", !.existing = IF pr[v] THEN topic[v].n ELSE 0])
  /\ UNCHANGED <<remote, moves>>

\* Mutants: whatever the branch holds is taken over; a branch that exists is never.
AnyTopic(t, head, v) == TRUE
NoTopicYet(t, head, v) == t = NoTopic

\* verify_owned_topic(): relative to the merge base, nothing but the target version.
\* Every commit of main counts as bringing more than version fields, so a topic from
\* a later main is refused.  The code lets one pass whose main differs in version
\* fields only: its tree is then the one wanted, and nothing is pushed.
OwnedTopic(t, head, v) == t # NoTopic => t.from <= head /\ t.base = v /\ ~t.foreign

\* remote_topic and the tests of _preparation_topic.
FetchTopic(p) ==
  LET t == topic[prep[p].target] IN
  /\ prep[p].pc = "fetch"
  /\ IF /\ prep[p].existing \in {0, t.n}
        /\ OwnedTopic(t, prep[p].head, prep[p].target)
     THEN Set(p, [prep[p] EXCEPT !.pc = "commit", !.read = t])
     ELSE Stop(p)
  /\ UNCHANGED <<remote, moves>>

\* The worktree of HEAD with the version fields of the target.
Tree(s) == <<s.head, s.target>>

\* An unchanged base without a pull request needs none; an unchanged tree no push.
Commit(p) ==
  LET s == prep[p] IN
  /\ s.pc = "commit"
  /\ \/ /\ s.existing = 0 /\ main[s.head] = s.target
        /\ Stop(p)
     \/ /\ s.existing # 0 \/ main[s.head] # s.target
        /\ Set(p, [s EXCEPT !.pc = IF Tree(s) # <<s.read.from, s.read.base>>
                                   THEN "push" ELSE "create"])
  /\ UNCHANGED <<remote, moves>>

\* The remote takes a push whose parents include what the branch holds now.
FastForward(p) == topic[prep[p].target] \in {NoTopic, prep[p].read}

Push(p) ==
  LET s == prep[p] IN
  /\ s.pc = "push"
  /\ IF FastForward(p)
     THEN /\ topic' = [topic EXCEPT ![s.target] = [n |-> FreshId, from |-> s.head,
                                                   base |-> s.target, foreign |-> FALSE]]
          /\ Set(p, [s EXCEPT !.pc = "create"])
     ELSE Stop(p) /\ UNCHANGED topic
  /\ UNCHANGED <<main, tagged, pr, moves>>

\* gh pr create, which GitHub refuses for a second one or without the branch.
CreatePullRequest(p) ==
  LET s == prep[p] IN
  /\ s.pc = "create"
  /\ pr' = [pr EXCEPT ![s.target] = @ \/ (s.existing = 0 /\ topic[s.target] # NoTopic)]
  /\ Stop(p)
  /\ UNCHANGED <<main, tagged, topic, moves>>
-----------------------------------------------------------------------------
Move == moves < MaxMoves /\ moves' = moves + 1

PrepKilled(p) ==
  /\ Move /\ prep[p].pc # "idle"
  /\ Stop(p)
  /\ UNCHANGED remote

OtherWork ==
  /\ Move
  /\ main' = Append(main, Base)
  /\ UNCHANGED <<tagged, topic, pr, prep>>

TagRelease ==
  /\ Move
  /\ tagged' = tagged \cup {Base}
  /\ UNCHANGED <<main, topic, pr, prep>>

\* A reviewer merges; git refuses when both sides changed the base.  The branch is
\* deleted, or kept after a squash.
MergePullRequest(v) ==
  /\ Move /\ pr[v]
  /\ Base \in {main[topic[v].from], topic[v].base}
  /\ main' = Append(main, IF topic[v].base = main[topic[v].from] THEN Base ELSE topic[v].base)
  /\ topic' \in {topic, [topic EXCEPT ![v] = NoTopic]}
  /\ pr' = [pr EXCEPT ![v] = FALSE]
  /\ UNCHANGED <<tagged, prep>>

\* Somebody commits to the branch, or creates it with work of their own.
ForeignPush(v) ==
  /\ Move
  /\ topic' = [topic EXCEPT ![v] =
       IF @ = NoTopic THEN [n |-> FreshId, from |-> Len(main), base |-> Base, foreign |-> TRUE]
       ELSE [@ EXCEPT !.n = FreshId, !.foreign = TRUE]]
  /\ UNCHANGED <<main, tagged, pr, prep>>

\* Deleting the branch closes its pull request.
DeleteTopic(v) ==
  /\ Move /\ topic[v] # NoTopic
  /\ topic' = [topic EXCEPT ![v] = NoTopic]
  /\ pr' = [pr EXCEPT ![v] = FALSE]
  /\ UNCHANGED <<main, tagged, prep>>

PrepStep(p) ==
  ListPullRequests(p) \/ FetchTopic(p) \/ Commit(p) \/ Push(p) \/ CreatePullRequest(p)

PrepNext ==
  \/ \E p \in Preps : PrepStep(p) \/ PrepKilled(p) \/ \E r \in Requests[p] : Checkout(p, r)
  \/ OtherWork \/ TagRelease
  \/ \E v \in Versions : MergePullRequest(v) \/ ForeignPush(v) \/ DeleteTopic(v)

PrepSpec == PrepInit /\ [][PrepNext]_prepVars
-----------------------------------------------------------------------------
(***************************************************************************)
(* Work that somebody else pushed to a topic branch is never overwritten   *)
(* or taken over by a preparation, however its fetch, its push and their   *)
(* pushes interleave: such a branch changes only by more of their work or  *)
(* by its deletion (verify_owned_topic, the non-forced push).              *)
(***************************************************************************)
ForeignWorkIsKept ==
  [][\A v \in Versions : topic[v].foreign /\ topic'[v] # topic[v]
        => topic'[v] = NoTopic \/ topic'[v].foreign]_prepVars

(***************************************************************************)
(* "Preparation must not downgrade the active release base": with several  *)
(* topics open at once, merged late and in any order, the base of main     *)
(* never goes down (choose_version, prepare).                              *)
(***************************************************************************)
NeverDowngrades == [][main'[Len(main')] >= Base]_prepVars

\* Nothing is left to do for v, or only a maintainer can do it.
Prepared(v) == pr[v] \/ Base >= v \/ v \in Occupied \/ topic[v].foreign

(***************************************************************************)
(* A preparation that died between its push and its pull request, or lost  *)
(* a race, is completed by a later one: a requested version always has its *)
(* pull request again, unless main has it already or the name is taken     *)
(* (prepare, _preparation_topic).                                          *)
(***************************************************************************)
PreparationCompletes ==
  \A p \in Preps : \A r \in Requests[p] : r.requested # 0 => []<>Prepared(r.requested)
-----------------------------------------------------------------------------
(* What makes the two action properties inductive.                         *)

TopicOK(t) ==
  /\ t \in [n : {t.n}, from : Nat, base : Nat, foreign : BOOLEAN]
  /\ t # NoTopic => t.from \in DOMAIN main

PrepOK(s) ==
  /\ s \in [pc : {"idle", "list", "fetch", "commit", "push", "create"}, head : Nat, target : Nat,
            existing : {s.existing}, read : {s.read}]
  /\ TopicOK(s.read)
  /\ s.pc # "idle" => s.head \in DOMAIN main /\ s.target \in Versions

PrepTypeOK ==
  /\ main \in Seq(Nat) /\ main # <<>>
  /\ topic = [v \in Versions |-> topic[v]] /\ \A v \in Versions : TopicOK(topic[v])
  /\ pr \in [Versions -> BOOLEAN]
  /\ prep = [p \in Preps |-> prep[p]] /\ \A p \in Preps : PrepOK(prep[p])

\* The bases of main rise, and a tag names one of them.
MainRises ==
  /\ \A i, j \in DOMAIN main : i <= j => main[i] <= main[j]
  /\ tagged \subseteq 0 .. Base

\* A topic, and one that is being prepared, is not below the commit it starts from;
\* a pull request has a topic.
TopicsRise ==
  /\ \A v \in Versions : topic[v] # NoTopic => main[topic[v].from] <= topic[v].base
  /\ \A v \in Versions : pr[v] => topic[v] # NoTopic
  /\ \A p \in Preps : prep[p].pc # "idle" => main[prep[p].head] <= prep[p].target

\* A preparation goes on only from a topic without foreign work.
ReadsOwn ==
  \A p \in Preps : prep[p].pc \in {"commit", "push", "create"} => ~prep[p].read.foreign

PrepInv == PrepTypeOK /\ MainRises /\ TopicsRise /\ ReadsOwn
=============================================================================
