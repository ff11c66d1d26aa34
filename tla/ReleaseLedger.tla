--------------------------- MODULE ReleaseLedger ---------------------------
(***************************************************************************)
(* The durable version ledger of scripts/release_state.py: one JSON file   *)
(* on the branch release-version-state, replaced as a whole by a           *)
(* compare-and-swap on its blob SHA.  A blob SHA is a digest of the        *)
(* content, so a swap succeeds exactly when the content is the one that    *)
(* was read.  This module holds what the functions compute from a ledger   *)
(* value; Release.tla has the steps that read and write it.                *)
(***************************************************************************)
EXTENDS Integers, FiniteSets

CONSTANTS
    Runs,           \* Actions run IDs, ordered as GitHub issues them
    Bases,          \* committed base versions X.Y.Z
    Commits,        \* commits of the default branch, ordered by ancestry
    NumberFloor     \* versioning.build_number_floor of the policy

ASSUME LedgerAssumption ==
    /\ Runs \subseteq Nat \ {0}
    /\ Bases \subseteq Nat
    /\ Commits \subseteq Nat
    /\ NumberFloor \in Nat

Channels == {"nightly", "beta", "rc", "stable"}

(***************************************************************************)
(* A frozen version plan.  num is build_number, seq the beta/rc sequence   *)
(* (0 for stable; the run and attempt for nightly), parent the run of the  *)
(* accepted RC of a final build (0 if there is none).                      *)
(***************************************************************************)
Plan == [num : Nat, base : Nat, channel : Channels \cup {"none"},
         seq : Nat, sha : Nat, parent : Nat]

NoPlan == [num |-> 0, base |-> 0, channel |-> "none", seq |-> 0, sha |-> 0,
           parent |-> 0]

\* The public tag that a plan fixes before anything is compiled.
Tag(p) == <<p.base, p.channel, p.seq>>

StableTag(b) == <<b, "stable", 0>>

Ledger == [file : BOOLEAN, counter : Nat, floor : Nat, plans : [Runs -> Plan]]

\* What read_state returns for a repository that never allocated a version.
FreshLedger == [file |-> FALSE, counter |-> 0, floor |-> 0,
                plans |-> [r \in Runs |-> NoPlan]]

Reserved(l) == {r \in Runs : l.plans[r].num > 0}

\* The file may be missing only together with its branch.
Readable(l, branch) == l.file \/ ~branch

(***************************************************************************)
(* The sequences a new beta or RC has to exceed: those of every tag and    *)
(* release of the base and channel that GitHub lists, and of every         *)
(* reservation, published or not.                                          *)
(***************************************************************************)
TakenSequences(l, names, base, channel) ==
    {0} \cup {t[3] : t \in {n \in names : n[1] = base /\ n[2] = channel}}
        \cup {l.plans[r].seq : r \in {q \in Reserved(l) :
                  l.plans[q].base = base /\ l.plans[q].channel = channel}}

Highest(n, S) == n \in S /\ \A m \in S : m <= n

NextNumber(l) == 1 + (IF l.counter > NumberFloor THEN l.counter ELSE NumberFloor)

\* The plan a run that holds no reservation asks for; last is the highest sequence.
NewPlan(l, last, r, attempt, base, channel, sha, parent) ==
    [num     |-> NextNumber(l),
     base    |-> base,
     channel |-> channel,
     seq     |-> CASE channel \in {"beta", "rc"} -> last + 1
                   [] channel = "nightly" -> 100 * r + attempt
                   [] OTHER -> 0,
     sha     |-> sha,
     parent  |-> parent]

\* A run may come back only for the identity it reserved.
SameIdentity(p, base, channel, sha, parent) ==
    /\ p.base = base /\ p.channel = channel
    /\ p.sha = sha /\ p.parent = parent

\* Mutant: the counter stays behind.
CounterKept(l, r, p) == [l EXCEPT !.file = TRUE, !.plans[r] = p]

WithPlan(l, r, p) ==
    [l EXCEPT !.file = TRUE, !.counter = p.num, !.plans[r] = p]

\* Mutant: the publication floor and newer publications are not looked at.
PlanHeld(l, p, r, published) == l.plans[r] = p

\* published is the set of tags whose release is not a draft.
VerifyReservation(l, p, r, published) ==
    /\ l.plans[r] = p
    /\ p.num > l.floor
    /\ \A q \in Reserved(l) :
          Tag(l.plans[q]) \in published => l.plans[q].num < p.num

VerifyPromotionOrder(l, p, published) ==
    /\ p.channel = "rc"
    /\ Cardinality({q \in Runs : l.plans[q] = p}) = 1
    /\ p.num >= l.floor
    /\ Tag(p) \in published
    /\ \A q \in Reserved(l) :
          /\ Tag(l.plans[q]) # Tag(p)
          /\ Tag(l.plans[q]) \in published
          => l.plans[q].num <= p.num

\* Mutant: nothing is spent.
ConsumeNothing(l, p) == l

\* The number is spent, whether or not the publication succeeds.
Consume(l, p) == [l EXCEPT !.floor = p.num]
=============================================================================
