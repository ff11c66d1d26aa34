---------------------------- MODULE VersionSync ----------------------------
(***************************************************************************)
(* sync_versions() and the `sync' command of version_plan.py: the declared *)
(* version fields of a checkout are set from a frozen plan.  All edits are *)
(* computed first, then every file is replaced on its own, so a process    *)
(* that dies leaves some files edited and some not; nothing rolls back,    *)
(* and the next attempt starts from what it finds.  Meanwhile a developer  *)
(* may edit other fields of the same files.                                *)
(***************************************************************************)
EXTENDS VersionPlan

CONSTANTS
  Files,       \* the version inputs of the checkout
  Policies,    \* sequences of declarations [path, field, value, ecosystem]
  Plans,       \* frozen plans for this source commit
  NoPlan,
  BaseVersion, \* the base version of the commit
  MaxEdits,    \* edits by the developer
  MaxDeaths    \* processes that die

Fields == {"version", "build", "other"}

\* The declarations name version inputs, and fields that hold a version.
ASSUME PolicyAssumption ==
  /\ \A ds \in Policies : /\ Len(ds) \in Nat /\ DOMAIN ds = 1 .. Len(ds)
                          /\ \A i \in DOMAIN ds : ds[i].path \in Files /\ ds[i].field \in Fields \ {"other"}
  /\ MaxEdits \in Nat

\* The committed files: the base in every version field.
Committed ==
  [version |-> [base |-> BaseVersion, pre |-> "final", n |-> 0], build |-> <<0>>, other |-> 0]

VARIABLES
  policy,    \* versioning.files
  disk,      \* the content of each file in the checkout
  sync,      \* the running command
  evidence,  \* the plan of .release-inputs.json, if there is one
  tried,     \* history: the plan of the last command that began
  edits,     \* history: the last edit of the `other' field of each file
  raced,     \* history: files edited between the last check and the replacement
  deaths

syncVars == <<policy, disk, sync, evidence, tried, edits, raced, deaths>>

NoSync == [pc |-> "idle", plan |-> NoPlan, original |-> <<>>, todo |-> {}, checked |-> {}]

SyncInit ==
  /\ policy \in Policies
  /\ disk = [f \in Files |-> Committed]
  /\ sync = NoSync
  /\ evidence = NoPlan /\ tried = NoPlan
  /\ edits = [f \in Files |-> 0]
  /\ raced = {}
  /\ deaths = 0

Expected(f, plan) == Edited(Committed, f, policy, plan)

\* Mutants: any content of a version input will do; only the committed one does.
AcceptAny(plan) == TRUE
OnlyCommitted(plan) == disk = [f \in Files |-> Committed]

\* verify_checkout(): each file is as committed or as this plan leaves it,
\* and the committed fields hold the base of the plan.
VerifyCheckout(plan) ==
  \A f \in Files : /\ HoldsBase(Committed, f, policy, plan)
                    /\ disk[f] \in {Committed, Expected(f, plan)}

\* validate_plan and verify_checkout.
Begin(plan) ==
  /\ sync.pc = "idle"
  /\ Projectable(plan, policy)
  /\ VerifyCheckout(plan)
  /\ sync' = [NoSync EXCEPT !.pc = "read", !.plan = plan]
  /\ tried' = plan
  /\ UNCHANGED <<policy, disk, evidence, edits, raced, deaths>>

\* sync_versions reads the files anew and computes all edits.
ReadInputs ==
  /\ sync.pc = "read"
  /\ Agreed(policy, sync.plan)
  /\ sync' = [sync EXCEPT !.pc = "recheck", !.original = disk]
  /\ UNCHANGED <<policy, disk, evidence, tried, edits, raced, deaths>>

New(f) == Edited(sync.original[f], f, policy, sync.plan)

\* _apply_version_edits: nothing changed since the reads; the new contents are
\* staged next to their files.
RecheckInputs ==
  /\ sync.pc = "recheck"
  /\ disk = sync.original
  /\ sync' = [sync EXCEPT !.pc = "replace", !.todo = {f \in Files : New(f) # sync.original[f]}]
  /\ UNCHANGED <<policy, disk, evidence, tried, edits, raced, deaths>>

InputUnchanged(f) == disk[f] = sync.original[f]

CheckInput(f) ==
  /\ sync.pc = "replace" /\ sync.checked = {} /\ f \in sync.todo
  /\ InputUnchanged(f)
  /\ sync' = [sync EXCEPT !.checked = {f}]
  /\ UNCHANGED <<policy, disk, evidence, tried, edits, raced, deaths>>

\* os.replace().
Replace(f) ==
  /\ f \in sync.checked
  /\ disk' = [disk EXCEPT ![f] = New(f)]
  /\ sync' = [sync EXCEPT !.checked = {}, !.todo = @ \ {f}]
  /\ UNCHANGED <<policy, evidence, tried, edits, raced, deaths>>

\* _write_input_evidence.
WriteEvidence ==
  /\ sync.pc = "replace" /\ sync.todo = {}
  /\ evidence' = sync.plan
  /\ sync' = NoSync
  /\ UNCHANGED <<policy, disk, tried, edits, raced, deaths>>

\* A test fails and the command ends; what was replaced stays.
Refuse ==
  /\ \/ sync.pc = "read" /\ ~Agreed(policy, sync.plan)
     \/ sync.pc = "recheck" /\ disk # sync.original
     \/ sync.checked = {} /\ \E f \in sync.todo : ~InputUnchanged(f)
  /\ sync' = NoSync
  /\ UNCHANGED <<policy, disk, evidence, tried, edits, raced, deaths>>

Die ==
  /\ sync.pc # "idle" /\ deaths < MaxDeaths
  /\ deaths' = deaths + 1
  /\ sync' = NoSync
  /\ UNCHANGED <<policy, disk, evidence, tried, edits, raced>>

DeveloperEdits(f) ==
  /\ edits[f] < MaxEdits
  /\ edits' = [edits EXCEPT ![f] = @ + 1]
  /\ disk' = [disk EXCEPT ![f].other = edits'[f]]
  /\ raced' = raced \cup ({f} \cap sync.checked)
  /\ UNCHANGED <<policy, sync, evidence, tried, deaths>>

\* A command under way.
SyncRuns ==
  \/ ReadInputs \/ RecheckInputs \/ WriteEvidence \/ Refuse
  \/ \E f \in Files : CheckInput(f) \/ Replace(f)

SyncNext ==
  \/ \E plan \in Plans : Begin(plan)
  \/ SyncRuns \/ Die
  \/ \E f \in Files : DeveloperEdits(f)

SyncSpec == SyncInit /\ [][SyncNext]_syncVars
-----------------------------------------------------------------------------
(***************************************************************************)
(* "All file edits are prepared and checked before the first write,        *)
(* preserve unrelated fields": a developer's edit of another field is      *)
(* never undone, except one made after the last comparison and before the  *)
(* replacement; and input evidence of the plan tried last means that every *)
(* declared field of every file holds what that plan projects, whichever   *)
(* commands died halfway before (sync_versions, _apply_version_edits,      *)
(* verify_checkout).  Evidence of an earlier plan may be stale.            *)
(***************************************************************************)
InputsKeepAndAgree ==
  /\ \A f \in Files : f \notin raced => disk[f].other = edits[f]
  /\ evidence # NoPlan /\ evidence = tried => \A i \in DOMAIN policy :
       disk[policy[i].path][policy[i].field] = ProjectedValue(evidence, policy[i])

(***************************************************************************)
(* A death halfway is not fatal: as long as nobody edits the files, some   *)
(* plan is brought to its end, for no state a dead process leaves behind   *)
(* is refused under every plan (verify_checkout takes each file as         *)
(* committed or as expected).                                              *)
(***************************************************************************)
SyncCompletes ==
  <>(evidence # NoPlan \/ (\E f \in Files : edits[f] # 0)
       \/ \A plan \in Plans : ~(Projectable(plan, policy) /\ Agreed(policy, plan)))
-----------------------------------------------------------------------------
(* The inductive strengthening of InputsKeepAndAgree.                      *)

\* A version of every input, each with all its fields.
WholeInputs(d) ==
  /\ d = [f \in Files |-> d[f]]
  /\ \A f \in Files : d[f] = [x \in Fields |-> d[f][x]]

\* The declared fields of a file are as the plan projects them, or as committed.
SetBy(f, content, plan) == Edited(content, f, policy, plan) = content
AsCommitted(f, content) ==
  \A x \in Fields : Owned(policy, f, x) # {} => content[x] = Committed[x]

SyncTypeOK ==
  /\ policy \in Policies
  /\ WholeInputs(disk)
  /\ sync \in [pc : {"idle", "read", "recheck", "replace"}, plan : Plans \cup {NoPlan},
               original : {sync.original}, todo : SUBSET Files, checked : SUBSET Files]
  /\ evidence \in Plans \cup {NoPlan} /\ tried \in Plans \cup {NoPlan}
  /\ edits \in [Files -> 0 .. MaxEdits] /\ raced \subseteq Files

\* What was compared last holds the developer's edits.
EditsKept ==
  \A f \in Files : f \notin raced =>
    /\ disk[f].other = edits[f]
    /\ f \in sync.checked => sync.original[f].other = edits[f]

\* The running command knows every file to be as committed or as its plan leaves it,
\* when it looked and ever since, and replaces only files that are not yet so.
CommandSound ==
  /\ sync.pc # "idle" =>
       /\ tried = sync.plan
       /\ \A f \in Files : AsCommitted(f, disk[f]) \/ SetBy(f, disk[f], sync.plan)
  /\ sync.pc \in {"recheck", "replace"} =>
       /\ Agreed(policy, sync.plan) /\ WholeInputs(sync.original)
       /\ \A f \in Files : AsCommitted(f, sync.original[f]) \/ SetBy(f, sync.original[f], sync.plan)
  /\ sync.pc = "replace" =>
       /\ sync.checked \subseteq sync.todo
       /\ \A f \in Files : IF f \in sync.todo THEN ~SetBy(f, sync.original[f], sync.plan)
                                             ELSE SetBy(f, disk[f], sync.plan)
  /\ sync.pc # "replace" => sync.todo = {} /\ sync.checked = {}

\* A file that looks as committed agrees with the evidence anyway, so that taking up
\* the same plan again cannot meet a file the evidence is wrong about.
EvidenceSound ==
  evidence # NoPlan =>
    /\ Agreed(policy, evidence)
    /\ \A f \in Files : AsCommitted(f, disk[f]) => SetBy(f, disk[f], evidence)
    /\ evidence = tried => \A f \in Files : SetBy(f, disk[f], evidence)

SyncInv == SyncTypeOK /\ EditsKept /\ CommandSound /\ EvidenceSound
=============================================================================
