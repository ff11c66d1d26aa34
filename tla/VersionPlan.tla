---------------------------- MODULE VersionPlan ----------------------------
(***************************************************************************)
(* The pure part of version_plan.py: what each declared version field must *)
(* hold under a frozen release plan, and what an edit of the owned fields  *)
(* makes of a file.  A plan is [base, channel, run, attempt, sequence,     *)
(* number, promotion]; a version is its base with a pre-release part.      *)
(***************************************************************************)
EXTENDS Naturals, Sequences, FiniteSetsExt

CONSTANT MaxComponent       \* the largest number a PEP 440 component holds (2^64 - 2)
ASSUME ComponentAssumption == MaxComponent \in Nat

AttemptLimit == 1000000     \* attempts fit below this in a PEP 440 nightly
AppleLimit   == 99990000    \* the last build number with an Apple form

Final(plan) == [base |-> plan.base, pre |-> "final", n |-> 0]

\* _identity(); the sequence of a nightly is its timestamp with run and attempt.
Full(plan) ==
  IF plan.channel = "stable" THEN Final(plan)
  ELSE [base |-> plan.base, n |-> plan.sequence,
        pre |-> [nightly |-> "-nightly.", beta |-> "-beta.", rc |-> "-rc."][plan.channel]]

NightlyNumber(run, attempt) == run * AttemptLimit + attempt

Pep440(plan) ==
  CASE plan.channel = "nightly" -> [base |-> plan.base, pre |-> ".dev",
                                    n |-> NightlyNumber(plan.run, plan.attempt)]
    [] plan.channel = "beta"    -> [base |-> plan.base, pre |-> "b", n |-> plan.sequence]
    [] plan.channel = "rc"      -> [base |-> plan.base, pre |-> "rc", n |-> plan.sequence]
    [] plan.channel = "stable"  -> Final(plan)

\* projections()["package"]: RC bytes that will be promoted already carry the base.
Package(plan, ecosystem) ==
  IF plan.channel = "rc" /\ plan.promotion = "promote-bytes"
  THEN Final(plan)
  ELSE IF ecosystem = "pep440" THEN Pep440(plan) ELSE Full(plan)

\* projections()["apple-build"]: CFBundleVersion components of at most two digits.
AppleBuild(number) ==
  <<(number - 1) \div 10000 + 1, ((number - 1) \div 100) % 100, (number - 1) % 100>>

\* projected_value().
ProjectedValue(plan, d) ==
  CASE d.value = "base"        -> Final(plan)
    [] d.value = "full"        -> Full(plan)
    [] d.value = "package"     -> Package(plan, d.ecosystem)
    [] d.value = "build"       -> <<plan.number>>
    [] d.value = "apple-build" -> AppleBuild(plan.number)

\* validate_plan(): every declared field has a value under the plan.
Projectable(plan, ds) ==
  \A i \in DOMAIN ds :
    /\ ds[i].value = "build" => plan.number > 0
    /\ ds[i].value = "apple-build" => plan.number \in 1 .. AppleLimit
    /\ ds[i].ecosystem = "pep440" /\ plan.channel = "nightly" =>
         plan.attempt < AttemptLimit /\ NightlyNumber(plan.run, plan.attempt) <= MaxComponent

Owned(ds, file, field) == {i \in DOMAIN ds : ds[i].path = file /\ ds[i].field = field}

\* The edits of sync_versions(), one declaration after the other; what is not
\* declared keeps its value.
Edited(content, file, ds, plan) ==
  [x \in DOMAIN content |-> IF Owned(ds, file, x) = {} THEN content[x]
                            ELSE ProjectedValue(plan, ds[Max(Owned(ds, file, x))])]

\* Overlapping selectors must agree: no declaration silently wins over another.
Agreed(ds, plan) ==
  \A i, j \in DOMAIN ds : ds[i].path = ds[j].path /\ ds[i].field = ds[j].field
                             => ProjectedValue(plan, ds[i]) = ProjectedValue(plan, ds[j])

\* source_policy(): build counters belong to packages, not to the sources.
SourceFields(ds) == SelectSeq(ds, LAMBDA d : d.value \notin {"build", "apple-build"})

BasePlan(plan) == [plan EXCEPT !.channel = "stable"]

\* check_base_versions(): the committed fields all hold the base.
HoldsBase(content, file, ds, plan) ==
  Edited(content, file, SourceFields(ds), BasePlan(plan)) = content
=============================================================================
