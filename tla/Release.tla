------------------------------ MODULE Release ------------------------------
(***************************************************************************)
(* The release pipeline: workflow runs that reserve a frozen version plan, *)
(* build, and publish one GitHub release, or promote an accepted release   *)
(* candidate unchanged (release_versioned.py, release_control.py,          *)
(* release_state.py).  An action is one phase of a run: its reads and at   *)
(* most one call that changes GitHub.  The guards are the conditions under *)
(* which the phase goes on; a require() that fails raises and ends the     *)
(* run, and so does a runner that dies, a call that fails or an answer     *)
(* that is lost: all of these are Abort(r), before or after the call.      *)
(* Only the answer to the release-create call has a recovery path.         *)
(***************************************************************************)
EXTENDS ReleaseLedger, Sequences

CONSTANTS
    BaseOf,         \* the base version committed at each commit
    TreeOf,         \* the .github/workflows tree at each commit
    ScopeVerified,  \* the token was probed for the workflow scope
    Kinds,          \* the <<event, channel>> pairs each run may start with
    Assets,         \* 1..n, the payloads of a release in upload order
    MaxJobs,        \* attempts, of all runs together
    MaxDeletes,     \* releases a maintainer deletes
    LooseRuns       \* runs created when the workflow is not serialized

ASSUME ReleaseAssumption ==
    /\ BaseOf \in [Commits -> Bases]
    /\ ScopeVerified \in BOOLEAN
    /\ Kinds \in [Runs -> SUBSET ({"push", "schedule", "workflow_dispatch"} \X Channels)]
    /\ Assets \subseteq Nat
    /\ MaxJobs \in 0 .. 99      \* NewPlan tells attempts apart below 100
    /\ MaxDeletes \in Nat /\ LooseRuns \in Nat

VARIABLES
    grouped,    \* the workflow's concurrency group holds: one run at a time
    promotion,  \* versioning.promotion of the policy
    head,       \* the default branch
    branch,     \* the ledger branch exists
    ledger,     \* the content of the ledger file
    tags,       \* the tags of the repository: [tag, sha]
    releases,   \* drafts and published releases
    run,        \* the workflow runs
    deletes,    \* releases deleted so far
    jobs,       \* attempts started so far
    shown       \* history: every publication, in order

config == <<grouped, promotion>>
vars == <<grouped, promotion, head, branch, ledger, tags, releases, run,
          deletes, jobs, shown>>

Idle == [pc |-> "none", event |-> "none", channel |-> "none", sha |-> 0,
         attempt |-> 0, plan |-> NoPlan, seen |-> FreshLedger, rc |-> 0, ref |-> 0,
         bytes |-> <<0, 0>>]

Ended == {"failed", "published", "superseded", "reused", "version_required"}
Waiting == {"none", "queued"} \cup Ended

\* Each attempt of a run creates at most one release and builds its own bytes.
Me(r) == <<r, run[r].attempt>>

Promoting(r) == run[r].channel = "stable" /\ promotion = "promote-bytes"

\* The tag this run publishes.
Target(r) == IF Promoting(r) THEN StableTag(run[r].plan.base) ELSE Tag(run[r].plan)

Mine(r) == {x \in releases : x.id = Me(r)}

HasTag(t) == \E x \in tags : x.tag = t

Published == {x.tag : x \in {y \in releases : ~y.draft}}
Names == {t.tag : t \in tags} \cup {x.tag : x \in releases}

\* ensure_absent: no tag, no published release and no draft of that name.
Absent(t) == t \notin Names

\* check_workflow_publication.
WorkflowsAllow(sha) == ScopeVerified \/ sha = head \/ TreeOf[sha] = TreeOf[head]

Automatic(r) == <<run[r].event, run[r].channel>> \in
                   {<<"push", "beta">>, <<"schedule", "nightly">>}

\* superseded_candidate: HEAD moved on, and ...
Behind(r) == Automatic(r) /\ head # run[r].sha

\* ... exactly one newer push run exists for the new HEAD.
Superseded(r) ==
    LET at == {q \in Runs : run[q].event = "push" /\ run[q].sha = head}
    IN Cardinality(at) = 1 /\ \A q \in at : q > r

\* validate_run(): a dispatched run that was completed, publication and all.
CompletedRun(q) == run[q].pc = "published" /\ run[q].event = "workflow_dispatch"

\* release_snapshot() against the evidence: public, every byte, the tag at its source.
Intact(x) ==
    /\ ~x.draft
    /\ \A a \in Assets : x.stored[a] = "good"
    /\ [tag |-> x.tag, sha |-> x.plan.sha] \in tags

\* verified_rc(): the release that run q published as a candidate.
AcceptedRC(r, q) ==
    {x \in releases : /\ q # r /\ CompletedRun(q)
                      /\ x.id = Me(q) /\ x.plan.channel = "rc" /\ x.tag = Tag(x.plan)
                      /\ Intact(x)}

Go(r, pc) == run' = [run EXCEPT ![r].pc = pc]

\* The job ends: what it held in memory is gone, what GitHub knows of it stays.
End(r, pc) ==
    run' = [run EXCEPT ![r] = [Idle EXCEPT !.pc = pc, !.event = run[r].event,
               !.channel = run[r].channel, !.sha = run[r].sha,
               !.attempt = run[r].attempt]]
KeepGitHub == UNCHANGED <<head, branch, ledger, tags, releases, deletes, jobs, shown, config>>
----------------------------------------------------------------------------
Init ==
    /\ grouped \in BOOLEAN
    /\ promotion \in {"promote-bytes", "final-build"}
    /\ head \in Commits /\ \A c \in Commits : head <= c
    /\ branch = FALSE
    /\ ledger = FreshLedger
    /\ tags = {} /\ releases = {}
    /\ run = [r \in Runs |-> Idle]
    /\ deletes = 0 /\ jobs = 0
    /\ shown = <<>>

\* Runs are numbered in the order GitHub creates them, at the HEAD of that time.
NextRun(r) ==
    /\ run[r].pc = "none"
    /\ \A q \in Runs : q < r => run[q].pc # "none"
    /\ grouped \/ r <= LooseRuns
    /\ jobs < MaxJobs

Created(r, event, channel, sha) ==
    /\ NextRun(r)
    /\ jobs' = jobs + 1
    /\ run' = [run EXCEPT ![r] = [Idle EXCEPT !.pc = "queued", !.event = event,
                                  !.channel = channel, !.sha = sha, !.attempt = 1]]

\* A merge moves the default branch, and its push starts a run unless skipped.
Push ==
    /\ \E c \in Commits : /\ c > head
                          /\ \A d \in Commits : d > head => c <= d
                          /\ head' = c
    /\ \/ UNCHANGED <<run, jobs>>
       \/ \E r \in Runs : /\ <<"push", "beta">> \in Kinds[r]
                          /\ Created(r, "push", "beta", head')
    /\ UNCHANGED <<branch, ledger, tags, releases, deletes, shown, config>>

\* A schedule fires or somebody dispatches the workflow.
Trigger(r) ==
    /\ \E k \in Kinds[r] : k[1] # "push" /\ Created(r, k[1], k[2], head)
    /\ UNCHANGED <<head, branch, ledger, tags, releases, deletes, shown, config>>

Rerun(r) ==
    /\ run[r].pc \in Ended
    /\ jobs < MaxJobs
    /\ jobs' = jobs + 1
    /\ run' = [run EXCEPT ![r].pc = "queued", ![r].attempt = @ + 1]
    /\ UNCHANGED <<head, branch, ledger, tags, releases, deletes, shown, config>>

\* The concurrency group admits one run at a time.
Start(r) ==
    /\ run[r].pc = "queued"
    /\ grouped => \A q \in Runs : run[q].pc \in Waiting
    /\ Go(r, "prepare")
    /\ KeepGitHub
----------------------------------------------------------------------------
\* prepare() for a stable run: the dispatcher names an accepted RC.
PrepareStable(r) ==
    /\ run[r].pc = "prepare" /\ run[r].channel = "stable"
    /\ \E q \in Runs : \E x \in AcceptedRC(r, q) :
          \/ /\ promotion = "promote-bytes"
             /\ run' = [run EXCEPT ![r].pc = "promote", ![r].rc = q]
          \/ /\ promotion = "final-build"
             /\ x.plan.sha = run[r].sha
             /\ Absent(StableTag(x.plan.base))
             /\ run' = [run EXCEPT ![r].pc = "reserve", ![r].rc = q]
    /\ KeepGitHub

\* prepare() for a candidate.  A push to a base that is already final is no error.
PrepareCandidate(r) ==
    LET base == BaseOf[run[r].sha] IN
    /\ run[r].pc = "prepare" /\ run[r].channel # "stable"
    /\ \/ /\ run[r].event = "push" /\ HasTag(StableTag(base))
          /\ End(r, "version_required")
       \/ /\ ~(run[r].event = "push" /\ HasTag(StableTag(base)))
          /\ run[r].channel = "nightly" \/ Absent(StableTag(base))
          /\ Go(r, "reserve")
    /\ KeepGitHub

\* reserve_plan() up to its writes: the reservation of this run, or a new plan.
ReadLedger(r) ==
    LET base  == BaseOf[run[r].sha]
        old   == ledger.plans[r]
        taken == TakenSequences(ledger, Names, base, run[r].channel)
    IN /\ run[r].pc = "reserve"
       /\ Readable(ledger, branch)
       /\ \/ /\ r \in Reserved(ledger)
             /\ SameIdentity(old, base, run[r].channel, run[r].sha, run[r].rc)
             /\ run' = [run EXCEPT ![r].pc = "validate", ![r].plan = old]
          \/ /\ r \notin Reserved(ledger)
             /\ \E last \in taken :
                   LET new == NewPlan(ledger, last, r, run[r].attempt, base,
                                      run[r].channel, run[r].sha, run[r].rc)
                   IN /\ Highest(last, taken)
                      /\ Absent(Tag(new))
                      /\ run' = [run EXCEPT ![r].pc = "write", ![r].plan = new,
                                            ![r].seen = ledger]
       /\ KeepGitHub

CreateBranch(r) ==
    /\ run[r].pc = "write" /\ ~branch
    /\ branch' = TRUE
    /\ UNCHANGED <<head, ledger, tags, releases, run, deletes, jobs, shown, config>>

\* Mutant: the last writer wins.
BlindWrite(r) == TRUE

\* write_state(): GitHub refuses the write unless the file is the one read.
CompareAndSwap(r) == ledger = run[r].seen

Reserve(r) ==
    /\ run[r].pc = "write" /\ branch
    /\ CompareAndSwap(r)
    /\ ledger' = WithPlan(run[r].seen, r, run[r].plan)
    /\ Go(r, "validate")
    /\ UNCHANGED <<head, branch, tags, releases, deletes, jobs, shown, config>>
----------------------------------------------------------------------------
\* What publish_versioned() asks of a final build's parent.
ParentHolds(r) ==
    run[r].rc # 0 => \E x \in AcceptedRC(r, run[r].rc) :
                        x.plan.sha = run[r].plan.sha /\ x.plan.base = run[r].plan.base

\* publish_versioned(), after the build and before staging.
Validate(r) ==
    LET p == run[r].plan IN
    /\ run[r].pc = "validate"
    /\ ParentHolds(r)
    /\ Readable(ledger, branch)
    /\ VerifyReservation(ledger, p, r, Published)
    /\ Absent(Tag(p))
    /\ p.channel \in {"beta", "rc"} => Absent(StableTag(p.base))
    /\ \/ Behind(r) /\ Superseded(r) /\ End(r, "superseded")
       \/ ~Behind(r) /\ run' = [run EXCEPT ![r].pc = "recheck", ![r].bytes = Me(r)]
    /\ KeepGitHub

\* scheduled_reuse: a completed publication of the same source and base.
Reusable(r) ==
    {x \in releases : LET q == x.build[1] IN
        /\ ~x.draft
        /\ run[q].pc = "published" /\ run[q].attempt = x.build[2]
        /\ x.plan.sha = run[r].sha /\ x.plan.base = run[r].plan.base
        /\ x.plan.channel \in {"beta", "rc", "stable"}
        /\ [tag |-> x.tag, sha |-> x.plan.sha] \in tags}

MayReuse(r) == run[r].event = "schedule" /\ head = run[r].sha /\ Reusable(r) # {}

\* The staged bytes are verified; recheck just before the first public mutation.
Recheck(r) ==
    /\ run[r].pc = "recheck"
    /\ VerifyReservation(ledger, run[r].plan, r, Published)
    /\ \/ Behind(r) /\ Superseded(r) /\ End(r, "superseded")
       \/ /\ ~Behind(r) /\ WorkflowsAllow(run[r].plan.sha)
          /\ \/ MayReuse(r) /\ End(r, "reused")
             \/ ~MayReuse(r) /\ run' = [run EXCEPT ![r].pc = "begin", ![r].ref = head]
    /\ KeepGitHub

\* promote(): the accepted RC and the order of numbers, before staging its bytes ...
Promote(r) ==
    /\ run[r].pc = "promote"
    /\ \E x \in AcceptedRC(r, run[r].rc) :
          /\ Readable(ledger, branch)
          /\ VerifyPromotionOrder(ledger, x.plan, Published)
          /\ Absent(StableTag(x.plan.base))
          /\ WorkflowsAllow(x.plan.sha)
          /\ run' = [run EXCEPT ![r].pc = "repromote", ![r].plan = x.plan,
                                ![r].bytes = x.build]
    /\ KeepGitHub

\* ... and again when they are staged: the RC must not have changed meanwhile.
Repromote(r) ==
    /\ run[r].pc = "repromote"
    /\ \E x \in AcceptedRC(r, run[r].rc) : x.plan = run[r].plan
    /\ WorkflowsAllow(run[r].plan.sha)
    /\ VerifyPromotionOrder(ledger, run[r].plan, Published)
    /\ Go(r, "begin")
    /\ KeepGitHub
----------------------------------------------------------------------------
\* begin_publication(): the last look at the ledger and the releases.
BeginPublication(r) ==
    /\ run[r].pc = "begin"
    /\ Readable(ledger, branch)
    /\ IF Promoting(r)
       THEN VerifyPromotionOrder(ledger, run[r].plan, Published)
       ELSE VerifyReservation(ledger, run[r].plan, r, Published)
    /\ run' = [run EXCEPT ![r].pc = "consume", ![r].seen = ledger]
    /\ KeepGitHub

\* The compare-and-swap that spends the number.
ConsumeNumber(r) ==
    /\ run[r].pc = "consume"
    /\ CompareAndSwap(r)
    /\ ledger' = Consume(run[r].seen, run[r].plan)
    /\ run' = [run EXCEPT ![r].pc = "tag", ![r].seen = ledger']
    /\ UNCHANGED <<head, branch, tags, releases, deletes, jobs, shown, config>>

\* _publish_prepared(): the first public mutation.
CreateTag(r) ==
    /\ run[r].pc = "tag"
    /\ Absent(Target(r)) /\ WorkflowsAllow(run[r].plan.sha)
    /\ tags' = tags \cup {[tag |-> Target(r), sha |-> run[r].plan.sha]}
    /\ Go(r, "draft")
    /\ UNCHANGED <<head, branch, ledger, releases, deletes, jobs, shown, config>>

Draft(r) == [id |-> Me(r), tag |-> Target(r), plan |-> run[r].plan,
             build |-> run[r].bytes, stored |-> [a \in Assets |-> "none"],
             draft |-> TRUE]

\* create_release_once(): the POST is never replayed.  When the answer is lost a
\* versioned publication looks for its own draft; a promotion gives up.
CreateDraft(r) ==
    /\ run[r].pc = "draft"
    /\ \/ /\ releases' = releases \cup {Draft(r)}
          /\ Go(r, "upload")
       \/ /\ ~Promoting(r)
          /\ releases' \in {releases, releases \cup {Draft(r)}}
          /\ Go(r, "reconcile")
    /\ UNCHANGED <<head, branch, ledger, tags, deletes, jobs, shown, config>>

\* _reconcile_created_release() with create_confirmation().
Reconcile(r) ==
    /\ run[r].pc = "reconcile"
    /\ head = run[r].ref
    /\ ledger = run[r].seen
    /\ {x \in releases : x.tag = Target(r)} = {Draft(r)}
    /\ [tag |-> Target(r), sha |-> run[r].plan.sha] \in tags
    /\ Go(r, "upload")
    /\ KeepGitHub

\* upload(): the response confirms name and size, not the bytes that were stored.
Upload(r) ==
    /\ run[r].pc = "upload"
    /\ \E x \in Mine(r) : \E a \in Assets : \E s \in {"good", "bad"} :
          /\ x.stored[a] = "none"
          /\ \A b \in Assets : b < a => x.stored[b] # "none"
          /\ releases' = (releases \ {x}) \cup {[x EXCEPT !.stored[a] = s]}
    /\ UNCHANGED <<head, branch, ledger, tags, run, deletes, jobs, shown, config>>

\* Mutant: a complete inventory is enough.
UploadUnread(r) ==
    /\ run[r].pc = "upload"
    /\ \E x \in Mine(r) : \A a \in Assets : x.stored[a] # "none"
    /\ Go(r, "patch")
    /\ KeepGitHub

\* The inventory is complete: download every byte, look at the tag, and for an
\* automatic release at HEAD (confirm_publish).
VerifyUpload(r) ==
    /\ run[r].pc = "upload"
    /\ \E x \in Mine(r) : \A a \in Assets : x.stored[a] = "good"
    /\ [tag |-> Target(r), sha |-> run[r].plan.sha] \in tags
    /\ Automatic(r) => head = run[r].ref
    /\ Go(r, "patch")
    /\ KeepGitHub

Entry(x) == [tag |-> x.tag, num |-> x.plan.num, build |-> x.build]

MakePublic(r) ==
    /\ run[r].pc = "patch"
    /\ \E x \in Mine(r) :
          /\ releases' = (releases \ {x}) \cup {[x EXCEPT !.draft = FALSE]}
          /\ shown' = Append(shown, Entry(x))
    /\ Go(r, "patched")
    /\ UNCHANGED <<head, branch, ledger, tags, deletes, jobs, config>>

\* The workflow stores the manifest as immutable evidence and completes.
Finish(r) ==
    /\ run[r].pc = "patched"
    /\ End(r, "published")
    /\ KeepGitHub

Abort(r) ==
    /\ run[r].pc \notin Waiting
    /\ End(r, "failed")
    /\ KeepGitHub

\* A maintainer deletes a release or draft, with or without its tag.
DeleteRelease ==
    /\ deletes < MaxDeletes
    /\ deletes' = deletes + 1
    /\ \E x \in releases :
          /\ releases' = releases \ {x}
          /\ tags' \in {tags, {t \in tags : t.tag # x.tag}}
    /\ UNCHANGED <<head, branch, ledger, run, jobs, shown, config>>

Publishing(r) ==
    \/ BeginPublication(r) \/ ConsumeNumber(r) \/ CreateTag(r) \/ CreateDraft(r)
    \/ Reconcile(r) \/ Upload(r) \/ VerifyUpload(r) \/ MakePublic(r) \/ Finish(r)

Step(r) ==
    \/ PrepareStable(r) \/ PrepareCandidate(r) \/ ReadLedger(r) \/ CreateBranch(r)
    \/ Reserve(r) \/ Validate(r) \/ Recheck(r) \/ Promote(r) \/ Repromote(r)
    \/ Publishing(r)

Next ==
    \/ Push \/ DeleteRelease
    \/ \E r \in Runs : Trigger(r) \/ Rerun(r) \/ Start(r) \/ Step(r) \/ Abort(r)

Spec == Init /\ [][Next]_vars
----------------------------------------------------------------------------
\* The phases after a reservation, while the run holds a compiled plan.
Compiled == {"validate", "recheck", "begin", "consume", "tag", "draft", "reconcile",
             "upload", "patch", "patched"}

TagName == Nat \X (Channels \cup {"none"}) \X Nat

GitHubRelease == [id : Nat \X Nat, tag : TagName, plan : Plan, build : Nat \X Nat,
                  stored : [Assets -> {"none", "good", "bad"}], draft : BOOLEAN]

Phases == Waiting \cup Compiled \cup {"prepare", "reserve", "write", "promote", "repromote"}

Events == {"none", "push", "schedule", "workflow_dispatch"}

WorkflowRun == [pc : Phases, event : Events, channel : Channels \cup {"none"}, sha : Nat,
                attempt : Nat, plan : Plan, seen : Ledger, rc : Nat, ref : Nat,
                bytes : Nat \X Nat]

(***************************************************************************)
(* The shape of the state (release_state.py _Ledger, and what GitHub holds *)
(* for the pipeline).                                                      *)
(***************************************************************************)
TypeOK ==
    /\ grouped \in BOOLEAN
    /\ promotion \in {"promote-bytes", "final-build"}
    /\ head \in Commits
    /\ branch \in BOOLEAN
    /\ ledger \in Ledger
    /\ tags \subseteq [tag : TagName, sha : Nat]
    /\ releases \subseteq GitHubRelease
    /\ run \in [Runs -> WorkflowRun]
    /\ deletes \in Nat /\ jobs \in 0 .. MaxJobs

(***************************************************************************)
(* Conflicts fail; they never silently rename a compiled candidate: no two *)
(* runs ever hold the same build number, or the same tag but for two final *)
(* builds of one base, and a run that has built keeps exactly the plan the *)
(* ledger holds for it (reserve_plan, write_state).                        *)
(***************************************************************************)
NumbersNeverShared ==
    /\ \A r, q \in Reserved(ledger) : r # q =>
          /\ ledger.plans[r].num # ledger.plans[q].num
          /\ Tag(ledger.plans[r]) = Tag(ledger.plans[q])
                => ledger.plans[r].channel = "stable"
    /\ \A r \in Runs : run[r].pc \in Compiled /\ ~Promoting(r)
          => run[r].plan = ledger.plans[r]

(***************************************************************************)
(* The number is spent before the first public mutation: every release or  *)
(* draft, and every tag of a reserved candidate, has a number that the     *)
(* publication floor already covers, and the floor never passes the        *)
(* counter (begin_publication before _publish_prepared).                   *)
(***************************************************************************)
FloorCoversPublic ==
    /\ ledger.floor <= ledger.counter
    /\ \A x \in releases : x.plan.num <= ledger.floor
    /\ \A r \in Reserved(ledger) :
          ledger.plans[r].channel # "stable" /\ HasTag(Tag(ledger.plans[r]))
          => ledger.plans[r].num <= ledger.floor

(***************************************************************************)
(* What users can download is whole: every asset was read back, the tag    *)
(* names the source of the plan, and a promoted release carries the very   *)
(* bytes of an RC that was published before (_publish_prepared, promote).  *)
(***************************************************************************)
PublishedIsWhole ==
    \A x \in releases : ~x.draft =>
        /\ \A a \in Assets : x.stored[a] = "good"
        /\ [tag |-> x.tag, sha |-> x.plan.sha] \in tags
        /\ x.tag # Tag(x.plan) =>
              \E i \in DOMAIN shown : shown[i] = [Entry(x) EXCEPT !.tag = Tag(x.plan)]

(***************************************************************************)
(* Reservations are durable: what a run once reserved is never changed or  *)
(* given to another, so a rerun builds the same plan (reserve_plan).       *)
(***************************************************************************)
PlansAreForever ==
    [][\A r \in Reserved(ledger) : ledger'.plans[r] = ledger.plans[r]]_vars

Log == INSTANCE PublicationLog
       WITH log <- shown, public <- Published, spent <- ledger.floor, serial <- grouped

(***************************************************************************)
(* The pipeline implements the publication log: numbers are spent upwards, *)
(* nothing public is replaced, and in a serialized workflow no older build *)
(* and no candidate of a final base appears later, whatever was deleted    *)
(* and wherever runs died or were repeated (publish_versioned, promote).   *)
(***************************************************************************)
ImplementsLog == Log!LogSpec

----------------------------------------------------------------------------
(***************************************************************************)
(* The inductive strengthening of the first three properties.              *)
(***************************************************************************)
\* Reserved numbers are distinct and counted; a nightly's tag names its run.
LedgerSound ==
    /\ ledger.floor <= ledger.counter
    /\ \A q \in Reserved(ledger) : LET p == ledger.plans[q] IN
          /\ p.num <= ledger.counter
          /\ p.channel = "nightly" => 100 * q <= p.seq /\ p.seq < 100 * q + 100
    /\ \A r, q \in Reserved(ledger) : r # q =>
          /\ ledger.plans[r].num # ledger.plans[q].num
          /\ Tag(ledger.plans[r]) = Tag(ledger.plans[q])
                => ledger.plans[r].channel = "stable"

\* Whatever is public was reserved, and its number spent.
PublicSound ==
    /\ \A x \in releases : x.plan.num <= ledger.floor
    /\ \A t \in tags : t.tag[2] # "stable" =>
          \E q \in Reserved(ledger) :
             Tag(ledger.plans[q]) = t.tag /\ ledger.plans[q].num <= ledger.floor

\* A plan about to be written is new to the ledger it was made from.
NewToLedger(l, r, p) ==
    /\ r \notin Reserved(l)
    /\ p.num = NextNumber(l)
    /\ p.channel = "nightly" => 100 * r <= p.seq /\ p.seq < 100 * r + 100
    /\ \A q \in Reserved(l) : Tag(l.plans[q]) = Tag(p) => p.channel = "stable"

\* The phases after the number was spent.
Spent == {"tag", "draft", "reconcile", "upload", "patch", "patched"}

\* What a run knows in each phase stays true while others run.
RunSound(r) ==
    /\ run[r].attempt <= jobs
    /\ run[r].pc # "none" => run[r].sha \in Commits /\ run[r].channel \in Channels
    /\ run[r].pc \in {"promote", "repromote"} => Promoting(r)
    /\ run[r].pc \in {"reserve", "write", "validate", "recheck"} => ~Promoting(r)
    /\ run[r].pc = "write" => NewToLedger(run[r].seen, r, run[r].plan)
    /\ run[r].pc \in Compiled /\ ~Promoting(r) =>
          r \in Reserved(ledger) /\ run[r].plan = ledger.plans[r]
    /\ run[r].pc \in Compiled \cup {"repromote"} /\ Promoting(r) =>
          run[r].plan.num <= ledger.floor
    /\ run[r].pc = "consume" => run[r].seen.floor <= run[r].plan.num
    /\ run[r].pc \in Spent => run[r].plan.num <= ledger.floor

Inv == TypeOK /\ LedgerSound /\ PublicSound /\ \A r \in Runs : RunSound(r)
----------------------------------------------------------------------------
(***************************************************************************)
(* The strengthening of PublishedIsWhole and of the refinement: whose a    *)
(* release is, and what the history of publications says about it.         *)
(***************************************************************************)
\* The phases in which the run's own release may exist.
Drafted == {"reconcile", "upload", "patch", "patched"}

\* Names and identities are given once, and a release keeps its tag.
NamesUnique ==
    /\ \A x, y \in releases : x.tag = y.tag \/ x.id = y.id => x = y
    /\ \A x \in releases : [tag |-> x.tag, sha |-> x.plan.sha] \in tags
    /\ \A r, q \in Runs : run[r].pc = "draft" /\ run[q].pc = "draft" /\ r # q
                          => Target(r) # Target(q)

\* What a run knows of the tag and the release it makes.
OwnSound(r) ==
    /\ run[r].pc = "none" => run[r].attempt = 0
    /\ \A x \in releases : x.id[1] = r => x.id[2] <= run[r].attempt
    /\ run[r].pc \notin Drafted \cup Ended => Mine(r) = {}
    /\ run[r].pc = "draft" =>
          /\ [tag |-> Target(r), sha |-> run[r].plan.sha] \in tags
          /\ \A x \in releases : x.tag # Target(r)
    /\ run[r].pc \in Drafted => \A x \in Mine(r) :
          /\ x.tag = Target(r) /\ x.plan = run[r].plan /\ x.build = run[r].bytes
          /\ run[r].pc # "patched" => x.draft
          /\ run[r].pc = "patch" => \A a \in Assets : x.stored[a] = "good"

OwnInv == NamesUnique /\ \A r \in Runs : OwnSound(r)

InLog(tag, num, build) ==
    \E i \in DOMAIN shown : shown[i] = [tag |-> tag, num |-> num, build |-> build]

\* The history covers everything public, and a number names one build.
LogSound ==
    /\ shown \in Seq([tag : TagName, num : Nat, build : Nat \X Nat])
    /\ \A i \in DOMAIN shown : shown[i].num <= ledger.floor
    /\ \A i, j \in DOMAIN shown : shown[i].num = shown[j].num => shown[i].build = shown[j].build
    /\ \A x \in releases :
          /\ ~x.draft => /\ InLog(x.tag, x.plan.num, x.build)
                         /\ \A a \in Assets : x.stored[a] = "good"
          /\ x.tag # Tag(x.plan) => InLog(Tag(x.plan), x.plan.num, x.build)

\* The concurrency group admits one run at a time.
Serialized ==
    grouped => \A r, q \in Runs : r # q => run[r].pc \in Waiting \/ run[q].pc \in Waiting

\* What a run knows of the history: a promotion was shown as a candidate, a fresh
\* number was not, and no other run publishes meanwhile when runs are serialized.
HistorySound(r) ==
    LET p == run[r].plan IN
    /\ run[r].pc \in Compiled \cup {"repromote"} /\ Promoting(r) =>
          InLog(Tag(p), p.num, run[r].bytes)
    /\ run[r].pc = "consume" /\ ~Promoting(r) => run[r].seen.floor < p.num
    /\ run[r].pc \in Spent \ {"patched"} /\ ~Promoting(r) =>
          \A i \in DOMAIN shown : shown[i].num # p.num
    /\ grouped /\ run[r].pc \in Spent => ledger.floor = p.num
    /\ grouped /\ run[r].pc \in Compiled \ {"validate", "patched"} /\ ~Promoting(r)
          /\ p.channel \in {"beta", "rc"} => StableTag(p.base) \notin Published

LogInv == LogSound /\ Serialized /\ \A r \in Runs : HistorySound(r)
=============================================================================
