---------------------------- MODULE ReleaseProofs ----------------------------
(* The version ledger under racing, dying and repeated runs, for any number *)
(* of runs, commits, bases, assets and attempts.                            *)
EXTENDS Release, TLAPS

USE LedgerAssumption, ReleaseAssumption

-----------------------------------------------------------------------------
\* Only run r moves.
Others(r) == \A q \in Runs : q # r => run'[q] = run[q]

\* What every run keeps of its creation.
SameOrigin(r) ==
    /\ run'[r].sha = run[r].sha /\ run'[r].channel = run[r].channel
    /\ run'[r].attempt = run[r].attempt

\* The constants of the ledger have their types.
LEMMA LedgerTypes == NoPlan \in Plan /\ FreshLedger \in Ledger
<1>1. NoPlan \in Plan
  BY DEF NoPlan, Plan, Channels
<1> QED
  BY <1>1 DEF FreshLedger, Ledger

\* A change of phase changes nothing else.
LEMMA GoMoves ==
  ASSUME run \in [Runs -> WorkflowRun], NEW r \in Runs, NEW pc \in Phases, Go(r, pc)
  PROVE  /\ run' \in [Runs -> WorkflowRun] /\ Others(r) /\ SameOrigin(r)
         /\ run'[r].pc = pc /\ run'[r].plan = run[r].plan /\ run'[r].seen = run[r].seen
<1>1. run[r] \in WorkflowRun
  OBVIOUS
<1>2. run' = [run EXCEPT ![r] = [run[r] EXCEPT !.pc = pc]]
  BY DEF Go
<1>3. [run[r] EXCEPT !.pc = pc] \in WorkflowRun
  BY <1>1 DEF WorkflowRun
<1>4. run'[r] = [run[r] EXCEPT !.pc = pc]
  BY <1>2
<1> QED
  BY <1>1, <1>2, <1>3, <1>4 DEF Others, SameOrigin, WorkflowRun

\* A job that ends keeps what GitHub knows of it.
LEMMA EndMoves ==
  ASSUME run \in [Runs -> WorkflowRun], NEW r \in Runs, NEW pc \in Phases, End(r, pc)
  PROVE  /\ run' \in [Runs -> WorkflowRun] /\ Others(r) /\ SameOrigin(r)
         /\ run'[r].pc = pc
<1>1. run[r] \in WorkflowRun
  OBVIOUS
<1> DEFINE new == [Idle EXCEPT !.pc = pc, !.event = run[r].event, !.channel = run[r].channel,
                               !.sha = run[r].sha, !.attempt = run[r].attempt]
<1>2. run' = [run EXCEPT ![r] = new]
  BY DEF End
<1>3. new \in WorkflowRun /\ new.pc = pc /\ new.channel = run[r].channel /\ new.sha = run[r].sha
      /\ new.attempt = run[r].attempt
  BY <1>1, LedgerTypes DEF WorkflowRun, Idle, Phases, Waiting, Events
<1> QED
  BY <1>2, <1>3 DEF Others, SameOrigin

-----------------------------------------------------------------------------
\* The ledger only grows: reservations stay, the floor and the counter go up.
Grows ==
    /\ ledger.floor <= ledger'.floor /\ ledger.counter <= ledger'.counter
    /\ \A q \in Reserved(ledger) : q \in Reserved(ledger') /\ ledger'.plans[q] = ledger.plans[q]

\* What a run that does not move knows stays true.
LEMMA StandsStill ==
  ASSUME TypeOK, TypeOK', Grows, NEW q \in Runs, RunSound(q), run'[q] = run[q],
         promotion' = promotion, jobs <= jobs'
  PROVE  RunSound(q)'
<1>1. run[q] \in WorkflowRun /\ ledger \in Ledger /\ ledger' \in Ledger /\ jobs \in Nat /\ jobs' \in Nat
  BY DEF TypeOK
<1>2. /\ run[q].plan.num \in Nat /\ run[q].attempt \in Nat
      /\ ledger.floor \in Nat /\ ledger'.floor \in Nat
  BY <1>1 DEF WorkflowRun, Plan, Ledger
<1>3. Promoting(q)' = Promoting(q)
  BY DEF Promoting
<1> QED
  BY <1>1, <1>2, <1>3 DEF RunSound, Grows

\* When one run moves and the ledger grows, only that run has to be looked at.
LEMMA OneMoves ==
  ASSUME Inv, TypeOK', Grows, promotion' = promotion, jobs <= jobs',
         NEW r \in Runs, Others(r), RunSound(r)'
  PROVE  \A q \in Runs : RunSound(q)'
<1> TAKE q \in Runs
<1>1. CASE q = r
  BY <1>1
<1>2. CASE q # r
  <2>1. run'[q] = run[q] /\ RunSound(q) /\ TypeOK
    BY <1>2 DEF Others, Inv
  <2> QED
    BY <2>1, StandsStill
<1> QED
  BY <1>1, <1>2

\* A ledger that stays the same grows.
LEMMA SameGrows == ASSUME TypeOK, ledger' = ledger PROVE Grows
  BY DEF TypeOK, Ledger, Grows

\* A step of one run that leaves GitHub alone has to be looked at for that run only.
LEMMA QuietStep ==
  ASSUME Inv, NEW r \in Runs, KeepGitHub, run' \in [Runs -> WorkflowRun], Others(r), RunSound(r)'
  PROVE  Inv'
<1>1. UNCHANGED <<head, branch, ledger, tags, releases, deletes, jobs, grouped, promotion>>
  BY DEF KeepGitHub, config
<1>2. TypeOK'
  BY <1>1 DEF Inv, TypeOK
<1>3. Grows /\ jobs <= jobs'
  BY <1>1, SameGrows DEF Inv, TypeOK
<1>4. \A q \in Runs : RunSound(q)'
  BY <1>1, <1>2, <1>3, OneMoves
<1>5. LedgerSound' /\ PublicSound'
  BY <1>1 DEF Inv, LedgerSound, PublicSound
<1> QED
  BY <1>2, <1>4, <1>5 DEF Inv

\* A run that ends knows nothing any more.
LEMMA EndStep ==
  ASSUME Inv, NEW r \in Runs, NEW pc \in Ended, End(r, pc), KeepGitHub, run[r].pc # "none"
  PROVE  Inv'
<1>0. pc \in Phases
  BY DEF Phases, Waiting
<1>1. pc \notin Compiled \cup Spent \cup {"none", "promote", "repromote", "reserve", "write",
                                       "validate", "recheck", "consume"}
  BY DEF Ended, Compiled, Spent
<1>2. run' \in [Runs -> WorkflowRun] /\ Others(r) /\ SameOrigin(r) /\ run'[r].pc = pc
  BY <1>0, EndMoves DEF Inv, TypeOK
<1>3. RunSound(r)'
  BY <1>1, <1>2 DEF RunSound, SameOrigin, KeepGitHub, Inv
<1> QED
  BY <1>2, <1>3, QuietStep

\* A run of which everything is replaced at once.
LEMMA SetMoves ==
  ASSUME run \in [Runs -> WorkflowRun], NEW r \in Runs, NEW new \in WorkflowRun,
         run' = [run EXCEPT ![r] = new]
  PROVE  run' \in [Runs -> WorkflowRun] /\ Others(r) /\ run'[r] = new
  BY DEF Others

-----------------------------------------------------------------------------
\* A run that is created or repeated knows nothing yet.
LEMMA CreatedMoves ==
  ASSUME Inv, NEW r \in Runs, NEW event \in Events, NEW channel \in Channels, NEW sha \in Commits,
         Created(r, event, channel, sha)
  PROVE  /\ run' \in [Runs -> WorkflowRun] /\ Others(r)
         /\ jobs' \in 0 .. MaxJobs /\ jobs <= jobs' /\ RunSound(r)'
<1> DEFINE new == [Idle EXCEPT !.pc = "queued", !.event = event, !.channel = channel,
                               !.sha = sha, !.attempt = 1]
<1>1. new \in WorkflowRun /\ new.pc = "queued" /\ new.channel = channel /\ new.sha = sha
      /\ new.attempt = 1
  BY LedgerTypes DEF WorkflowRun, Idle, Phases, Waiting, Events, Channels
<1>2. run' = [run EXCEPT ![r] = new]
  BY DEF Created
<1>3. run' \in [Runs -> WorkflowRun] /\ Others(r) /\ run'[r] = new
  BY <1>1, <1>2, SetMoves DEF Inv, TypeOK
<1>4. jobs \in 0 .. MaxJobs /\ jobs < MaxJobs /\ jobs' = jobs + 1
  BY DEF Inv, TypeOK, Created, NextRun
<1>5. jobs' \in 0 .. MaxJobs /\ jobs <= jobs' /\ 1 <= jobs'
  BY <1>4
<1>6. RunSound(r)'
  BY <1>1, <1>3, <1>5 DEF RunSound, Compiled, Spent
<1> QED
  BY <1>3, <1>5, <1>6

\* Steps of the repository around the runs: a push, a trigger, a repetition.
LEMMA AroundStep ==
  ASSUME Inv, NEW r \in Runs, head' \in Commits, jobs' \in 0 .. MaxJobs, jobs <= jobs',
         run' \in [Runs -> WorkflowRun], Others(r), RunSound(r)',
         UNCHANGED <<branch, ledger, tags, releases, deletes, shown, config>>
  PROVE  Inv'
<1>1. UNCHANGED <<branch, ledger, tags, releases, deletes, grouped, promotion>>
  BY DEF config
<1>2. TypeOK'
  BY <1>1 DEF Inv, TypeOK
<1>3. Grows
  BY <1>1, SameGrows DEF Inv
<1>4. \A q \in Runs : RunSound(q)'
  BY <1>1, <1>2, <1>3, OneMoves
<1>5. LedgerSound' /\ PublicSound'
  BY <1>1 DEF Inv, LedgerSound, PublicSound
<1> QED
  BY <1>2, <1>4, <1>5 DEF Inv

\* A push, with or without the run it starts.
LEMMA PushStep == ASSUME Inv, Push PROVE Inv'
<1>1. PICK c \in Commits : head' = c
  BY DEF Push
<1>2. UNCHANGED <<branch, ledger, tags, releases, deletes, shown, config>>
  BY DEF Push
<1>3. CASE UNCHANGED <<run, jobs>>
  <2>1. TypeOK'
    BY <1>1, <1>2, <1>3 DEF Inv, TypeOK, config
  <2>2. LedgerSound' /\ PublicSound'
    BY <1>2 DEF Inv, LedgerSound, PublicSound
  <2>3. \A q \in Runs : RunSound(q)'
    BY <1>2, <1>3 DEF Inv, RunSound, Promoting, config
  <2> QED
    BY <2>1, <2>2, <2>3 DEF Inv
<1>4. ASSUME NEW r \in Runs, Created(r, "push", "beta", head') PROVE Inv'
  <2>1. Created(r, "push", "beta", c)
    BY <1>1, <1>4
  <2>2. "push" \in Events /\ "beta" \in Channels
    BY DEF Events, Channels
  <2>3. /\ run' \in [Runs -> WorkflowRun] /\ Others(r)
        /\ jobs' \in 0 .. MaxJobs /\ jobs <= jobs' /\ RunSound(r)'
    BY <2>1, <2>2, CreatedMoves
  <2> QED
    BY <1>1, <1>2, <2>3, AroundStep
<1> QED
  BY <1>3, <1>4 DEF Push

\* A scheduled or dispatched run.
LEMMA TriggerStep == ASSUME Inv, NEW r \in Runs, Trigger(r) PROVE Inv'
<1>1. PICK k \in Kinds[r] : Created(r, k[1], k[2], head)
  BY DEF Trigger
<1>2. k[1] \in Events /\ k[2] \in Channels
  BY DEF Events
<1>3. head \in Commits
  BY DEF Inv, TypeOK
<1>4. /\ run' \in [Runs -> WorkflowRun] /\ Others(r)
      /\ jobs' \in 0 .. MaxJobs /\ jobs <= jobs' /\ RunSound(r)'
  BY <1>1, <1>2, <1>3, CreatedMoves
<1>5. head' \in Commits /\ UNCHANGED <<branch, ledger, tags, releases, deletes, shown, config>>
  BY <1>3 DEF Trigger
<1> QED
  BY <1>4, <1>5, AroundStep

\* The next attempt of an ended run.
LEMMA RerunStep == ASSUME Inv, NEW r \in Runs, Rerun(r) PROVE Inv'
<1> DEFINE new == [run[r] EXCEPT !.pc = "queued", !.attempt = run[r].attempt + 1]
<1>1. run[r] \in WorkflowRun /\ jobs \in 0 .. MaxJobs /\ head \in Commits /\ RunSound(r)
  BY DEF Inv, TypeOK
<1>0. run[r].attempt + 1 \in Nat /\ "queued" \in Phases
  BY <1>1 DEF WorkflowRun, Phases, Waiting
<1>2. /\ new \in WorkflowRun /\ new.pc = "queued" /\ new.channel = run[r].channel
      /\ new.sha = run[r].sha /\ new.attempt = run[r].attempt + 1
  BY <1>0, <1>1 DEF WorkflowRun
<1>3. run' = [run EXCEPT ![r] = new]
  BY DEF Rerun
<1>4. run' \in [Runs -> WorkflowRun] /\ Others(r) /\ run'[r] = new
  BY <1>2, <1>3, SetMoves DEF Inv, TypeOK
<1>5. jobs' = jobs + 1 /\ jobs' \in 0 .. MaxJobs /\ jobs <= jobs'
  BY <1>1 DEF Rerun
<1>6. run[r].pc # "none"
  BY DEF Rerun, Ended
<1>7. run[r].attempt \in Nat
  BY <1>1 DEF WorkflowRun
<1>8. RunSound(r)'
  BY <1>1, <1>2, <1>4, <1>5, <1>6, <1>7 DEF RunSound, Compiled, Spent
<1> QED
  BY <1>1, <1>4, <1>5, <1>8, AroundStep DEF Rerun

-----------------------------------------------------------------------------
\* Steps of a run that change nothing but its phase and knowledge.

\* A queued run starts.
LEMMA StartStep == ASSUME Inv, NEW r \in Runs, Start(r) PROVE Inv'
<1>1. "prepare" \in Phases /\ "prepare" \notin Compiled \cup Spent
  BY DEF Phases, Compiled, Spent
<1>2. Go(r, "prepare") /\ KeepGitHub /\ run[r].pc = "queued"
  BY DEF Start
<1>3. /\ run' \in [Runs -> WorkflowRun] /\ Others(r) /\ SameOrigin(r) /\ run'[r].pc = "prepare"
  BY <1>1, <1>2, GoMoves DEF Inv, TypeOK
<1>4. RunSound(r)'
  BY <1>1, <1>2, <1>3 DEF RunSound, SameOrigin, KeepGitHub, Inv
<1> QED
  BY <1>2, <1>3, <1>4, QuietStep

\* A stable run takes over an accepted candidate, or builds from its source.
LEMMA PrepareStableStep == ASSUME Inv, NEW r \in Runs, PrepareStable(r) PROVE Inv'
<1>1. KeepGitHub /\ run[r].pc = "prepare" /\ run[r].channel = "stable"
  BY DEF PrepareStable
<1>2. PICK q \in Runs : \/ /\ promotion = "promote-bytes"
                            /\ run' = [run EXCEPT ![r].pc = "promote", ![r].rc = q]
                         \/ /\ promotion = "final-build"
                            /\ run' = [run EXCEPT ![r].pc = "reserve", ![r].rc = q]
  BY DEF PrepareStable
<1>3. PICK pc \in {"promote", "reserve"} :
         /\ run' = [run EXCEPT ![r] = [run[r] EXCEPT !.pc = pc, !.rc = q]]
         /\ pc = "promote" <=> promotion = "promote-bytes"
  BY <1>2
<1> DEFINE new == [run[r] EXCEPT !.pc = pc, !.rc = q]
<1>4. run[r] \in WorkflowRun /\ RunSound(r)
  BY DEF Inv, TypeOK
<1>5. pc \in Phases /\ pc \notin Compiled \cup Spent
  BY DEF Phases, Compiled, Spent
<1>6. /\ new \in WorkflowRun /\ new.pc = pc /\ new.channel = run[r].channel
      /\ new.sha = run[r].sha /\ new.attempt = run[r].attempt
  BY <1>4, <1>5 DEF WorkflowRun
<1>7. run' \in [Runs -> WorkflowRun] /\ Others(r) /\ run'[r] = new
  BY <1>3, <1>6, SetMoves DEF Inv, TypeOK
<1>8. RunSound(r)'
  BY <1>1, <1>3, <1>4, <1>5, <1>6, <1>7 DEF RunSound, Promoting, KeepGitHub, config
<1> QED
  BY <1>1, <1>7, <1>8, QuietStep

\* A candidate run goes on to its reservation, or ends early.
LEMMA PrepareCandidateStep == ASSUME Inv, NEW r \in Runs, PrepareCandidate(r) PROVE Inv'
<1>1. KeepGitHub /\ run[r].pc = "prepare"
  BY DEF PrepareCandidate
<1>2. CASE End(r, "version_required")
  BY <1>1, <1>2, EndStep DEF Ended
<1>3. CASE Go(r, "reserve")
  <2>1. "reserve" \in Phases /\ "reserve" \notin Compiled \cup Spent
        /\ run[r].channel # "stable"
    BY DEF Phases, Compiled, Spent, PrepareCandidate
  <2>2. run' \in [Runs -> WorkflowRun] /\ Others(r) /\ SameOrigin(r) /\ run'[r].pc = "reserve"
    BY <1>3, <2>1, GoMoves DEF Inv, TypeOK
  <2>3. RunSound(r)'
    BY <1>1, <2>1, <2>2 DEF RunSound, SameOrigin, KeepGitHub, Inv, Promoting
  <2> QED
    BY <1>1, <2>2, <2>3, QuietStep
<1> QED
  BY <1>2, <1>3 DEF PrepareCandidate
-----------------------------------------------------------------------------
\* The plan of a run that holds none is new to the ledger it was made from.
LEMMA NewPlanIsNew ==
  ASSUME Inv, NEW r \in Runs, r \notin Reserved(ledger), run[r].sha \in Commits,
         run[r].channel \in Channels,
         NEW last \in TakenSequences(ledger, Names, BaseOf[run[r].sha], run[r].channel),
         Highest(last, TakenSequences(ledger, Names, BaseOf[run[r].sha], run[r].channel))
  PROVE  LET new == NewPlan(ledger, last, r, run[r].attempt, BaseOf[run[r].sha],
                            run[r].channel, run[r].sha, run[r].rc)
         IN new \in Plan /\ NewToLedger(ledger, r, new)
<1> DEFINE base == BaseOf[run[r].sha]
           channel == run[r].channel
           new == NewPlan(ledger, last, r, run[r].attempt, base, channel, run[r].sha, run[r].rc)
<1>1. /\ run[r] \in WorkflowRun /\ RunSound(r) /\ LedgerSound
      /\ ledger \in Ledger /\ jobs \in 0 .. MaxJobs
  BY DEF Inv, TypeOK
<1>2. /\ run[r].attempt \in Nat /\ run[r].attempt < 100 /\ run[r].rc \in Nat /\ run[r].sha \in Nat
      /\ base \in Nat /\ r \in Nat
  <2>1. run[r].attempt \in Nat /\ run[r].rc \in Nat /\ run[r].attempt <= jobs
    BY <1>1 DEF WorkflowRun, RunSound
  <2>2. base \in Bases /\ Bases \subseteq Nat /\ Commits \subseteq Nat /\ r \in Nat
    OBVIOUS
  <2>3. run[r].attempt < 100
    BY <1>1, <2>1
  <2> QED
    BY <2>1, <2>2, <2>3
<1>3. ledger.counter \in Nat /\ \A q \in Runs : ledger.plans[q] \in Plan
  BY <1>1 DEF Ledger
<1>4. NextNumber(ledger) \in Nat
  BY <1>3 DEF NextNumber
<1>5. last \in Nat
  <2>1. \A n \in Names : n[3] \in Nat
    BY DEF Names, Inv, TypeOK, TagName, GitHubRelease
  <2>2. \A q \in Runs : ledger.plans[q].seq \in Nat
    BY <1>3 DEF Plan
  <2>3. CASE last = 0
    BY <2>3
  <2>4. ASSUME NEW n \in Names, last = n[3] PROVE last \in Nat
    BY <2>1, <2>4
  <2>5. ASSUME NEW q \in Runs, last = ledger.plans[q].seq PROVE last \in Nat
    BY <2>2, <2>5
  <2> QED
    BY <2>3, <2>4, <2>5 DEF TakenSequences, Reserved
<1>6. /\ new.num = NextNumber(ledger) /\ new.base = base /\ new.channel = channel
      /\ new.sha = run[r].sha /\ new.parent = run[r].rc
      /\ channel \in {"beta", "rc"} => new.seq = last + 1
      /\ channel = "nightly" => new.seq = 100 * r + run[r].attempt
      /\ channel = "stable" => new.seq = 0
  BY DEF NewPlan
<1>7. new.seq \in Nat
  BY <1>2, <1>5, <1>6 DEF Channels
<1>8. new \in Plan
  <2>1. new = [num |-> new.num, base |-> new.base, channel |-> new.channel, seq |-> new.seq,
               sha |-> new.sha, parent |-> new.parent]
    BY DEF NewPlan
  <2> HIDE DEF new
  <2>2. new.num \in Nat /\ new.base \in Nat /\ new.sha \in Nat /\ new.parent \in Nat
        /\ new.channel \in Channels \cup {"none"}
    BY <1>2, <1>4, <1>6
  <2> QED
    BY <1>7, <2>1, <2>2 DEF Plan
<1>9. channel = "nightly" => 100 * r <= new.seq /\ new.seq < 100 * r + 100
  BY <1>2, <1>6
<1>10. ASSUME NEW q \in Reserved(ledger), Tag(ledger.plans[q]) = Tag(new) PROVE channel = "stable"
  <2> HIDE DEF new
  <2>1. /\ q \in Runs /\ ledger.plans[q].base = base /\ ledger.plans[q].channel = channel
        /\ ledger.plans[q].seq = new.seq /\ ledger.plans[q].seq \in Nat
    BY <1>3, <1>6, <1>10 DEF Tag, Reserved, Plan
  <2>2. CASE channel \in {"beta", "rc"}
    <3>1. ledger.plans[q].seq \in TakenSequences(ledger, Names, base, channel)
      BY <2>1 DEF TakenSequences
    <3>2. ledger.plans[q].seq <= last
      BY <3>1 DEF Highest
    <3> QED
      BY <1>5, <1>6, <2>1, <2>2, <3>2
  <2>3. CASE channel = "nightly"
    <3>1. 100 * q <= new.seq /\ new.seq < 100 * q + 100
      BY <1>1, <2>1, <2>3 DEF LedgerSound
    <3>2. q = r
      <4>1. q \in Nat /\ r \in Nat /\ new.seq \in Nat
        BY <1>2, <1>7, <2>1
      <4>2. 100 * r <= new.seq /\ new.seq < 100 * r + 100
        BY <1>9, <2>3
      <4> QED
        BY ONLY <3>1, <4>1, <4>2
    <3> QED
      BY <1>10, <3>2
  <2> QED
    BY <2>2, <2>3 DEF Channels
<1> HIDE DEF new
<1>11. NewToLedger(ledger, r, new)
  BY <1>6, <1>9, <1>10 DEF NewToLedger
<1> USE DEF new
<1> QED
  BY <1>8, <1>11
-----------------------------------------------------------------------------
\* reserve_plan() finds the run's own reservation or makes a new plan.
LEMMA ReadLedgerStep == ASSUME Inv, NEW r \in Runs, ReadLedger(r) PROVE Inv'
<1> DEFINE base == BaseOf[run[r].sha]
<1>1. KeepGitHub /\ run[r].pc = "reserve"
  BY DEF ReadLedger
<1>2. /\ run[r] \in WorkflowRun /\ RunSound(r) /\ ledger \in Ledger /\ run[r].sha \in Commits
      /\ run[r].channel \in Channels /\ ~Promoting(r)
  BY <1>1 DEF Inv, TypeOK, RunSound
<1>3. ledger' = ledger /\ promotion' = promotion /\ jobs' = jobs
  BY <1>1 DEF KeepGitHub, config
<1>4. CASE r \in Reserved(ledger)
  <2> DEFINE new == [run[r] EXCEPT !.pc = "validate", !.plan = ledger.plans[r]]
  <2>1. run' = [run EXCEPT ![r] = new]
    BY <1>4 DEF ReadLedger
  <2>2. /\ new \in WorkflowRun /\ new.pc = "validate" /\ new.plan = ledger.plans[r]
        /\ new.channel = run[r].channel /\ new.sha = run[r].sha /\ new.attempt = run[r].attempt
    <3>1. "validate" \in Phases /\ ledger.plans[r] \in Plan
      BY <1>2 DEF Phases, Compiled, Ledger
    <3> QED
      BY <1>2, <3>1 DEF WorkflowRun
  <2>3. run' \in [Runs -> WorkflowRun] /\ Others(r) /\ run'[r] = new
    BY <2>1, <2>2, SetMoves DEF Inv, TypeOK
  <2> HIDE DEF new
  <2>4. RunSound(r)'
    BY <1>1, <1>2, <1>3, <1>4, <2>2, <2>3 DEF RunSound, Promoting, Spent
  <2> QED
    BY <1>1, <2>3, <2>4, QuietStep
<1>5. CASE r \notin Reserved(ledger)
  <2> DEFINE taken == TakenSequences(ledger, Names, base, run[r].channel)
             Planned(last) == NewPlan(ledger, last, r, run[r].attempt, base,
                                      run[r].channel, run[r].sha, run[r].rc)
  <2>1. PICK last \in taken :
           /\ Highest(last, taken)
           /\ run' = [run EXCEPT ![r].pc = "write", ![r].plan = Planned(last),
                                 ![r].seen = ledger]
    BY <1>5 DEF ReadLedger
  <2> DEFINE p == Planned(last)
             new == [run[r] EXCEPT !.pc = "write", !.plan = p, !.seen = ledger]
  <2>2. p \in Plan /\ NewToLedger(ledger, r, p)
    BY <1>2, <1>5, <2>1, NewPlanIsNew
  <2>3. run' = [run EXCEPT ![r] = new]
    BY <2>1
  <2> HIDE DEF p
  <2>4. /\ new \in WorkflowRun /\ new.pc = "write" /\ new.plan = p /\ new.seen = ledger
        /\ new.channel = run[r].channel /\ new.sha = run[r].sha /\ new.attempt = run[r].attempt
    <3>1. "write" \in Phases
      BY DEF Phases
    <3> QED
      BY <1>2, <2>2, <3>1 DEF WorkflowRun
  <2>5. run' \in [Runs -> WorkflowRun] /\ Others(r) /\ run'[r] = new
    BY <2>3, <2>4, SetMoves DEF Inv, TypeOK
  <2> HIDE DEF new
  <2>6. RunSound(r)'
    BY <1>1, <1>2, <1>3, <2>2, <2>4, <2>5 DEF RunSound, Promoting, Compiled, Spent
  <2> QED
    BY <1>1, <2>5, <2>6, QuietStep
<1> QED
  BY <1>4, <1>5

\* The ledger branch appears.
LEMMA CreateBranchStep == ASSUME Inv, NEW r \in Runs, CreateBranch(r) PROVE Inv'
<1>1. branch' = TRUE
      /\ UNCHANGED <<head, ledger, tags, releases, run, deletes, jobs, grouped, promotion>>
  BY DEF CreateBranch, config
<1>2. TypeOK' /\ LedgerSound' /\ PublicSound'
  BY <1>1 DEF Inv, TypeOK, LedgerSound, PublicSound
<1>3. \A q \in Runs : RunSound(q)'
  BY <1>1 DEF Inv, RunSound, Promoting
<1> QED
  BY <1>2, <1>3 DEF Inv

\* The compare-and-swap that stores a new plan.
LEMMA ReserveStep == ASSUME Inv, NEW r \in Runs, Reserve(r) PROVE Inv' /\ Grows
<1> DEFINE p == run[r].plan
<1>1. /\ run[r] \in WorkflowRun /\ RunSound(r) /\ ledger \in Ledger /\ LedgerSound /\ PublicSound
      /\ TypeOK /\ run[r].pc = "write" /\ ~Promoting(r)
  BY DEF Inv, TypeOK, RunSound, Reserve
<1>2. NewToLedger(ledger, r, p) /\ ledger' = WithPlan(ledger, r, p)
  BY <1>1 DEF Reserve, CompareAndSwap, RunSound
<1>3. p \in Plan /\ p.num \in Nat
  BY <1>1 DEF WorkflowRun, Plan
<1>4. /\ ledger.counter \in Nat /\ ledger.floor \in Nat /\ ledger.plans \in [Runs -> Plan]
  BY <1>1 DEF Ledger
<1> HIDE DEF p
<1>5. ledger' = [ledger EXCEPT !.file = TRUE, !.counter = p.num, !.plans = [@ EXCEPT ![r] = p]]
  BY <1>2 DEF WithPlan
<1>6. /\ ledger' \in Ledger /\ ledger'.counter = p.num /\ ledger'.floor = ledger.floor
      /\ ledger'.plans = [ledger.plans EXCEPT ![r] = p]
  BY <1>1, <1>3, <1>4, <1>5 DEF Ledger
<1>7. p.num > ledger.counter /\ p.num > 0
  BY <1>2, <1>3, <1>4 DEF NewToLedger, NextNumber
<1>8. Reserved(ledger') = Reserved(ledger) \cup {r} /\ r \notin Reserved(ledger)
  BY <1>2, <1>4, <1>6, <1>7 DEF Reserved, NewToLedger
<1>9. /\ \A q \in Reserved(ledger) : q # r /\ ledger'.plans[q] = ledger.plans[q]
      /\ ledger'.plans[r] = p
  BY <1>4, <1>6, <1>8 DEF Reserved
<1>10. Grows
  BY <1>4, <1>6, <1>7, <1>8, <1>9, <1>3 DEF Grows
<1>11. /\ UNCHANGED <<head, branch, tags, releases, deletes, jobs, grouped, promotion>>
       /\ Go(r, "validate") /\ "validate" \in Phases
  BY DEF Reserve, config, Phases, Compiled
<1>12. /\ run' \in [Runs -> WorkflowRun] /\ Others(r) /\ SameOrigin(r)
       /\ run'[r].pc = "validate" /\ run'[r].plan = p
  BY <1>1, <1>11, GoMoves DEF TypeOK, p
<1>13. TypeOK'
  BY <1>1, <1>6, <1>11, <1>12 DEF TypeOK
<1>14. LedgerSound'
  <2>1. ledger'.floor <= ledger'.counter
    BY <1>1, <1>3, <1>4, <1>6, <1>7 DEF LedgerSound
  <2>2. ASSUME NEW q \in Reserved(ledger')
        PROVE  /\ ledger'.plans[q].num <= ledger'.counter
               /\ ledger'.plans[q].channel = "nightly" =>
                     100 * q <= ledger'.plans[q].seq /\ ledger'.plans[q].seq < 100 * q + 100
    <3>1. CASE q = r
      BY <1>2, <1>3, <1>6, <1>9, <3>1 DEF NewToLedger
    <3>2. CASE q # r
      <4>1. q \in Reserved(ledger) /\ ledger'.plans[q] = ledger.plans[q]
        BY <1>8, <1>9, <3>2, <2>2
      <4>2. ledger.plans[q].num \in Nat /\ ledger.plans[q].num <= ledger.counter
        BY <1>1, <1>4, <4>1 DEF LedgerSound, Reserved, Plan
      <4>3. ledger'.plans[q].num <= ledger'.counter
        BY <1>3, <1>4, <1>6, <1>7, <4>1, <4>2
      <4> QED
        BY <1>1, <4>1, <4>3 DEF LedgerSound
    <3> QED
      BY <3>1, <3>2
  <2>3. ASSUME NEW q1 \in Reserved(ledger'), NEW q2 \in Reserved(ledger'), q1 # q2
        PROVE  /\ ledger'.plans[q1].num # ledger'.plans[q2].num
               /\ Tag(ledger'.plans[q1]) = Tag(ledger'.plans[q2])
                     => ledger'.plans[q1].channel = "stable"
    <3>1. \A q \in Reserved(ledger) :
             /\ ledger.plans[q].num \in Nat /\ ledger.plans[q].num <= ledger.counter
             /\ ledger.plans[q].num # p.num
      BY <1>1, <1>3, <1>4, <1>7 DEF LedgerSound, Reserved, Plan
    <3>2. CASE q1 # r /\ q2 # r
      <4>1. /\ q1 \in Reserved(ledger) /\ ledger'.plans[q1] = ledger.plans[q1]
            /\ q2 \in Reserved(ledger) /\ ledger'.plans[q2] = ledger.plans[q2]
        BY <1>8, <1>9, <3>2, <2>3
      <4> QED
        BY <1>1, <2>3, <4>1 DEF LedgerSound
    <3>3. CASE q1 = r
      <4>1. q2 \in Reserved(ledger) /\ ledger'.plans[q2] = ledger.plans[q2] /\ ledger'.plans[q1] = p
        BY <1>8, <1>9, <3>3, <2>3
      <4> QED
        BY <1>2, <3>1, <4>1 DEF NewToLedger
    <3>4. CASE q2 = r
      <4>1. q1 \in Reserved(ledger) /\ ledger'.plans[q1] = ledger.plans[q1] /\ ledger'.plans[q2] = p
        BY <1>8, <1>9, <3>4, <2>3
      <4>2. Tag(ledger.plans[q1]) = Tag(p) => ledger.plans[q1].channel = p.channel
        BY DEF Tag
      <4> QED
        BY <1>2, <3>1, <4>1, <4>2 DEF NewToLedger
    <3> QED
      BY <3>2, <3>3, <3>4
  <2> QED
    BY <2>1, <2>2, <2>3 DEF LedgerSound
<1>15. PublicSound'
  BY <1>1, <1>6, <1>8, <1>9, <1>11 DEF PublicSound
<1>16. RunSound(r)'
  BY <1>1, <1>8, <1>9, <1>11, <1>12 DEF RunSound, SameOrigin, Promoting, Spent
<1>17. jobs <= jobs'
  BY <1>1, <1>11 DEF TypeOK
<1>18. \A q \in Runs : RunSound(q)'
  BY <1>10, <1>11, <1>12, <1>13, <1>16, <1>17, OneMoves
<1> QED
  BY <1>10, <1>13, <1>14, <1>15, <1>18 DEF Inv
-----------------------------------------------------------------------------
\* publish_versioned() before staging.
LEMMA ValidateStep == ASSUME Inv, NEW r \in Runs, Validate(r) PROVE Inv'
<1>1. KeepGitHub /\ run[r].pc = "validate" /\ run[r] \in WorkflowRun /\ RunSound(r)
  BY DEF Validate, Inv, TypeOK
<1>2. CASE End(r, "superseded")
  BY <1>1, <1>2, EndStep DEF Ended
<1>3. CASE run' = [run EXCEPT ![r].pc = "recheck", ![r].bytes = Me(r)]
  <2> DEFINE new == [run[r] EXCEPT !.pc = "recheck", !.bytes = Me(r)]
  <2>1. /\ new \in WorkflowRun /\ new.pc = "recheck" /\ new.plan = run[r].plan
        /\ new.channel = run[r].channel /\ new.sha = run[r].sha /\ new.attempt = run[r].attempt
    <3>1. "recheck" \in Phases /\ Me(r) \in Nat \X Nat
      BY <1>1 DEF Phases, Compiled, Me, WorkflowRun
    <3> QED
      BY <1>1, <3>1 DEF WorkflowRun
  <2>2. run' = [run EXCEPT ![r] = new]
    BY <1>3
  <2>3. run' \in [Runs -> WorkflowRun] /\ Others(r) /\ run'[r] = new
    BY <2>1, <2>2, SetMoves DEF Inv, TypeOK
  <2> HIDE DEF new
  <2>4. RunSound(r)'
    BY <1>1, <2>1, <2>3 DEF RunSound, Promoting, Compiled, Spent, KeepGitHub, config
  <2> QED
    BY <1>1, <2>3, <2>4, QuietStep
<1> QED
  BY <1>2, <1>3 DEF Validate

\* The last checks before the first public mutation.
LEMMA RecheckStep == ASSUME Inv, NEW r \in Runs, Recheck(r) PROVE Inv'
<1>1. KeepGitHub /\ run[r].pc = "recheck" /\ run[r] \in WorkflowRun /\ RunSound(r) /\ head \in Nat
  BY DEF Recheck, Inv, TypeOK
<1>2. CASE End(r, "superseded") \/ End(r, "reused")
  BY <1>1, <1>2, EndStep DEF Ended
<1>3. CASE run' = [run EXCEPT ![r].pc = "begin", ![r].ref = head]
  <2> DEFINE new == [run[r] EXCEPT !.pc = "begin", !.ref = head]
  <2>1. /\ new \in WorkflowRun /\ new.pc = "begin" /\ new.plan = run[r].plan
        /\ new.channel = run[r].channel /\ new.sha = run[r].sha /\ new.attempt = run[r].attempt
    <3>1. "begin" \in Phases
      BY DEF Phases, Compiled
    <3> QED
      BY <1>1, <3>1 DEF WorkflowRun
  <2>2. run' = [run EXCEPT ![r] = new]
    BY <1>3
  <2>3. run' \in [Runs -> WorkflowRun] /\ Others(r) /\ run'[r] = new
    BY <2>1, <2>2, SetMoves DEF Inv, TypeOK
  <2> HIDE DEF new
  <2>4. RunSound(r)'
    BY <1>1, <2>1, <2>3 DEF RunSound, Promoting, Compiled, Spent, KeepGitHub, config
  <2> QED
    BY <1>1, <2>3, <2>4, QuietStep
<1> QED
  BY <1>2, <1>3 DEF Recheck

\* A promotion takes over the plan of a public candidate, whose number is spent.
LEMMA PromoteStep == ASSUME Inv, NEW r \in Runs, Promote(r) PROVE Inv'
<1>1. KeepGitHub /\ run[r].pc = "promote" /\ run[r] \in WorkflowRun /\ RunSound(r)
  BY DEF Promote, Inv, TypeOK
<1>2. PICK x \in AcceptedRC(r, run[r].rc) :
         run' = [run EXCEPT ![r].pc = "repromote", ![r].plan = x.plan, ![r].bytes = x.build]
  BY DEF Promote
<1>3. x \in releases /\ x \in GitHubRelease /\ x.plan.num <= ledger.floor
  BY DEF AcceptedRC, Inv, TypeOK, PublicSound
<1> DEFINE new == [run[r] EXCEPT !.pc = "repromote", !.plan = x.plan, !.bytes = x.build]
<1>4. /\ new \in WorkflowRun /\ new.pc = "repromote" /\ new.plan = x.plan
      /\ new.channel = run[r].channel /\ new.sha = run[r].sha /\ new.attempt = run[r].attempt
  <2>1. "repromote" \in Phases /\ x.plan \in Plan /\ x.build \in Nat \X Nat
    BY <1>3 DEF Phases, GitHubRelease
  <2> QED
    BY <1>1, <2>1 DEF WorkflowRun
<1>5. run' = [run EXCEPT ![r] = new]
  BY <1>2
<1>6. run' \in [Runs -> WorkflowRun] /\ Others(r) /\ run'[r] = new
  BY <1>4, <1>5, SetMoves DEF Inv, TypeOK
<1> HIDE DEF new
<1>7. RunSound(r)'
  BY <1>1, <1>3, <1>4, <1>6 DEF RunSound, Promoting, Compiled, Spent, KeepGitHub, config
<1> QED
  BY <1>1, <1>6, <1>7, QuietStep

\* The staged bytes of a promotion are compared once more.
LEMMA RepromoteStep == ASSUME Inv, NEW r \in Runs, Repromote(r) PROVE Inv'
<1>1. KeepGitHub /\ run[r].pc = "repromote" /\ Go(r, "begin") /\ "begin" \in Phases
  BY DEF Repromote, Phases, Compiled
<1>2. /\ run' \in [Runs -> WorkflowRun] /\ Others(r) /\ SameOrigin(r)
      /\ run'[r].pc = "begin" /\ run'[r].plan = run[r].plan
  BY <1>1, GoMoves DEF Inv, TypeOK
<1>3. RunSound(r)'
  BY <1>1, <1>2 DEF Inv, RunSound, SameOrigin, Promoting, Compiled, Spent, KeepGitHub, config
<1> QED
  BY <1>1, <1>2, <1>3, QuietStep

\* The last look at the ledger finds the floor no higher than the plan's number.
LEMMA BeginPublicationStep == ASSUME Inv, NEW r \in Runs, BeginPublication(r) PROVE Inv'
<1>1. /\ KeepGitHub /\ run[r].pc = "begin" /\ run[r] \in WorkflowRun /\ RunSound(r)
      /\ ledger \in Ledger
  BY DEF BeginPublication, Inv, TypeOK
<1> DEFINE new == [run[r] EXCEPT !.pc = "consume", !.seen = ledger]
<1>2. /\ new \in WorkflowRun /\ new.pc = "consume" /\ new.plan = run[r].plan /\ new.seen = ledger
      /\ new.channel = run[r].channel /\ new.sha = run[r].sha /\ new.attempt = run[r].attempt
  <2>1. "consume" \in Phases
    BY DEF Phases, Compiled
  <2> QED
    BY <1>1, <2>1 DEF WorkflowRun
<1>3. run' = [run EXCEPT ![r] = new]
  BY DEF BeginPublication
<1>4. run' \in [Runs -> WorkflowRun] /\ Others(r) /\ run'[r] = new
  BY <1>2, <1>3, SetMoves DEF Inv, TypeOK
<1>5. ledger.floor <= run[r].plan.num
  <2>1. ledger.floor \in Nat /\ run[r].plan.num \in Nat
    BY <1>1 DEF Ledger, WorkflowRun, Plan
  <2> QED
    BY <2>1 DEF BeginPublication, VerifyPromotionOrder, VerifyReservation
<1> HIDE DEF new
<1>6. RunSound(r)'
  BY <1>1, <1>2, <1>4, <1>5 DEF RunSound, Promoting, Compiled, Spent, KeepGitHub, config
<1> QED
  BY <1>1, <1>4, <1>6, QuietStep

\* The compare-and-swap that spends the number raises the floor to it.
LEMMA ConsumeStep == ASSUME Inv, NEW r \in Runs, ConsumeNumber(r) PROVE Inv' /\ Grows
<1> DEFINE p == run[r].plan
<1>1. /\ run[r] \in WorkflowRun /\ RunSound(r) /\ ledger \in Ledger /\ LedgerSound /\ PublicSound
      /\ TypeOK /\ run[r].pc = "consume" /\ run[r].seen = ledger
  BY DEF Inv, TypeOK, ConsumeNumber, CompareAndSwap
<1>2. p.num \in Nat /\ ledger.floor \in Nat /\ ledger.counter \in Nat
  BY <1>1 DEF WorkflowRun, Plan, Ledger
<1>3. ledger' = [ledger EXCEPT !.floor = p.num]
  BY <1>1 DEF ConsumeNumber, Consume
<1>4. /\ ledger' \in Ledger /\ ledger'.floor = p.num /\ ledger'.counter = ledger.counter
      /\ ledger'.plans = ledger.plans
  BY <1>1, <1>2, <1>3 DEF Ledger
<1>5. Reserved(ledger') = Reserved(ledger)
  BY <1>4 DEF Reserved
<1>6. ledger.floor <= p.num
  BY <1>1 DEF RunSound
<1>7. p.num <= ledger.counter
  <2>1. CASE Promoting(r)
    BY <1>1, <1>2, <2>1 DEF RunSound, Compiled, LedgerSound
  <2>2. CASE ~Promoting(r)
    BY <1>1, <2>2 DEF RunSound, Compiled, LedgerSound
  <2> QED
    BY <2>1, <2>2
<1>8. Grows
  BY <1>2, <1>4, <1>5, <1>6 DEF Grows
<1> DEFINE new == [run[r] EXCEPT !.pc = "tag", !.seen = ledger']
<1>9. /\ new \in WorkflowRun /\ new.pc = "tag" /\ new.plan = p
      /\ new.channel = run[r].channel /\ new.sha = run[r].sha /\ new.attempt = run[r].attempt
  <2>1. "tag" \in Phases
    BY DEF Phases, Compiled
  <2> QED
    BY <1>1, <1>4, <2>1 DEF WorkflowRun
<1>10. run' = [run EXCEPT ![r] = new]
  BY DEF ConsumeNumber
<1>11. run' \in [Runs -> WorkflowRun] /\ Others(r) /\ run'[r] = new
  BY <1>9, <1>10, SetMoves DEF Inv, TypeOK
<1> HIDE DEF new, p
<1>12. UNCHANGED <<head, branch, tags, releases, deletes, jobs, grouped, promotion>>
  BY DEF ConsumeNumber, config
<1>13. TypeOK' /\ jobs <= jobs'
  BY <1>1, <1>4, <1>11, <1>12 DEF TypeOK
<1>14. LedgerSound'
  BY <1>1, <1>4, <1>5, <1>7 DEF LedgerSound
<1>15. PublicSound'
  <2>1. ASSUME NEW x \in releases PROVE x.plan.num <= ledger'.floor
    <3>1. x.plan.num \in Nat /\ x.plan.num <= ledger.floor
      BY <1>1 DEF TypeOK, GitHubRelease, Plan, PublicSound
    <3> QED
      BY <1>2, <1>4, <1>6, <3>1
  <2>2. ASSUME NEW t \in tags, t.tag[2] # "stable"
        PROVE  \E q \in Reserved(ledger') :
                  Tag(ledger'.plans[q]) = t.tag /\ ledger'.plans[q].num <= ledger'.floor
    <3>1. PICK q \in Reserved(ledger) :
             Tag(ledger.plans[q]) = t.tag /\ ledger.plans[q].num <= ledger.floor
      BY <1>1, <2>2 DEF PublicSound
    <3>2. ledger.plans[q].num \in Nat
      BY <1>1 DEF Reserved, Ledger, Plan
    <3>3. ledger'.plans[q].num <= ledger'.floor
      BY <1>2, <1>4, <1>6, <3>1, <3>2
    <3> QED
      BY <1>4, <1>5, <3>1, <3>3
  <2> QED
    BY <1>12, <2>1, <2>2 DEF PublicSound
<1>16. RunSound(r)'
  <2>1. run[r].plan = p
    BY DEF p
  <2>2. p.num <= ledger'.floor
    BY <1>2, <1>4
  <2> QED
    BY <1>1, <1>4, <1>5, <1>9, <1>11, <1>12, <2>1, <2>2 DEF RunSound, Promoting, Compiled, Spent
<1>17. \A q \in Runs : RunSound(q)'
  BY <1>8, <1>11, <1>12, <1>13, <1>16, OneMoves
<1> QED
  BY <1>8, <1>13, <1>14, <1>15, <1>17 DEF Inv
-----------------------------------------------------------------------------
\* Steps after the number was spent: the ledger stays, GitHub's releases change.

\* Between these phases a run keeps its plan and what it knows.
LEMMA SpentGo ==
  ASSUME Inv, NEW r \in Runs, run[r].pc \in Spent, NEW pc \in Spent, Go(r, pc),
         ledger' = ledger, promotion' = promotion, jobs' = jobs
  PROVE  run' \in [Runs -> WorkflowRun] /\ Others(r) /\ RunSound(r)'
<1>1. /\ pc \in Phases /\ run[r].pc \in Compiled /\ run[r].pc # "none" /\ pc \in Compiled
      /\ pc \notin {"none", "promote", "repromote", "reserve", "write", "validate", "recheck",
                    "consume"}
  BY DEF Spent, Phases, Compiled
<1>2. /\ run' \in [Runs -> WorkflowRun] /\ Others(r) /\ SameOrigin(r)
      /\ run'[r].pc = pc /\ run'[r].plan = run[r].plan
  BY <1>1, GoMoves DEF Inv, TypeOK
<1>3. RunSound(r)'
  BY <1>1, <1>2 DEF Inv, RunSound, SameOrigin, Promoting
<1> QED
  BY <1>2, <1>3

\* A step of one run that changes only the releases, the tags and that run.
LEMMA PublicStep ==
  ASSUME Inv, NEW r \in Runs, run' \in [Runs -> WorkflowRun], Others(r), RunSound(r)',
         tags' \subseteq [tag : TagName, sha : Nat], releases' \subseteq GitHubRelease,
         PublicSound', UNCHANGED <<head, branch, ledger, deletes, jobs, config>>
  PROVE  Inv'
<1>1. UNCHANGED <<head, branch, ledger, deletes, jobs, grouped, promotion>>
  BY DEF config
<1>2. TypeOK'
  BY <1>1 DEF Inv, TypeOK
<1>3. Grows /\ jobs <= jobs'
  BY <1>1, SameGrows DEF Inv, TypeOK
<1>4. \A q \in Runs : RunSound(q)'
  BY <1>1, <1>2, <1>3, OneMoves
<1>5. LedgerSound'
  BY <1>1 DEF Inv, LedgerSound
<1> QED
  BY <1>2, <1>4, <1>5 DEF Inv

\* What a run publishes has the type of a tag.
LEMMA TargetType ==
  ASSUME Inv, NEW r \in Runs
  PROVE  Target(r) \in TagName /\ run[r] \in WorkflowRun /\ run[r].plan \in Plan
         /\ run[r].plan.sha \in Nat
<1>1. run[r] \in WorkflowRun
  BY DEF Inv, TypeOK
<1>2. run[r].plan \in Plan
  BY <1>1 DEF WorkflowRun
<1>3. run[r].plan.base \in Nat /\ run[r].plan.seq \in Nat /\ run[r].plan.sha \in Nat
      /\ run[r].plan.channel \in Channels \cup {"none"} /\ "stable" \in Channels
  BY <1>2 DEF Plan, Channels
<1> QED
  BY <1>1, <1>2, <1>3 DEF Target, StableTag, Tag, TagName

\* The first public mutation.
LEMMA CreateTagStep == ASSUME Inv, NEW r \in Runs, CreateTag(r) PROVE Inv'
<1>1. /\ run[r].pc = "tag" /\ Go(r, "draft")
      /\ tags' = tags \cup {[tag |-> Target(r), sha |-> run[r].plan.sha]}
      /\ UNCHANGED <<head, branch, ledger, releases, deletes, jobs, config>>
  BY DEF CreateTag
<1>2. ledger' = ledger /\ promotion' = promotion /\ jobs' = jobs /\ releases' = releases
  BY <1>1 DEF config
<1>3. run[r].pc \in Spent /\ "draft" \in Spent /\ run[r].pc \in Compiled
  BY <1>1 DEF Spent, Compiled
<1>4. run' \in [Runs -> WorkflowRun] /\ Others(r) /\ RunSound(r)'
  BY <1>1, <1>2, <1>3, SpentGo
<1>5. tags' \subseteq [tag : TagName, sha : Nat] /\ releases' \subseteq GitHubRelease
  BY <1>1, <1>2, TargetType DEF Inv, TypeOK
<1>6. ASSUME Target(r)[2] # "stable"
      PROVE  \E q \in Reserved(ledger) :
                Tag(ledger.plans[q]) = Target(r) /\ ledger.plans[q].num <= ledger.floor
  <2>1. ~Promoting(r) /\ Target(r) = Tag(run[r].plan)
    BY <1>6 DEF Target, StableTag
  <2>2. /\ r \in Reserved(ledger) /\ run[r].plan = ledger.plans[r]
        /\ run[r].plan.num <= ledger.floor
    BY <1>3, <2>1 DEF Inv, RunSound
  <2> QED
    BY <2>1, <2>2
<1>7. PublicSound'
  BY <1>1, <1>2, <1>6 DEF Inv, PublicSound
<1> QED
  BY <1>1, <1>4, <1>5, <1>7, PublicStep

\* The release-create call, answered or not.
LEMMA CreateDraftStep == ASSUME Inv, NEW r \in Runs, CreateDraft(r) PROVE Inv'
<1>1. /\ run[r].pc = "draft" /\ run[r].pc \in Spent
      /\ UNCHANGED <<head, branch, ledger, tags, deletes, jobs, config>>
  BY DEF CreateDraft, Spent
<1>2. PICK pc \in {"upload", "reconcile"} : Go(r, pc)
  BY DEF CreateDraft
<1>3. releases' \subseteq releases \cup {Draft(r)}
  BY DEF CreateDraft
<1>4. ledger' = ledger /\ promotion' = promotion /\ jobs' = jobs /\ tags' = tags /\ pc \in Spent
  BY <1>1 DEF config, Spent
<1>5. run' \in [Runs -> WorkflowRun] /\ Others(r) /\ RunSound(r)'
  BY <1>1, <1>2, <1>4, SpentGo
<1>6. Draft(r) \in GitHubRelease /\ Draft(r).plan = run[r].plan
  <2>1. run[r].attempt \in Nat /\ run[r].bytes \in Nat \X Nat
    BY TargetType DEF WorkflowRun
  <2>2. Me(r) \in Nat \X Nat
    BY <2>1 DEF Me
  <2>3. [a \in Assets |-> "none"] \in [Assets -> {"none", "good", "bad"}]
    OBVIOUS
  <2> QED
    BY <2>1, <2>2, <2>3, TargetType DEF Draft, GitHubRelease
<1>7. run[r].plan.num <= ledger.floor
  BY <1>1 DEF Inv, RunSound
<1>8. tags' \subseteq [tag : TagName, sha : Nat] /\ releases' \subseteq GitHubRelease
  BY <1>3, <1>4, <1>6 DEF Inv, TypeOK
<1>9. PublicSound'
  BY <1>3, <1>4, <1>6, <1>7 DEF Inv, PublicSound
<1> QED
  BY <1>1, <1>5, <1>8, <1>9, PublicStep

\* A phase after the spending that only looks.
LEMMA LookStep ==
  ASSUME Inv, NEW r \in Runs, run[r].pc \in Spent, NEW pc \in Spent, Go(r, pc), KeepGitHub
  PROVE  Inv'
<1>1. ledger' = ledger /\ promotion' = promotion /\ jobs' = jobs
  BY DEF KeepGitHub, config
<1> QED
  BY <1>1, SpentGo, QuietStep

\* A release that changes but keeps its plan.
LEMMA SamePlan ==
  ASSUME Inv, NEW x \in releases, NEW y \in GitHubRelease, y.plan = x.plan,
         releases' = (releases \ {x}) \cup {y}, tags' = tags, ledger' = ledger
  PROVE  /\ releases' \subseteq GitHubRelease /\ tags' \subseteq [tag : TagName, sha : Nat]
         /\ PublicSound'
  BY DEF Inv, TypeOK, PublicSound

\* One asset is stored, as it was sent or not.
LEMMA UploadStep == ASSUME Inv, NEW r \in Runs, Upload(r) PROVE Inv'
<1>1. UNCHANGED <<head, branch, ledger, tags, run, deletes, jobs, config>>
  BY DEF Upload
<1>2. PICK x \in Mine(r), a \in Assets, s \in {"good", "bad"} :
         releases' = (releases \ {x}) \cup {[x EXCEPT !.stored[a] = s]}
  BY DEF Upload
<1>3. x \in releases /\ x \in GitHubRelease
  BY DEF Mine, Inv, TypeOK
<1> DEFINE y == [x EXCEPT !.stored[a] = s]
<1>4. y \in GitHubRelease /\ y.plan = x.plan
  <2>1. [x.stored EXCEPT ![a] = s] \in [Assets -> {"none", "good", "bad"}]
    BY <1>3 DEF GitHubRelease
  <2> QED
    BY <1>3, <2>1 DEF GitHubRelease
<1>5. releases' = (releases \ {x}) \cup {y}
  BY <1>2
<1> HIDE DEF y
<1>6. /\ releases' \subseteq GitHubRelease /\ tags' \subseteq [tag : TagName, sha : Nat]
      /\ PublicSound'
  BY <1>1, <1>3, <1>4, <1>5, SamePlan
<1>7. run' \in [Runs -> WorkflowRun] /\ Others(r) /\ RunSound(r)'
  BY <1>1 DEF Inv, TypeOK, Others, RunSound, Promoting, config
<1> QED
  BY <1>1, <1>6, <1>7, PublicStep

\* The draft becomes public.
LEMMA MakePublicStep == ASSUME Inv, NEW r \in Runs, MakePublic(r) PROVE Inv'
<1>1. /\ run[r].pc = "patch" /\ run[r].pc \in Spent /\ "patched" \in Spent /\ Go(r, "patched")
      /\ UNCHANGED <<head, branch, ledger, tags, deletes, jobs, config>>
  BY DEF MakePublic, Spent
<1>2. PICK x \in Mine(r) : releases' = (releases \ {x}) \cup {[x EXCEPT !.draft = FALSE]}
  BY DEF MakePublic
<1>3. x \in releases /\ x \in GitHubRelease
  BY DEF Mine, Inv, TypeOK
<1> DEFINE y == [x EXCEPT !.draft = FALSE]
<1>4. y \in GitHubRelease /\ y.plan = x.plan
  BY <1>3 DEF GitHubRelease
<1>5. releases' = (releases \ {x}) \cup {y} /\ tags' = tags /\ ledger' = ledger
  BY <1>1, <1>2
<1> HIDE DEF y
<1>6. /\ releases' \subseteq GitHubRelease /\ tags' \subseteq [tag : TagName, sha : Nat]
      /\ PublicSound'
  BY <1>3, <1>4, <1>5, SamePlan
<1>7. promotion' = promotion /\ jobs' = jobs
  BY <1>1 DEF config
<1>8. run' \in [Runs -> WorkflowRun] /\ Others(r) /\ RunSound(r)'
  BY <1>1, <1>5, <1>7, SpentGo
<1> QED
  BY <1>1, <1>6, <1>8, PublicStep

\* A maintainer deletes a release.
LEMMA DeleteReleaseStep == ASSUME Inv, DeleteRelease PROVE Inv'
<1>1. /\ releases' \subseteq releases /\ tags' \subseteq tags /\ deletes' = deletes + 1
      /\ UNCHANGED <<head, branch, ledger, run, jobs, grouped, promotion>>
  BY DEF DeleteRelease, config
<1>2. TypeOK' /\ LedgerSound'
  BY <1>1 DEF Inv, TypeOK, LedgerSound
<1>3. PublicSound'
  BY <1>1 DEF Inv, PublicSound
<1>4. \A q \in Runs : RunSound(q)'
  BY <1>1 DEF Inv, RunSound, Promoting
<1> QED
  BY <1>2, <1>3, <1>4 DEF Inv

-----------------------------------------------------------------------------
\* The phases that publish.
LEMMA PublishingStep == ASSUME Inv, NEW r \in Runs, Publishing(r) PROVE Inv'
<1>1. CASE Reconcile(r)
  <2>1. run[r].pc \in Spent /\ "upload" \in Spent /\ Go(r, "upload") /\ KeepGitHub
    BY <1>1 DEF Reconcile, Spent
  <2> QED
    BY <2>1, LookStep
<1>2. CASE VerifyUpload(r)
  <2>1. run[r].pc \in Spent /\ "patch" \in Spent /\ Go(r, "patch") /\ KeepGitHub
    BY <1>2 DEF VerifyUpload, Spent
  <2> QED
    BY <2>1, LookStep
<1>3. CASE Finish(r)
  <2>1. "published" \in Ended /\ End(r, "published") /\ KeepGitHub /\ run[r].pc # "none"
    BY <1>3 DEF Finish, Ended
  <2> QED
    BY <2>1, EndStep
<1> QED
  BY <1>1, <1>2, <1>3, BeginPublicationStep, ConsumeStep, CreateTagStep, CreateDraftStep,
     UploadStep, MakePublicStep DEF Publishing

\* A run that dies, wherever it is.
LEMMA AbortStep == ASSUME Inv, NEW r \in Runs, Abort(r) PROVE Inv'
<1>1. "failed" \in Ended /\ End(r, "failed") /\ KeepGitHub /\ run[r].pc # "none"
  BY DEF Abort, Ended, Waiting
<1> QED
  BY <1>1, EndStep

\* Every step of the pipeline keeps the invariant.
LEMMA NextKeepsInv == ASSUME Inv, [Next]_vars PROVE Inv'
<1>1. CASE UNCHANGED vars
  <2>1. UNCHANGED <<head, branch, ledger, tags, releases, run, deletes, jobs, grouped, promotion>>
    BY <1>1 DEF vars
  <2>2. TypeOK' /\ LedgerSound' /\ PublicSound'
    BY <2>1 DEF Inv, TypeOK, LedgerSound, PublicSound
  <2>3. \A q \in Runs : RunSound(q)'
    BY <2>1 DEF Inv, RunSound, Promoting
  <2> QED
    BY <2>2, <2>3 DEF Inv
<1>2. ASSUME NEW r \in Runs, Step(r) PROVE Inv'
  BY <1>2, PrepareStableStep, PrepareCandidateStep, ReadLedgerStep, CreateBranchStep, ReserveStep,
     ValidateStep, RecheckStep, PromoteStep, RepromoteStep, PublishingStep DEF Step
<1>3. ASSUME NEW r \in Runs, Trigger(r) \/ Rerun(r) \/ Start(r) \/ Abort(r) PROVE Inv'
  BY <1>3, TriggerStep, RerunStep, StartStep, AbortStep
<1> QED
  BY <1>1, <1>2, <1>3, PushStep, DeleteReleaseStep DEF Next

\* The empty repository.
LEMMA InitInv == Init => Inv
<1> SUFFICES ASSUME Init PROVE Inv
  OBVIOUS
<1>1. Idle \in WorkflowRun /\ Idle.pc = "none" /\ Idle.attempt = 0
  BY LedgerTypes DEF Idle, WorkflowRun, Phases, Waiting, Events
<1>2. run \in [Runs -> WorkflowRun] /\ \A r \in Runs : run[r] = Idle
  BY <1>1 DEF Init
<1>3. ledger \in Ledger /\ ledger.floor = 0 /\ ledger.counter = 0 /\ Reserved(ledger) = {}
  BY LedgerTypes DEF Init, FreshLedger, Reserved, NoPlan
<1>4. TypeOK
  <2>1. jobs \in 0 .. MaxJobs /\ deletes \in Nat
    BY DEF Init
  <2>2. grouped \in BOOLEAN /\ promotion \in {"promote-bytes", "final-build"}
    BY DEF Init
  <2>3. head \in Commits /\ tags = {} /\ releases = {} /\ branch \in BOOLEAN
    BY DEF Init
  <2> QED
    BY <1>2, <1>3, <2>1, <2>2, <2>3 DEF TypeOK
<1>5. LedgerSound /\ PublicSound
  BY <1>3 DEF LedgerSound, PublicSound, Init
<1>6. \A r \in Runs : RunSound(r)
  BY <1>1, <1>2 DEF RunSound, Init, Compiled, Spent
<1> QED
  BY <1>4, <1>5, <1>6 DEF Inv

(***************************************************************************)
(* The inductive invariant, and with it the type invariant, holds whatever *)
(* runs race, die or repeat, and whatever a maintainer deletes.            *)
(***************************************************************************)
THEOREM Invariance == Spec => []Inv
<1>1. Inv /\ [Next]_vars => Inv'
  BY NextKeepsInv
<1> QED
  BY InitInv, <1>1, PTL DEF Spec

(***************************************************************************)
(* No two runs ever hold the same build number or candidate tag, and what  *)
(* a run compiles is the plan the ledger holds for it (reserve_plan with   *)
(* its compare-and-swap write), for any number of runs.                    *)
(***************************************************************************)
THEOREM NumbersNeverSharedHolds == Spec => []NumbersNeverShared
<1>1. Inv => NumbersNeverShared
  BY DEF Inv, LedgerSound, RunSound, NumbersNeverShared
<1> QED
  BY Invariance, <1>1, PTL

(***************************************************************************)
(* The number of everything public is spent before it appears: a dying run *)
(* wastes a number and never leaves one to be used twice                   *)
(* (begin_publication before _publish_prepared).                           *)
(***************************************************************************)
THEOREM FloorCoversPublicHolds == Spec => []FloorCoversPublic
<1>1. ASSUME Inv PROVE FloorCoversPublic
  <2>1. ASSUME NEW r \in Reserved(ledger), ledger.plans[r].channel # "stable",
               HasTag(Tag(ledger.plans[r]))
        PROVE  ledger.plans[r].num <= ledger.floor
    <3>1. PICK t \in tags : t.tag = Tag(ledger.plans[r])
      BY <2>1 DEF HasTag
    <3>2. t.tag[2] # "stable"
      BY <2>1, <3>1 DEF Tag
    <3>3. PICK q \in Reserved(ledger) :
             Tag(ledger.plans[q]) = t.tag /\ ledger.plans[q].num <= ledger.floor
      BY <1>1, <3>2 DEF Inv, PublicSound
    <3>4. q = r
      BY <1>1, <2>1, <3>1, <3>3 DEF Inv, LedgerSound
    <3> QED
      BY <3>3, <3>4
  <2> QED
    BY <1>1, <2>1 DEF FloorCoversPublic, Inv, LedgerSound, PublicSound
<1> QED
  BY Invariance, <1>1, PTL

(***************************************************************************)
(* Reservations are durable: what a run reserved is never changed or given *)
(* to another (reserve_plan, write_state), so a rerun of any attempt finds *)
(* the plan it built before.                                               *)
(***************************************************************************)
THEOREM PlansAreForeverHolds == Spec => PlansAreForever
<1> DEFINE Kept == \A r \in Reserved(ledger) : ledger'.plans[r] = ledger.plans[r]
<1>1. ASSUME Inv, [Next]_vars PROVE Kept
  <2>1. CASE ledger' = ledger
    BY <2>1
  <2>2. ASSUME NEW r \in Runs, Reserve(r) PROVE Kept
    BY <1>1, <2>2, ReserveStep DEF Grows
  <2>3. ASSUME NEW r \in Runs, ConsumeNumber(r) PROVE Kept
    BY <1>1, <2>3, ConsumeStep DEF Grows
  <2>4. ASSUME NEW r \in Runs, Publishing(r), ~ConsumeNumber(r) PROVE ledger' = ledger
    BY <2>4 DEF Publishing, BeginPublication, CreateTag, CreateDraft, Reconcile, Upload,
       VerifyUpload, MakePublic, Finish, KeepGitHub
  <2>5. ASSUME NEW r \in Runs, Step(r), ~Publishing(r), ~Reserve(r) PROVE ledger' = ledger
    BY <2>5 DEF Step, PrepareStable, PrepareCandidate, ReadLedger, CreateBranch, Validate,
       Recheck, Promote, Repromote, KeepGitHub
  <2>6. ASSUME NEW r \in Runs, Trigger(r) \/ Rerun(r) \/ Start(r) \/ Abort(r)
        PROVE  ledger' = ledger
    BY <2>6 DEF Trigger, Rerun, Start, Abort, KeepGitHub
  <2>7. CASE Push \/ DeleteRelease \/ UNCHANGED vars
    BY <2>1, <2>7 DEF Push, DeleteRelease, vars
  <2> HIDE DEF Kept
  <2>8. CASE \E r \in Runs : Step(r)
    BY <2>1, <2>2, <2>3, <2>4, <2>5, <2>8
  <2> QED
    BY <1>1, <2>1, <2>6, <2>7, <2>8 DEF Next
<1> QED
  BY Invariance, <1>1, PTL DEF Spec, PlansAreForever
-----------------------------------------------------------------------------
\* Whose a release is.

\* A step of run r alone that leaves what others can see of it alone.
Moves(r) == Others(r) /\ SameOrigin(r) /\ UNCHANGED <<releases, tags, shown, grouped, promotion>>

\* Up to the spending of the number a run makes neither a tag nor a release.
LEMMA EarlyMoves ==
  ASSUME Inv, NEW r \in Runs,
         \/ Start(r) \/ PrepareStable(r) \/ PrepareCandidate(r) \/ ReadLedger(r) \/ Reserve(r)
         \/ Validate(r) \/ Recheck(r) \/ Promote(r) \/ Repromote(r) \/ BeginPublication(r)
         \/ ConsumeNumber(r)
  PROVE  /\ Moves(r) /\ run[r].pc \notin Drafted \cup Ended
         /\ run'[r].pc \notin Drafted \cup {"draft", "none"}
<1>0. run \in [Runs -> WorkflowRun] /\ run[r] \in WorkflowRun
  BY DEF Inv, TypeOK
<1>e. ASSUME NEW pc \in Ended, End(r, pc)
      PROVE  Others(r) /\ SameOrigin(r) /\ run'[r].pc = pc /\ pc \notin Drafted \cup {"draft", "none"}
  BY <1>0, <1>e, EndMoves DEF Phases, Waiting, Ended, Drafted
<1>g. ASSUME NEW pc \in Phases, Go(r, pc) PROVE Others(r) /\ SameOrigin(r) /\ run'[r].pc = pc
  BY <1>0, <1>g, GoMoves
<1>1. CASE Start(r)
  BY <1>1, <1>g DEF Start, KeepGitHub, config, Moves, Phases, Drafted, Ended
<1>2. CASE PrepareStable(r)
  <2>1. PICK q \in Runs, pc \in {"promote", "reserve"} :
           run' = [run EXCEPT ![r].pc = pc, ![r].rc = q]
    BY <1>2 DEF PrepareStable
  <2>2. Others(r) /\ SameOrigin(r) /\ run'[r].pc = pc
    BY <1>0, <2>1 DEF Others, SameOrigin, WorkflowRun
  <2> QED
    BY <1>2, <2>2 DEF PrepareStable, KeepGitHub, config, Moves, Drafted, Ended
<1>3. CASE PrepareCandidate(r)
  BY <1>3, <1>e, <1>g DEF PrepareCandidate, KeepGitHub, config, Moves, Phases, Drafted, Ended
<1>4. CASE ReadLedger(r)
  <2> DEFINE Reads(pc, p, seen) ==
        run' = [run EXCEPT ![r] = [run[r] EXCEPT !.pc = pc, !.plan = p, !.seen = seen]]
  <2>1. PICK pc, p, seen : pc \in {"validate", "write"} /\ Reads(pc, p, seen)
    <3>1. CASE r \in Reserved(ledger)
      <4>1. Reads("validate", ledger.plans[r], run[r].seen)
        BY <1>0, <1>4, <3>1 DEF ReadLedger, WorkflowRun
      <4> HIDE DEF Reads
      <4> QED
        BY <4>1
    <3>2. CASE r \notin Reserved(ledger)
      <4> DEFINE base == BaseOf[run[r].sha]
                 Planned(last) == NewPlan(ledger, last, r, run[r].attempt, base,
                                          run[r].channel, run[r].sha, run[r].rc)
      <4>1. PICK last :
               run' = [run EXCEPT ![r].pc = "write", ![r].plan = Planned(last), ![r].seen = ledger]
        BY <1>4, <3>2 DEF ReadLedger
      <4> HIDE DEF Planned
      <4>2. Reads("write", Planned(last), ledger)
        BY <4>1
      <4> HIDE DEF Reads
      <4> QED
        BY <4>2
    <3> QED
      BY <3>1, <3>2
  <2>2. Others(r) /\ SameOrigin(r) /\ run'[r].pc = pc
    BY <1>0, <2>1 DEF Others, SameOrigin, WorkflowRun
  <2>3. pc \in {"validate", "write"}
    BY <2>1
  <2> HIDE DEF Reads
  <2> QED
    BY <1>4, <2>2, <2>3 DEF ReadLedger, KeepGitHub, config, Moves, Drafted, Ended
<1>5. CASE Reserve(r)
  BY <1>5, <1>g DEF Reserve, config, Moves, Phases, Compiled, Drafted, Ended
<1>6. CASE Validate(r)
  <2>1. CASE End(r, "superseded")
    BY <1>6, <1>e, <2>1 DEF Validate, KeepGitHub, config, Moves, Drafted, Ended
  <2>2. CASE run' = [run EXCEPT ![r].pc = "recheck", ![r].bytes = Me(r)]
    <3>1. Others(r) /\ SameOrigin(r) /\ run'[r].pc = "recheck"
      BY <1>0, <2>2 DEF Others, SameOrigin, WorkflowRun
    <3> QED
      BY <1>6, <3>1 DEF Validate, KeepGitHub, config, Moves, Drafted, Ended
  <2> QED
    BY <1>6, <2>1, <2>2 DEF Validate
<1>7. CASE Recheck(r)
  <2>1. CASE End(r, "superseded") \/ End(r, "reused")
    BY <1>7, <1>e, <2>1 DEF Recheck, KeepGitHub, config, Moves, Drafted, Ended
  <2>2. CASE run' = [run EXCEPT ![r].pc = "begin", ![r].ref = head]
    <3>1. Others(r) /\ SameOrigin(r) /\ run'[r].pc = "begin"
      BY <1>0, <2>2 DEF Others, SameOrigin, WorkflowRun
    <3> QED
      BY <1>7, <3>1 DEF Recheck, KeepGitHub, config, Moves, Drafted, Ended
  <2> QED
    BY <1>7, <2>1, <2>2 DEF Recheck
<1>8. CASE Promote(r)
  <2>1. PICK x : run' = [run EXCEPT ![r].pc = "repromote", ![r].plan = x.plan, ![r].bytes = x.build]
    BY <1>8 DEF Promote
  <2>2. Others(r) /\ SameOrigin(r) /\ run'[r].pc = "repromote"
    BY <1>0, <2>1 DEF Others, SameOrigin, WorkflowRun
  <2> QED
    BY <1>8, <2>2 DEF Promote, KeepGitHub, config, Moves, Drafted, Ended
<1>9. CASE Repromote(r)
  BY <1>9, <1>g DEF Repromote, KeepGitHub, config, Moves, Phases, Compiled, Drafted, Ended
<1>10. CASE BeginPublication(r)
  <2>1. run' = [run EXCEPT ![r].pc = "consume", ![r].seen = ledger]
    BY <1>10 DEF BeginPublication
  <2>2. Others(r) /\ SameOrigin(r) /\ run'[r].pc = "consume"
    BY <1>0, <2>1 DEF Others, SameOrigin, WorkflowRun
  <2> QED
    BY <1>10, <2>2 DEF BeginPublication, KeepGitHub, config, Moves, Drafted, Ended
<1>11. CASE ConsumeNumber(r)
  <2>1. run' = [run EXCEPT ![r].pc = "tag", ![r].seen = ledger']
    BY <1>11 DEF ConsumeNumber
  <2>2. Others(r) /\ SameOrigin(r) /\ run'[r].pc = "tag"
    BY <1>0, <2>1 DEF Others, SameOrigin, WorkflowRun
  <2> QED
    BY <1>11, <2>2 DEF ConsumeNumber, config, Moves, Drafted, Ended
<1> QED
  BY <1>1, <1>2, <1>3, <1>4, <1>5, <1>6, <1>7, <1>8, <1>9, <1>10, <1>11

\* What a run that does not move knows of its release stays true.
LEMMA OwnStands ==
  ASSUME NEW q \in Runs, OwnSound(q), run'[q] = run[q],
         UNCHANGED <<releases, tags, promotion>>
  PROVE  OwnSound(q)'
<1>1. Target(q)' = Target(q) /\ Mine(q)' = Mine(q)
  BY DEF Target, Promoting, Mine, Me
<1> QED
  BY <1>1 DEF OwnSound

\* When only run r moves and does not become a creator, the creators stay apart.
LEMMA DraftsApart ==
  ASSUME OwnInv, NEW r \in Runs, Others(r), run'[r].pc # "draft", promotion' = promotion
  PROVE  \A q1, q2 \in Runs : run'[q1].pc = "draft" /\ run'[q2].pc = "draft" /\ q1 # q2
            => Target(q1)' # Target(q2)'
<1> SUFFICES ASSUME NEW q1 \in Runs, NEW q2 \in Runs, q1 # q2,
                    run'[q1].pc = "draft", run'[q2].pc = "draft"
             PROVE  Target(q1)' # Target(q2)'
  OBVIOUS
<1>1. run'[q1] = run[q1] /\ run'[q2] = run[q2]
  BY DEF Others
<1>2. Target(q1)' = Target(q1) /\ Target(q2)' = Target(q2)
  BY <1>1 DEF Target, Promoting
<1> QED
  BY <1>1, <1>2 DEF OwnInv, NamesUnique

\* A step of run r that makes nothing, before its release or at its end.
LEMMA OwnQuiet ==
  ASSUME OwnInv, NEW r \in Runs, Moves(r), run'[r].pc \notin Drafted \cup {"draft", "none"},
         run[r].pc \notin Drafted \cup Ended \/ run'[r].pc \in Ended
  PROVE  OwnInv'
<1>1. Mine(r)' = Mine(r) /\ \A q \in Runs : q # r => run'[q] = run[q]
  BY DEF Moves, Others, SameOrigin, Mine, Me
<1>2. OwnSound(r)'
  BY <1>1 DEF OwnInv, OwnSound, Moves, SameOrigin
<1>3. \A q \in Runs : OwnSound(q)'
  BY <1>1, <1>2, OwnStands DEF OwnInv, Moves
<1>4. NamesUnique'
  BY DraftsApart DEF OwnInv, NamesUnique, Moves
<1> QED
  BY <1>3, <1>4 DEF OwnInv

\* A phase of a run that holds its release and goes on with it.
LEMMA OwnGo ==
  ASSUME Inv, OwnInv, NEW r \in Runs, NEW pc \in Drafted, Go(r, pc), run[r].pc \in Drafted,
         UNCHANGED <<releases, tags, promotion>>,
         run[r].pc = "patched" => pc = "patched",
         pc = "patch" => \A x \in Mine(r), a \in Assets : x.stored[a] = "good"
  PROVE  OwnInv'
<1>1. run \in [Runs -> WorkflowRun] /\ run[r] \in WorkflowRun
  BY DEF Inv, TypeOK
<1>2. run' = [run EXCEPT ![r].pc = pc]
  BY DEF Go
<1>3. /\ run'[r].pc = pc /\ run'[r].plan = run[r].plan /\ run'[r].bytes = run[r].bytes
      /\ run'[r].attempt = run[r].attempt /\ run'[r].channel = run[r].channel
      /\ \A q \in Runs : q # r => run'[q] = run[q]
  BY <1>1, <1>2 DEF WorkflowRun
<1>4. Target(r)' = Target(r) /\ Mine(r)' = Mine(r)
  BY <1>3 DEF Target, Promoting, Mine, Me
<1>5. pc # "draft" /\ pc # "none" /\ pc \in Drafted
  BY DEF Drafted
<1>6. OwnSound(r)'
  BY <1>3, <1>4, <1>5 DEF OwnInv, OwnSound
<1>7. \A q \in Runs : OwnSound(q)'
  BY <1>3, <1>6, OwnStands DEF OwnInv
<1>8. run'[r].pc # "draft" /\ Others(r)
  BY <1>3, <1>5 DEF Others
<1>9. NamesUnique'
  BY <1>8, DraftsApart DEF OwnInv, NamesUnique
<1> QED
  BY <1>7, <1>9 DEF OwnInv

\* A run that is created or repeated has a fresh identity.
LEMMA OwnCreated ==
  ASSUME Inv, OwnInv, NEW r \in Runs, Others(r), run'[r].pc = "queued",
         \/ run[r].pc = "none" /\ run'[r].attempt = 1
         \/ run[r].pc \in Ended /\ run'[r].attempt = run[r].attempt + 1,
         UNCHANGED <<releases, tags, promotion>>
  PROVE  OwnInv'
<1>1. /\ run[r] \in WorkflowRun /\ run[r].attempt \in Nat /\ releases \subseteq GitHubRelease
      /\ \A q \in Runs : q # r => run'[q] = run[q]
  BY DEF Inv, TypeOK, WorkflowRun, Others
<1>2. "queued" \notin Drafted \cup Ended \cup {"draft"} /\ "none" \notin Drafted \cup Ended
  BY DEF Drafted, Ended
<1>3. \A x \in releases : x.id[1] = r => x.id[2] < run'[r].attempt
  <2> SUFFICES ASSUME NEW x \in releases, x.id[1] = r PROVE x.id[2] < run'[r].attempt
    OBVIOUS
  <2>1. x.id \in Nat \X Nat /\ x.id[2] \in Nat /\ x.id[2] <= run[r].attempt
    BY <1>1 DEF GitHubRelease, OwnInv, OwnSound
  <2>2. CASE run[r].pc \in Ended /\ run'[r].attempt = run[r].attempt + 1
    BY <1>1, <2>1, <2>2
  <2>3. CASE run[r].pc = "none" /\ run'[r].attempt = 1
    <3>1. run[r].attempt = 0
      BY <2>3 DEF OwnInv, OwnSound
    <3> QED
      BY <2>1, <2>3, <3>1
  <2> QED
    BY <2>2, <2>3
<1>4. \A x \in releases : x.id[1] = r => x.id[2] <= run'[r].attempt /\ x.id # <<r, run'[r].attempt>>
  <2> SUFFICES ASSUME NEW x \in releases, x.id[1] = r
               PROVE  x.id[2] <= run'[r].attempt /\ x.id # <<r, run'[r].attempt>>
    OBVIOUS
  <2>1. x.id[2] \in Nat /\ run'[r].attempt \in Nat
    BY <1>1 DEF GitHubRelease
  <2> QED
    BY <1>3, <2>1
<1>5. OwnSound(r)'
  BY <1>2, <1>4 DEF OwnSound, Mine, Me
<1>6. \A q \in Runs : OwnSound(q)'
  BY <1>1, <1>5, OwnStands DEF OwnInv
<1>7. NamesUnique'
  BY DraftsApart DEF OwnInv, NamesUnique
<1> QED
  BY <1>6, <1>7 DEF OwnInv

\* The tag is created for a name that nothing has.
LEMMA OwnCreateTag == ASSUME Inv, OwnInv, NEW r \in Runs, CreateTag(r) PROVE OwnInv'
<1>1. /\ run[r] \in WorkflowRun /\ run' = [run EXCEPT ![r].pc = "draft"] /\ Absent(Target(r))
      /\ tags' = tags \cup {[tag |-> Target(r), sha |-> run[r].plan.sha]}
      /\ run[r].pc = "tag" /\ UNCHANGED <<releases, promotion>>
  BY DEF CreateTag, Go, config, Inv, TypeOK
<1>2. /\ run'[r].pc = "draft" /\ run'[r].plan = run[r].plan
      /\ run'[r].attempt = run[r].attempt /\ run'[r].channel = run[r].channel
      /\ \A q \in Runs : q # r => run'[q] = run[q]
  BY <1>1 DEF Inv, TypeOK, WorkflowRun
<1>3. Mine(r)' = Mine(r) /\ \A q \in Runs : Target(q)' = Target(q)
  BY <1>1, <1>2 DEF Target, Promoting, Mine, Me
<1>4. /\ \A x \in releases : x.tag # Target(r)
      /\ \A t \in tags : t.tag # Target(r)
  BY <1>1 DEF Absent, Names
<1>5. OwnSound(r)'
  BY <1>1, <1>2, <1>3, <1>4 DEF OwnInv, OwnSound, Drafted, Ended
<1>6. ASSUME NEW q \in Runs, q # r PROVE OwnSound(q)'
  <2>1. Target(q)' = Target(q) /\ Mine(q)' = Mine(q) /\ run'[q] = run[q]
    BY <1>1, <1>2, <1>3, <1>6 DEF Mine, Me
  <2>2. OwnSound(q) /\ tags \subseteq tags' /\ releases' = releases
    BY <1>1 DEF OwnInv
  <2> QED
    BY <2>1, <2>2 DEF OwnSound
<1>7. ASSUME NEW q \in Runs, q # r, run[q].pc = "draft" PROVE Target(q) # Target(r)
  <2> DEFINE t == [tag |-> Target(q), sha |-> run[q].plan.sha]
  <2>1. t \in tags /\ t.tag = Target(q)
    BY <1>7 DEF OwnInv, OwnSound
  <2> QED
    BY <1>4, <2>1
<1>8. ASSUME NEW q1 \in Runs, NEW q2 \in Runs, q1 # q2,
             run'[q1].pc = "draft", run'[q2].pc = "draft"
      PROVE  Target(q1)' # Target(q2)'
  <2>1. CASE q1 = r
    BY <1>2, <1>3, <1>7, <1>8, <2>1
  <2>2. CASE q2 = r
    BY <1>2, <1>3, <1>7, <1>8, <2>2
  <2>3. CASE q1 # r /\ q2 # r
    BY <1>2, <1>3, <1>8, <2>3 DEF OwnInv, NamesUnique
  <2> QED
    BY <2>1, <2>2, <2>3
<1>9. NamesUnique'
  BY <1>1, <1>8 DEF OwnInv, NamesUnique
<1> QED
  BY <1>5, <1>6, <1>9 DEF OwnInv

\* The release-create call: the run's only release, under the tag it made.
LEMMA OwnCreateDraft == ASSUME Inv, OwnInv, NEW r \in Runs, CreateDraft(r) PROVE OwnInv'
<1>1. PICK pc \in {"upload", "reconcile"} : run' = [run EXCEPT ![r].pc = pc]
  BY DEF CreateDraft, Go
<1>2. /\ run[r] \in WorkflowRun /\ run[r].pc = "draft" /\ UNCHANGED <<tags, promotion>>
      /\ releases' = releases \/ releases' = releases \cup {Draft(r)}
  BY DEF CreateDraft, config, Inv, TypeOK
<1>3. /\ run'[r].pc = pc /\ run'[r].plan = run[r].plan /\ run'[r].bytes = run[r].bytes
      /\ run'[r].attempt = run[r].attempt /\ run'[r].channel = run[r].channel
      /\ \A q \in Runs : q # r => run'[q] = run[q]
  BY <1>1, <1>2 DEF Inv, TypeOK, WorkflowRun
<1>4. Me(r)' = Me(r) /\ \A q \in Runs : Target(q)' = Target(q)
  BY <1>2, <1>3 DEF Target, Promoting, Me
<1>5. /\ Mine(r) = {} /\ \A x \in releases : x.tag # Target(r)
      /\ [tag |-> Target(r), sha |-> run[r].plan.sha] \in tags
  BY <1>2 DEF OwnInv, OwnSound, Drafted, Ended
<1>6. /\ Draft(r).id = Me(r) /\ Draft(r).tag = Target(r) /\ Draft(r).plan = run[r].plan
      /\ Draft(r).build = run[r].bytes /\ Draft(r).draft
  BY DEF Draft
<1>7. Mine(r)' \subseteq {Draft(r)}
  BY <1>2, <1>4, <1>5 DEF Mine
<1>8. run[r].attempt \in Nat /\ Me(r)[1] = r /\ Me(r)[2] = run[r].attempt
  BY <1>2 DEF WorkflowRun, Me
<1>9. pc \in Drafted /\ pc \notin {"draft", "none", "patch"}
  BY DEF Drafted
<1>10. OwnSound(r)'
  <2>1. \A x \in releases' : x.id[1] = r => x.id[2] <= run'[r].attempt
    <3>1. \A x \in releases : x.id[1] = r => x.id[2] <= run'[r].attempt
      BY <1>3 DEF OwnInv, OwnSound
    <3>2. Draft(r).id[2] <= run'[r].attempt
      BY <1>3, <1>6, <1>8
    <3> QED
      BY <1>2, <3>1, <3>2
  <2>2. \A x \in Mine(r)' : x.tag = Target(r)' /\ x.plan = run'[r].plan /\ x.build = run'[r].bytes
                            /\ x.draft
    BY <1>3, <1>4, <1>6, <1>7
  <2> QED
    BY <1>3, <1>9, <2>1, <2>2 DEF OwnSound
<1>11. ASSUME NEW q \in Runs, q # r PROVE OwnSound(q)'
  <2>1. run'[q] = run[q] /\ Me(q)' = Me(q) /\ Me(q) # Me(r) /\ OwnSound(q)
    BY <1>3, <1>11 DEF Me, OwnInv
  <2>2. Mine(q)' = Mine(q)
    BY <1>2, <1>6, <2>1 DEF Mine
  <2>3. \A x \in releases' : x.id[1] = q => x.id[2] <= run'[q].attempt
    BY <1>2, <1>6, <1>8, <1>11, <2>1 DEF OwnSound
  <2>4. run[q].pc = "draft" => \A x \in releases' : x.tag # Target(q)
    BY <1>2, <1>6, <1>11, <2>1 DEF OwnSound, OwnInv, NamesUnique
  <2> QED
    BY <1>2, <1>4, <2>1, <2>2, <2>3, <2>4 DEF OwnSound
<1>12. run'[r].pc # "draft" /\ Others(r)
  BY <1>3, <1>9 DEF Others
<1>13. \A x, y \in releases' : x.tag = y.tag \/ x.id = y.id => x = y
  <2>1. \A x \in releases : x.tag # Draft(r).tag /\ x.id # Draft(r).id
    BY <1>5, <1>6 DEF Mine
  <2>2. \A x, y \in releases : x.tag = y.tag \/ x.id = y.id => x = y
    BY DEF OwnInv, NamesUnique
  <2> HIDE DEF Draft
  <2> QED
    BY <1>2, <2>1, <2>2
<1>14. \A x \in releases' : [tag |-> x.tag, sha |-> x.plan.sha] \in tags'
  BY <1>2, <1>5, <1>6 DEF OwnInv, NamesUnique
<1>15. NamesUnique'
  BY <1>2, <1>12, <1>13, <1>14, DraftsApart DEF NamesUnique
<1> QED
  BY <1>10, <1>11, <1>15 DEF OwnInv

\* A release of the run changes, but not its name, identity, plan and bytes.
LEMMA OwnChange ==
  ASSUME Inv, OwnInv, NEW r \in Runs, NEW x \in Mine(r), NEW y \in GitHubRelease,
         y.id = x.id, y.tag = x.tag, y.plan = x.plan, y.build = x.build,
         releases' = (releases \ {x}) \cup {y}, UNCHANGED <<tags, promotion>>,
         Others(r), SameOrigin(r), run[r].pc \in Drafted, run'[r].pc \in Drafted,
         run'[r].plan = run[r].plan, run'[r].bytes = run[r].bytes,
         run'[r].pc # "patched" => y.draft, run'[r].pc # "patch"
  PROVE  OwnInv'
<1>1. \A q \in Runs : q # r => run'[q] = run[q]
  BY DEF Others
<1>2. \A q \in Runs : Me(q)' = Me(q) /\ Target(q)' = Target(q)
  BY <1>1 DEF Me, Target, Promoting, SameOrigin
<1>3. x \in releases /\ x.id = Me(r) /\ \A z \in releases : z.id = Me(r) => z = x
  BY DEF Mine, OwnInv, NamesUnique
<1>4. Mine(r)' = {y}
  BY <1>2, <1>3 DEF Mine
<1>5. run'[r].pc \notin {"draft", "none"}
  BY DEF Drafted
<1>6. OwnSound(r)'
  <2>1. \A z \in releases' : z.id[1] = r => z.id[2] <= run'[r].attempt
    <3>1. \A z \in releases : z.id[1] = r => z.id[2] <= run[r].attempt
      BY DEF OwnInv, OwnSound
    <3> QED
      BY <1>3, <3>1 DEF SameOrigin
  <2>2. x.tag = Target(r) /\ x.plan = run[r].plan /\ x.build = run[r].bytes
    BY DEF OwnInv, OwnSound
  <2> QED
    BY <1>2, <1>4, <1>5, <2>1, <2>2 DEF OwnSound
<1>7. ASSUME NEW q \in Runs, q # r PROVE OwnSound(q)'
  <2>1. run'[q] = run[q] /\ Me(q) # Me(r) /\ OwnSound(q)
    BY <1>1, <1>7 DEF Me, OwnInv
  <2>2. Mine(q)' = Mine(q)
    BY <1>2, <1>3, <2>1 DEF Mine
  <2>3. \A z \in releases' : z.id[1] = q => z.id[2] <= run'[q].attempt
    BY <1>3, <2>1 DEF OwnSound
  <2>4. run[q].pc = "draft" => \A z \in releases' : z.tag # Target(q)
    BY <1>3, <2>1 DEF OwnSound
  <2> QED
    BY <1>2, <2>1, <2>2, <2>3, <2>4 DEF OwnSound
<1>8. NamesUnique'
  <2>1. \A z1, z2 \in releases' : z1.tag = z2.tag \/ z1.id = z2.id => z1 = z2
    BY <1>3 DEF OwnInv, NamesUnique
  <2>2. \A z \in releases' : [tag |-> z.tag, sha |-> z.plan.sha] \in tags'
    BY <1>3 DEF OwnInv, NamesUnique
  <2> QED
    BY <1>5, <2>1, <2>2, DraftsApart DEF NamesUnique
<1> QED
  BY <1>6, <1>7, <1>8 DEF OwnInv

\* A deleted release takes along at most its own tag.
LEMMA OwnDelete == ASSUME Inv, OwnInv, DeleteRelease PROVE OwnInv'
<1>1. PICK x \in releases :
         releases' = releases \ {x} /\ tags' \in {tags, {t \in tags : t.tag # x.tag}}
  BY DEF DeleteRelease
<1>2. run' = run /\ promotion' = promotion
  BY DEF DeleteRelease, config
<1>3. \A q \in Runs : Target(q)' = Target(q) /\ Mine(q)' \subseteq Mine(q)
  BY <1>1, <1>2 DEF Target, Promoting, Mine, Me
<1>4. ASSUME NEW q \in Runs PROVE OwnSound(q)'
  <2> DEFINE t == [tag |-> Target(q), sha |-> run[q].plan.sha]
  <2>1. OwnSound(q)
    BY DEF OwnInv
  <2>2. run[q].pc = "draft" => t \in tags' /\ \A y \in releases' : y.tag # Target(q)
    <3>1. SUFFICES ASSUME run[q].pc = "draft"
                   PROVE  t \in tags' /\ \A y \in releases' : y.tag # Target(q)
      OBVIOUS
    <3>2. t \in tags /\ t.tag = Target(q) /\ \A y \in releases : y.tag # Target(q)
      BY <2>1, <3>1 DEF OwnSound
    <3> QED
      BY <1>1, <3>2
  <2> HIDE DEF t
  <2>3. run[q].pc = "draft" => /\ [tag |-> Target(q), sha |-> run[q].plan.sha] \in tags'
                               /\ \A y \in releases' : y.tag # Target(q)
    BY <2>2 DEF t
  <2>4. releases' \subseteq releases /\ Mine(q)' \subseteq Mine(q)
    BY <1>1, <1>3
  <2> QED
    BY <1>2, <1>3, <2>1, <2>3, <2>4 DEF OwnSound
<1>5. NamesUnique'
  <2>1. \A y \in releases' : [tag |-> y.tag, sha |-> y.plan.sha] \in tags'
    <3> SUFFICES ASSUME NEW y \in releases' PROVE [tag |-> y.tag, sha |-> y.plan.sha] \in tags'
      OBVIOUS
    <3> DEFINE t == [tag |-> y.tag, sha |-> y.plan.sha]
    <3>1. y \in releases /\ y # x /\ t \in tags /\ t.tag = y.tag
      BY <1>1 DEF OwnInv, NamesUnique
    <3>2. y.tag # x.tag
      BY <3>1 DEF OwnInv, NamesUnique
    <3> QED
      BY <1>1, <3>1, <3>2
  <2>2. \A y, z \in releases' : y.tag = z.tag \/ y.id = z.id => y = z
    BY <1>1 DEF OwnInv, NamesUnique
  <2> QED
    BY <1>2, <1>3, <2>1, <2>2 DEF OwnInv, NamesUnique
<1> QED
  BY <1>4, <1>5 DEF OwnInv

\* A push, a trigger or a repetition creates at most one attempt.
LEMMA OwnAround ==
  ASSUME Inv, OwnInv, Push \/ \E r \in Runs : Trigger(r) \/ Rerun(r)
  PROVE  OwnInv'
<1>1. UNCHANGED <<releases, tags, promotion>>
  BY DEF Push, Trigger, Rerun, config
<1>2. CASE run' = run
  <2>1. \A q \in Runs : OwnSound(q)'
    BY <1>1, <1>2, OwnStands DEF OwnInv
  <2>2. \A q \in Runs : Target(q)' = Target(q)
    BY <1>1, <1>2 DEF Target, Promoting
  <2> QED
    BY <1>1, <1>2, <2>1, <2>2 DEF OwnInv, NamesUnique
<1>3. ASSUME NEW r \in Runs, NEW event, NEW channel, NEW sha, Created(r, event, channel, sha)
      PROVE  OwnInv'
  <2>1. /\ run[r].pc = "none" /\ run \in [Runs -> WorkflowRun]
        /\ run' = [run EXCEPT ![r] = [Idle EXCEPT !.pc = "queued", !.event = event,
                                      !.channel = channel, !.sha = sha, !.attempt = 1]]
    BY <1>3 DEF Created, NextRun, Inv, TypeOK
  <2>2. Others(r) /\ run'[r].pc = "queued" /\ run'[r].attempt = 1
    BY <2>1 DEF Others, Idle
  <2> QED
    BY <1>1, <2>1, <2>2, OwnCreated
<1>4. ASSUME NEW r \in Runs, Rerun(r) PROVE OwnInv'
  <2>1. run[r].pc \in Ended /\ run \in [Runs -> WorkflowRun] /\ run[r] \in WorkflowRun
        /\ run' = [run EXCEPT ![r].pc = "queued", ![r].attempt = @ + 1]
    BY <1>4 DEF Rerun, Inv, TypeOK
  <2>2. Others(r) /\ run'[r].pc = "queued" /\ run'[r].attempt = run[r].attempt + 1
    BY <2>1 DEF Others, WorkflowRun
  <2> QED
    BY <1>1, <2>1, <2>2, OwnCreated
<1>5. CASE Push
  BY <1>2, <1>3, <1>5 DEF Push
<1>6. ASSUME NEW r \in Runs, Trigger(r) PROVE OwnInv'
  BY <1>3, <1>6 DEF Trigger
<1> QED
  BY <1>4, <1>5, <1>6

\* The end of a run, wherever it is.
LEMMA OwnEnd ==
  ASSUME Inv, OwnInv, NEW r \in Runs, NEW pc \in Ended, End(r, pc), KeepGitHub
  PROVE  OwnInv'
<1>1. pc \in Phases /\ pc \notin Drafted \cup {"draft", "none"}
  BY DEF Phases, Waiting, Ended, Drafted
<1>2. Others(r) /\ SameOrigin(r) /\ run'[r].pc = pc
  BY <1>1, EndMoves DEF Inv, TypeOK
<1>3. Moves(r)
  BY <1>2 DEF Moves, KeepGitHub, config
<1> QED
  BY <1>1, <1>2, <1>3, OwnQuiet

\* The phases that look at, fill and show the run's release.
LEMMA OwnPublishing ==
  ASSUME Inv, OwnInv, NEW r \in Runs,
         Reconcile(r) \/ Upload(r) \/ VerifyUpload(r) \/ MakePublic(r) \/ Finish(r)
  PROVE  OwnInv'
<1>0. run \in [Runs -> WorkflowRun] /\ run[r] \in WorkflowRun /\ Mine(r) \subseteq GitHubRelease
  BY DEF Inv, TypeOK, Mine
<1>1. CASE Reconcile(r)
  BY <1>1, OwnGo DEF Reconcile, Drafted, KeepGitHub, config
<1>2. CASE VerifyUpload(r)
  <2>1. PICK x \in Mine(r) : \A a \in Assets : x.stored[a] = "good"
    BY <1>2 DEF VerifyUpload
  <2>2. \A y \in Mine(r) : y = x
    BY DEF Mine, OwnInv, NamesUnique
  <2> QED
    BY <1>2, <2>1, <2>2, OwnGo DEF VerifyUpload, Drafted, KeepGitHub, config
<1>3. CASE Finish(r)
  BY <1>3, OwnEnd DEF Finish, Ended
<1>4. CASE Upload(r)
  <2>1. PICK x \in Mine(r), a \in Assets, s \in {"good", "bad"} :
           releases' = (releases \ {x}) \cup {[x EXCEPT !.stored[a] = s]}
    BY <1>4 DEF Upload
  <2> DEFINE y == [x EXCEPT !.stored[a] = s]
  <2>2. x \in GitHubRelease /\ x.stored \in [Assets -> {"none", "good", "bad"}]
    BY <1>0 DEF GitHubRelease
  <2>3. /\ y \in GitHubRelease /\ y.id = x.id /\ y.tag = x.tag /\ y.plan = x.plan
        /\ y.build = x.build /\ y.draft = x.draft
    <3>1. [x.stored EXCEPT ![a] = s] \in [Assets -> {"none", "good", "bad"}]
      BY <2>2
    <3> QED
      BY <2>2, <3>1 DEF GitHubRelease
  <2>4. /\ run' = run /\ UNCHANGED <<tags, promotion>> /\ run[r].pc = "upload"
        /\ run[r].pc \in Drafted
    BY <1>4 DEF Upload, config, Drafted
  <2>5. Others(r) /\ SameOrigin(r) /\ x.draft
    BY <2>4 DEF Others, SameOrigin, OwnInv, OwnSound
  <2> HIDE DEF y
  <2>6. releases' = (releases \ {x}) \cup {y}
    BY <2>1 DEF y
  <2> QED
    BY <2>3, <2>4, <2>5, <2>6, OwnChange
<1>5. CASE MakePublic(r)
  <2>1. PICK x \in Mine(r) : releases' = (releases \ {x}) \cup {[x EXCEPT !.draft = FALSE]}
    BY <1>5 DEF MakePublic
  <2> DEFINE y == [x EXCEPT !.draft = FALSE]
  <2>2. /\ y \in GitHubRelease /\ y.id = x.id /\ y.tag = x.tag /\ y.plan = x.plan
        /\ y.build = x.build
    BY <1>0 DEF GitHubRelease
  <2>3. /\ run' = [run EXCEPT ![r].pc = "patched"] /\ UNCHANGED <<tags, promotion>>
        /\ run[r].pc \in Drafted
    BY <1>5 DEF MakePublic, Go, config, Drafted
  <2>4. /\ Others(r) /\ SameOrigin(r) /\ run'[r].pc = "patched" /\ "patched" \in Drafted
        /\ run'[r].plan = run[r].plan /\ run'[r].bytes = run[r].bytes
    BY <1>0, <2>3 DEF Others, SameOrigin, WorkflowRun, Drafted
  <2> HIDE DEF y
  <2>5. releases' = (releases \ {x}) \cup {y}
    BY <2>1 DEF y
  <2> QED
    BY <2>2, <2>3, <2>4, <2>5, OwnChange
<1> QED
  BY <1>1, <1>2, <1>3, <1>4, <1>5

\* Every step keeps names and identities unique and releases owned.
LEMMA NextKeepsOwn == ASSUME Inv, OwnInv, [Next]_vars PROVE OwnInv'
<1>1. CASE UNCHANGED vars
  <2>1. UNCHANGED <<releases, tags, run, promotion>>
    BY <1>1 DEF vars
  <2>2. \A q \in Runs : OwnSound(q)' /\ Target(q)' = Target(q)
    BY <2>1, OwnStands DEF OwnInv, Target, Promoting
  <2> QED
    BY <2>1, <2>2 DEF OwnInv, NamesUnique
<1>2. ASSUME NEW r \in Runs, Step(r) \/ Start(r) PROVE OwnInv'
  <2>1. CASE CreateBranch(r)
    <3>1. UNCHANGED <<releases, tags, run, promotion>>
      BY <2>1 DEF CreateBranch, config
    <3>2. \A q \in Runs : OwnSound(q)' /\ Target(q)' = Target(q)
      BY <3>1, OwnStands DEF OwnInv, Target, Promoting
    <3> QED
      BY <3>1, <3>2 DEF OwnInv, NamesUnique
  <2>2. CASE \/ Start(r) \/ PrepareStable(r) \/ PrepareCandidate(r) \/ ReadLedger(r) \/ Reserve(r)
             \/ Validate(r) \/ Recheck(r) \/ Promote(r) \/ Repromote(r) \/ BeginPublication(r)
             \/ ConsumeNumber(r)
    BY <2>2, EarlyMoves, OwnQuiet
  <2> QED
    BY <1>2, <2>1, <2>2, OwnCreateTag, OwnCreateDraft, OwnPublishing DEF Step, Publishing
<1>3. ASSUME NEW r \in Runs, Abort(r) PROVE OwnInv'
  BY <1>3, OwnEnd DEF Abort, Ended
<1> QED
  BY <1>1, <1>2, <1>3, OwnDelete, OwnAround DEF Next

-----------------------------------------------------------------------------
\* The history of publications.

\* Phases outside a publication ask nothing of the history.
LEMMA HistoryNothing ==
  ASSUME NEW r \in Runs, run'[r].pc \notin Compiled \cup {"repromote"}
  PROVE  HistorySound(r)'
  BY DEF HistorySound, Compiled, Spent

\* What a run knows of the history stays true when nothing is published.
LEMMA HistoryStands ==
  ASSUME NEW q \in Runs, HistorySound(q), run'[q] = run[q],
         UNCHANGED <<shown, grouped, promotion>>, ledger'.floor = ledger.floor,
         Published' \subseteq Published
  PROVE  HistorySound(q)'
<1>1. Promoting(q)' = Promoting(q)
  BY DEF Promoting
<1>2. \A t, n, b : InLog(t, n, b)' = InLog(t, n, b)
  BY DEF InLog
<1> QED
  BY <1>1, <1>2 DEF HistorySound

\* The same for the run that moves, while it keeps its plan and its bytes.
LEMMA HistoryCarries ==
  ASSUME NEW r \in Runs, HistorySound(r), UNCHANGED <<shown, grouped, promotion>>,
         ledger'.floor = ledger.floor, Published' \subseteq Published,
         run'[r].plan = run[r].plan, run'[r].bytes = run[r].bytes,
         run'[r].channel = run[r].channel,
         run[r].pc \in Compiled \cup {"repromote"}, run'[r].pc \in Compiled \ {"consume"},
         run'[r].pc \in Spent => run[r].pc \in Spent \ {"patched"},
         Promoting(r) \/ run[r].pc \in Compiled \ {"validate", "patched"}
  PROVE  HistorySound(r)'
<1>1. Promoting(r)' = Promoting(r)
  BY DEF Promoting
<1>2. \A t, n, b : InLog(t, n, b)' = InLog(t, n, b)
  BY DEF InLog
<1> QED
  BY <1>1, <1>2 DEF HistorySound

\* A run that moves is the only one under way, or stops being so.
LEMMA SerialMoves ==
  ASSUME Serialized, NEW r \in Runs, Others(r), grouped' = grouped,
         run[r].pc \notin Waiting \/ run'[r].pc \in Waiting
  PROVE  Serialized'
  BY DEF Serialized, Others

\* A step of run r that publishes nothing and spends nothing.
LEMMA LogOne ==
  ASSUME LogInv, NEW r \in Runs, Others(r), HistorySound(r)', LogSound', Serialized',
         UNCHANGED <<shown, grouped, promotion>>, ledger'.floor = ledger.floor,
         Published' \subseteq Published
  PROVE  LogInv'
<1>1. \A q \in Runs : q # r => run'[q] = run[q] /\ HistorySound(q)
  BY DEF Others, LogInv
<1>2. \A q \in Runs : HistorySound(q)'
  BY <1>1, HistoryStands
<1> QED
  BY <1>2 DEF LogInv

\* The history is unchanged with what it tells of.
LEMMA LogSame ==
  ASSUME LogSound, UNCHANGED <<shown, releases>>, ledger'.floor = ledger.floor
  PROVE  LogSound' /\ Published' = Published
<1>1. \A t, n, b : InLog(t, n, b)' = InLog(t, n, b)
  BY DEF InLog
<1> QED
  BY <1>1 DEF LogSound, Published

\* A step of run r alone, before it spends its number.
LEMMA LogQuiet ==
  ASSUME LogInv, NEW r \in Runs, Moves(r), HistorySound(r)', ledger'.floor = ledger.floor,
         run[r].pc \notin Waiting \/ run'[r].pc \in Waiting
  PROVE  LogInv'
<1>1. Others(r) /\ UNCHANGED <<shown, grouped, promotion, releases>>
  BY DEF Moves
<1>2. LogSound' /\ Published' = Published
  BY <1>1, LogSame DEF LogInv
<1>3. Serialized'
  BY <1>1, SerialMoves DEF LogInv
<1> QED
  BY <1>1, <1>2, <1>3, LogOne

\* Steps that only prepare: the run holds no plan afterwards, or only a plan.
LEMMA LogPrepares ==
  ASSUME Inv, Inv', LogInv, NEW r \in Runs,
         \/ Start(r) \/ PrepareStable(r) \/ PrepareCandidate(r) \/ ReadLedger(r) \/ Reserve(r)
  PROVE  LogInv'
<1>1. Moves(r)
  BY EarlyMoves
<1>2. ledger'.floor = ledger.floor
  <2>1. CASE Reserve(r)
    <3>1. ledger \in Ledger /\ ledger' = WithPlan(ledger, r, run[r].plan)
      BY <2>1 DEF Inv, TypeOK, Reserve, CompareAndSwap
    <3> QED
      BY <3>1 DEF WithPlan, Ledger
  <2>2. CASE ~Reserve(r)
    BY <2>2 DEF Start, PrepareStable, PrepareCandidate, ReadLedger, KeepGitHub
  <2> QED
    BY <2>1, <2>2
<1>3. run \in [Runs -> WorkflowRun] /\ run[r] \in WorkflowRun /\ r \in DOMAIN run
  BY DEF Inv, TypeOK
<1>4. run'[r].pc \in {"prepare", "promote", "reserve", "version_required", "write", "validate"}
  <2>1. ASSUME NEW pc \in Phases, Go(r, pc) PROVE run'[r].pc = pc
    BY <1>3, <2>1, GoMoves
  <2>2. ASSUME NEW pc \in Phases, End(r, pc) PROVE run'[r].pc = pc
    BY <1>3, <2>2, EndMoves
  <2>3. CASE Start(r) \/ PrepareCandidate(r) \/ Reserve(r)
    BY <2>1, <2>2, <2>3 DEF Start, PrepareCandidate, Reserve, Phases, Waiting, Ended, Compiled
  <2>4. CASE PrepareStable(r)
    <3>1. PICK q \in Runs, pc \in {"promote", "reserve"} :
             run' = [run EXCEPT ![r].pc = pc, ![r].rc = q]
      BY <2>4 DEF PrepareStable
    <3> QED
      BY <1>3, <3>1 DEF WorkflowRun
  <2>5. CASE ReadLedger(r)
    <3>1. PICK last :
             \/ run' = [run EXCEPT ![r].pc = "validate", ![r].plan = ledger.plans[r]]
             \/ run' = [run EXCEPT ![r].pc = "write",
                          ![r].plan = NewPlan(ledger, last, r, run[r].attempt,
                                              BaseOf[run[r].sha], run[r].channel,
                                              run[r].sha, run[r].rc),
                          ![r].seen = ledger]
      BY <2>5 DEF ReadLedger
    <3>2. CASE run' = [run EXCEPT ![r].pc = "validate", ![r].plan = ledger.plans[r]]
      BY <1>3, <3>2 DEF WorkflowRun
    <3> DEFINE p == NewPlan(ledger, last, r, run[r].attempt, BaseOf[run[r].sha],
                            run[r].channel, run[r].sha, run[r].rc)
    <3>3. CASE run' = [run EXCEPT ![r].pc = "write", ![r].plan = p, ![r].seen = ledger]
      <4> HIDE DEF p
      <4> QED
        BY <1>3, <3>3 DEF WorkflowRun
    <3> QED
      BY <3>1, <3>2, <3>3
  <2> QED
    BY <2>3, <2>4, <2>5
<1>5. HistorySound(r)'
  <2>1. CASE run'[r].pc = "validate"
    <3>1. ~Promoting(r)'
      BY <2>1 DEF Inv, RunSound
    <3> QED
      BY <2>1, <3>1 DEF HistorySound, Spent
  <2>2. CASE run'[r].pc # "validate"
    BY <1>4, <2>2, HistoryNothing DEF Compiled
  <2> QED
    BY <2>1, <2>2
<1>6. Serialized'
  <2>1. CASE Start(r)
    BY <1>1, <2>1 DEF Start, LogInv, Serialized, Moves, Others
  <2>2. CASE ~Start(r)
    <3>1. run[r].pc \notin Waiting
      BY <2>2 DEF PrepareStable, PrepareCandidate, ReadLedger, Reserve, Waiting, Ended
    <3> QED
      BY <1>1, <3>1, SerialMoves DEF LogInv, Moves
  <2> QED
    BY <2>1, <2>2
<1>7. UNCHANGED <<shown, grouped, promotion, releases>> /\ Others(r)
  BY <1>1 DEF Moves
<1>8. LogSound' /\ Published' = Published
  BY <1>2, <1>7, LogSame DEF LogInv
<1> QED
  BY <1>2, <1>5, <1>6, <1>7, <1>8, LogOne

\* A run that ends, wherever it is.
LEMMA LogEnd ==
  ASSUME Inv, LogInv, NEW r \in Runs, NEW pc \in Ended, End(r, pc), KeepGitHub
  PROVE  LogInv'
<1>1. pc \in Phases /\ pc \in Waiting /\ pc \notin Compiled \cup {"repromote"}
  BY DEF Phases, Waiting, Ended, Compiled
<1>2. Others(r) /\ SameOrigin(r) /\ run'[r].pc = pc
  BY <1>1, EndMoves DEF Inv, TypeOK
<1>3. Moves(r) /\ ledger' = ledger
  BY <1>2 DEF Moves, KeepGitHub, config
<1> QED
  BY <1>1, <1>2, <1>3, HistoryNothing, LogQuiet

\* The looks of a run between its build and its publication.
LEMMA LogLooks ==
  ASSUME Inv, Inv', LogInv, NEW r \in Runs,
         Validate(r) \/ Recheck(r) \/ Promote(r) \/ Repromote(r) \/ BeginPublication(r)
  PROVE  LogInv'
<1>0. /\ Moves(r) /\ ledger' = ledger /\ KeepGitHub
      /\ run[r].pc \notin Waiting /\ HistorySound(r)
  BY EarlyMoves DEF Validate, Recheck, Promote, Repromote, BeginPublication, KeepGitHub,
     Waiting, Ended, LogInv
<1>1. run \in [Runs -> WorkflowRun] /\ run[r] \in WorkflowRun /\ r \in DOMAIN run
  BY DEF Inv, TypeOK
<1>2. /\ LogSound' /\ Published' = Published /\ UNCHANGED <<shown, grouped, promotion>>
      /\ run'[r].channel = run[r].channel
  BY <1>0, LogSame DEF Moves, SameOrigin, LogInv
<1>3. \A t, n, b : InLog(t, n, b)' = InLog(t, n, b)
  BY <1>2 DEF InLog
<1>4. ASSUME NEW pc \in Ended, End(r, pc) PROVE LogInv'
  BY <1>0, <1>4, LogEnd
<1>5. CASE Validate(r)
  <2>1. CASE run' = [run EXCEPT ![r].pc = "recheck", ![r].bytes = Me(r)]
    <3>1. run'[r].pc = "recheck" /\ run'[r].plan = run[r].plan
      BY <1>1, <2>1 DEF WorkflowRun
    <3>2. ~Promoting(r)'
      BY <3>1 DEF Inv, RunSound
    <3>3. run[r].plan.channel \in {"beta", "rc"} => StableTag(run[r].plan.base) \notin Published
      BY <1>5 DEF Validate, Absent, Names, Published
    <3>4. HistorySound(r)'
      BY <1>2, <3>1, <3>2, <3>3 DEF HistorySound, Spent
    <3> QED
      BY <1>0, <3>4, LogQuiet
  <2> QED
    BY <1>4, <1>5, <2>1 DEF Validate, Ended
<1>6. CASE Recheck(r)
  <2>1. CASE run' = [run EXCEPT ![r].pc = "begin", ![r].ref = head]
    <3>1. /\ run'[r].pc = "begin" /\ run'[r].plan = run[r].plan
          /\ run'[r].bytes = run[r].bytes /\ run[r].pc = "recheck"
      BY <1>1, <1>6, <2>1 DEF WorkflowRun, Recheck
    <3>2. HistorySound(r)'
      BY <1>0, <1>2, <3>1, HistoryCarries DEF Compiled, Spent
    <3> QED
      BY <1>0, <3>2, LogQuiet
  <2> QED
    BY <1>4, <1>6, <2>1 DEF Recheck, Ended
<1>7. CASE Promote(r)
  <2>1. PICK x \in AcceptedRC(r, run[r].rc) :
           run' = [run EXCEPT ![r].pc = "repromote", ![r].plan = x.plan, ![r].bytes = x.build]
    BY <1>7 DEF Promote
  <2>2. run'[r].pc = "repromote" /\ run'[r].plan = x.plan /\ run'[r].bytes = x.build
    BY <1>1, <2>1 DEF WorkflowRun
  <2>3. x \in releases /\ ~x.draft /\ x.tag = Tag(x.plan)
    BY <2>1 DEF AcceptedRC, Intact
  <2>4. InLog(Tag(x.plan), x.plan.num, x.build)
    BY <2>3 DEF LogInv, LogSound
  <2>5. HistorySound(r)'
    BY <1>3, <2>2, <2>4 DEF HistorySound, Spent, Compiled
  <2> QED
    BY <1>0, <2>5, LogQuiet
<1>8. CASE Repromote(r)
  <2>1. run[r].pc = "repromote" /\ Promoting(r)
    BY <1>8 DEF Repromote, Inv, RunSound
  <2>2. /\ run'[r].pc = "begin" /\ run'[r].plan = run[r].plan
        /\ run'[r].bytes = run[r].bytes
    BY <1>1, <1>8 DEF WorkflowRun, Repromote, Go
  <2>3. HistorySound(r)'
    BY <1>0, <1>2, <2>1, <2>2, HistoryCarries DEF Compiled, Spent
  <2> QED
    BY <1>0, <2>3, LogQuiet
<1>9. CASE BeginPublication(r)
  <2>1. /\ run'[r].pc = "consume" /\ run'[r].plan = run[r].plan /\ run'[r].seen = ledger
        /\ run'[r].bytes = run[r].bytes /\ run[r].pc = "begin"
    BY <1>1, <1>9 DEF WorkflowRun, BeginPublication
  <2>2. Promoting(r)' = Promoting(r)
    BY <1>2 DEF Promoting
  <2>3. ~Promoting(r) => ledger.floor < run[r].plan.num
    BY <1>1, <1>9 DEF BeginPublication, VerifyReservation, Inv, TypeOK, Ledger, WorkflowRun, Plan
  <2>4. HistorySound(r)'
    BY <1>0, <1>2, <1>3, <2>1, <2>2, <2>3 DEF HistorySound, Spent, Compiled
  <2> QED
    BY <1>0, <2>4, LogQuiet
<1> QED
  BY <1>5, <1>6, <1>7, <1>8, <1>9

\* Entries of the history have numbers.
LEMMA EntryTypes ==
  ASSUME LogSound, NEW i \in DOMAIN shown
  PROVE  shown[i] \in [tag : TagName, num : Nat, build : Nat \X Nat] /\ shown[i].num \in Nat
<1> DEFINE T == [tag : TagName, num : Nat, build : Nat \X Nat]
<1>1. shown \in Seq(T)
  BY DEF LogSound
<1>2. shown[i] \in T
  <2> HIDE DEF T
  <2> QED
    BY <1>1
<1> QED
  BY <1>2

\* The floor rises to a number that no publication carries yet.
LEMMA LogConsume == ASSUME Inv, LogInv, NEW r \in Runs, ConsumeNumber(r) PROVE LogInv'
<1>0. /\ run \in [Runs -> WorkflowRun] /\ run[r] \in WorkflowRun /\ r \in DOMAIN run
      /\ ledger \in Ledger
  BY DEF Inv, TypeOK
<1>1. /\ run[r].pc = "consume" /\ ledger = run[r].seen
      /\ ledger' = [ledger EXCEPT !.floor = run[r].plan.num]
      /\ run' = [run EXCEPT ![r].pc = "tag", ![r].seen = ledger']
      /\ UNCHANGED <<shown, releases, grouped, promotion>>
  BY DEF ConsumeNumber, CompareAndSwap, Consume, config
<1>2. /\ ledger'.floor = run[r].plan.num /\ ledger.floor \in Nat /\ ledger'.floor \in Nat
      /\ ledger.floor <= ledger'.floor
  <2>1. ledger'.floor = run[r].plan.num /\ ledger.floor \in Nat /\ run[r].plan.num \in Nat
    BY <1>0, <1>1 DEF Ledger, WorkflowRun, Plan
  <2>2. run[r].seen.floor <= run[r].plan.num
    BY <1>1 DEF Inv, RunSound
  <2> QED
    BY <1>1, <2>1, <2>2
<1>3. /\ Others(r) /\ run'[r].pc = "tag" /\ run'[r].plan = run[r].plan
      /\ run'[r].bytes = run[r].bytes /\ run'[r].channel = run[r].channel
  BY <1>0, <1>1 DEF Others, WorkflowRun
<1>4. (\A t, n, b : InLog(t, n, b)' = InLog(t, n, b)) /\ Published' = Published
  BY <1>1 DEF InLog, Published
<1>5. LogSound'
  <2>1. \A i \in DOMAIN shown : shown[i].num \in Nat
    BY EntryTypes DEF LogInv
  <2>2. \A i \in DOMAIN shown : shown[i].num <= ledger'.floor
    BY <1>2, <2>1 DEF LogInv, LogSound
  <2> QED
    BY <1>1, <1>4, <2>2 DEF LogInv, LogSound
<1>6. Serialized'
  BY <1>1, <1>3, SerialMoves DEF LogInv, Waiting, Ended
<1>7. \A q \in Runs : Promoting(q)' = Promoting(q)
  BY <1>1, <1>3 DEF Promoting, Others
<1>8. HistorySound(r)'
  <2>1. HistorySound(r)
    BY DEF LogInv
  <2>2. ~Promoting(r) => \A i \in DOMAIN shown : shown[i].num # run[r].plan.num
    <3>1. ~Promoting(r) => ledger.floor < run[r].plan.num
      BY <1>1, <2>1 DEF HistorySound
    <3>2. \A i \in DOMAIN shown : shown[i].num \in Nat /\ shown[i].num <= ledger.floor
      BY EntryTypes DEF LogInv, LogSound
    <3> QED
      BY <1>2, <3>1, <3>2
  <2>3. Promoting(r) => InLog(Tag(run[r].plan), run[r].plan.num, run[r].bytes)
    BY <1>1, <2>1 DEF HistorySound, Compiled
  <2>4. grouped /\ ~Promoting(r) /\ run[r].plan.channel \in {"beta", "rc"}
        => StableTag(run[r].plan.base) \notin Published
    BY <1>1, <2>1 DEF HistorySound, Compiled
  <2>5. Promoting(r)' = Promoting(r) /\ UNCHANGED <<shown, grouped>>
    BY <1>1, <1>7
  <2>6. ledger'.floor = run[r].plan.num
    BY <1>2
  <2> QED
    BY <1>3, <1>4, <2>2, <2>3, <2>4, <2>5, <2>6 DEF HistorySound
<1>9. ASSUME NEW q \in Runs, q # r PROVE HistorySound(q)'
  <2>1. HistorySound(q) /\ run'[q] = run[q] /\ (grouped => run[q].pc \in Waiting)
    BY <1>1, <1>3, <1>9 DEF LogInv, Others, Serialized, Waiting, Ended
  <2>2. grouped => run[q].pc \notin Spent
    BY <2>1 DEF Waiting, Ended, Spent
  <2>3. Promoting(q)' = Promoting(q)
    BY <1>7
  <2>4. UNCHANGED <<shown, grouped>>
    BY <1>1
  <2> QED
    BY <1>4, <2>1, <2>2, <2>3, <2>4 DEF HistorySound
<1> QED
  BY <1>5, <1>6, <1>8, <1>9 DEF LogInv

\* Making the tag and looking at the draft tell the history nothing.
LEMMA LogKeeps ==
  ASSUME Inv, LogInv, NEW r \in Runs, NEW pc \in Compiled \ {"consume"}, Go(r, pc),
         run[r].pc \in Spent \ {"patched"}, UNCHANGED <<releases, ledger, shown, config>>
  PROVE  LogInv'
<1>1. pc \in Phases
  BY DEF Phases
<1>2. /\ Others(r) /\ SameOrigin(r) /\ run'[r].pc = pc /\ run'[r].plan = run[r].plan
      /\ run'[r].bytes = run[r].bytes
  <2>1. run \in [Runs -> WorkflowRun] /\ run[r] \in WorkflowRun /\ run' = [run EXCEPT ![r].pc = pc]
    BY DEF Inv, TypeOK, Go
  <2> QED
    BY <1>1, <2>1, GoMoves DEF WorkflowRun
<1>3. UNCHANGED <<shown, grouped, promotion, releases>> /\ ledger' = ledger
  BY DEF config
<1>4. LogSound' /\ Published' = Published
  BY <1>3, LogSame DEF LogInv
<1>5. run[r].pc \in Compiled \ {"validate", "patched"} /\ run[r].pc \notin Waiting
  BY DEF Spent, Compiled, Waiting, Ended
<1>6. HistorySound(r)'
  BY <1>2, <1>3, <1>4, <1>5, HistoryCarries DEF LogInv, SameOrigin
<1>7. Serialized'
  BY <1>2, <1>3, <1>5, SerialMoves DEF LogInv
<1> QED
  BY <1>2, <1>3, <1>4, <1>6, <1>7, LogOne

\* Steps that leave history, floor and runs alone and publish nothing.
LEMMA LogStays ==
  ASSUME LogInv, UNCHANGED <<shown, run, grouped, promotion>>, ledger'.floor = ledger.floor,
         Published' \subseteq Published, LogSound'
  PROVE  LogInv'
<1>1. \A q \in Runs : HistorySound(q)'
  BY HistoryStands DEF LogInv
<1> QED
  BY <1>1 DEF LogInv, Serialized

\* A new draft, if the call arrives, tells the history nothing.
LEMMA LogCreateDraft == ASSUME Inv, LogInv, NEW r \in Runs, CreateDraft(r) PROVE LogInv'
<1>1. /\ run[r].pc = "draft" /\ UNCHANGED <<ledger, shown, grouped, promotion>>
      /\ releases' \in {releases, releases \cup {Draft(r)}}
  BY DEF CreateDraft, config
<1>2. PICK pc \in {"upload", "reconcile"} : Go(r, pc)
  BY DEF CreateDraft
<1>3. /\ Others(r) /\ SameOrigin(r) /\ run'[r].pc = pc /\ run'[r].plan = run[r].plan
      /\ run'[r].bytes = run[r].bytes
  <2>1. /\ run \in [Runs -> WorkflowRun] /\ run[r] \in WorkflowRun /\ pc \in Phases
        /\ run' = [run EXCEPT ![r].pc = pc]
    BY <1>2 DEF Inv, TypeOK, Go, Phases, Compiled
  <2> QED
    BY <1>2, <2>1, GoMoves DEF WorkflowRun
<1>4. /\ run[r].pc \in Compiled \ {"validate", "patched"} /\ run[r].pc \notin Waiting
      /\ run[r].pc \in Spent /\ pc \in Compiled \ {"consume"} /\ HistorySound(r)
  BY <1>1 DEF Spent, Compiled, Waiting, Ended, LogInv
<1>5. Draft(r).draft /\ Draft(r).tag = Target(r) /\ Draft(r).plan = run[r].plan
      /\ Draft(r).build = run[r].bytes
  BY DEF Draft
<1>6. Published' = Published
  BY <1>1, <1>5 DEF Published
<1>7. \A t, n, b : InLog(t, n, b)' = InLog(t, n, b)
  BY <1>1 DEF InLog
<1>8. Target(r) # Tag(run[r].plan) => InLog(Tag(run[r].plan), run[r].plan.num, run[r].bytes)
  BY <1>4 DEF Target, HistorySound
<1>9. LogSound'
  BY <1>1, <1>5, <1>7, <1>8 DEF LogInv, LogSound
<1>10. HistorySound(r)'
  BY <1>1, <1>3, <1>4, <1>6, HistoryCarries DEF SameOrigin
<1>11. Serialized'
  BY <1>1, <1>3, <1>4, SerialMoves DEF LogInv
<1> QED
  BY <1>1, <1>3, <1>6, <1>9, <1>10, <1>11, LogOne

\* An upload changes a draft.
LEMMA LogUpload == ASSUME Inv, OwnInv, LogInv, NEW r \in Runs, Upload(r) PROVE LogInv'
<1>1. PICK x \in Mine(r), a \in Assets, s \in {"good", "bad"} :
         releases' = (releases \ {x}) \cup {[x EXCEPT !.stored[a] = s]}
  BY DEF Upload
<1> DEFINE y == [x EXCEPT !.stored[a] = s]
<1>2. x \in releases /\ x \in GitHubRelease /\ x.draft
  BY DEF Mine, Inv, TypeOK, OwnInv, OwnSound, Drafted, Upload
<1>3. y.tag = x.tag /\ y.plan = x.plan /\ y.build = x.build /\ y.draft = x.draft
  BY <1>2 DEF GitHubRelease
<1>4. UNCHANGED <<shown, run, grouped, promotion, ledger>>
  BY DEF Upload, config
<1> HIDE DEF y
<1>5. releases' = (releases \ {x}) \cup {y}
  BY <1>1 DEF y
<1>6. Published' \subseteq Published
  BY <1>2, <1>3, <1>5 DEF Published
<1>7. \A t, n, b : InLog(t, n, b)' = InLog(t, n, b)
  BY <1>4 DEF InLog
<1>8. ASSUME NEW z \in releases'
      PROVE  /\ ~z.draft => /\ InLog(z.tag, z.plan.num, z.build)
                            /\ \A b \in Assets : z.stored[b] = "good"
             /\ z.tag # Tag(z.plan) => InLog(Tag(z.plan), z.plan.num, z.build)
  <2>1. CASE z = y
    BY <1>2, <1>3, <2>1 DEF LogInv, LogSound
  <2>2. CASE z \in releases
    BY <2>2 DEF LogInv, LogSound
  <2> QED
    BY <1>5, <2>1, <2>2
<1>9. LogSound'
  BY <1>4, <1>7, <1>8 DEF LogInv, LogSound
<1> QED
  BY <1>4, <1>6, <1>9, LogStays

\* A deletion takes nothing back from the history.
LEMMA LogDelete == ASSUME Inv, LogInv, DeleteRelease PROVE LogInv'
<1>1. releases' \subseteq releases /\ UNCHANGED <<shown, run, grouped, promotion, ledger>>
  BY DEF DeleteRelease, config
<1>2. Published' \subseteq Published /\ \A t, n, b : InLog(t, n, b)' = InLog(t, n, b)
  BY <1>1 DEF Published, InLog
<1>3. LogSound'
  BY <1>1, <1>2 DEF LogInv, LogSound
<1> QED
  BY <1>1, <1>2, <1>3, LogStays

\* A publication is appended: what was shown stays shown.
LEMMA ShownGrows ==
  ASSUME LogSound, NEW e \in [tag : TagName, num : Nat, build : Nat \X Nat],
         shown' = Append(shown, e)
  PROVE  /\ shown' \in Seq([tag : TagName, num : Nat, build : Nat \X Nat])
         /\ \A i \in DOMAIN shown' : \/ i \in DOMAIN shown /\ shown'[i] = shown[i]
                                     \/ shown'[i] = e
         /\ \A t, n, b : InLog(t, n, b) => InLog(t, n, b)'
         /\ InLog(e.tag, e.num, e.build)'
<1> DEFINE T == [tag : TagName, num : Nat, build : Nat \X Nat]
<1>1. shown \in Seq(T) /\ e \in T
  BY DEF LogSound
<1>2. e = [tag |-> e.tag, num |-> e.num, build |-> e.build]
  OBVIOUS
<1>3. /\ shown' \in Seq(T)
      /\ \A i \in DOMAIN shown : i \in DOMAIN shown' /\ shown'[i] = shown[i]
      /\ \A i \in DOMAIN shown' : \/ i \in DOMAIN shown /\ shown'[i] = shown[i]
                                  \/ shown'[i] = e
      /\ Len(shown) + 1 \in DOMAIN shown' /\ shown'[Len(shown) + 1] = e
  <2> HIDE DEF T
  <2> QED
    BY <1>1
<1>4. \A t, n, b : InLog(t, n, b) => InLog(t, n, b)'
  BY <1>3 DEF InLog
<1>5. InLog(e.tag, e.num, e.build)'
  BY <1>2, <1>3 DEF InLog
<1> QED
  BY <1>3, <1>4, <1>5

\* The release a run makes public, and what is known of it.
LEMMA Publication ==
  ASSUME Inv, OwnInv, LogInv, NEW r \in Runs, MakePublic(r)
  PROVE  \E x \in Mine(r) :
            /\ x \in releases /\ x \in GitHubRelease /\ x.draft /\ x.tag = Target(r)
            /\ x.plan = run[r].plan /\ x.build = run[r].bytes
            /\ \A a \in Assets : x.stored[a] = "good"
            /\ releases' = (releases \ {x}) \cup {[x EXCEPT !.draft = FALSE]}
            /\ shown' = Append(shown, Entry(x))
            /\ Entry(x) \in [tag : TagName, num : Nat, build : Nat \X Nat]
            /\ x.plan.num <= ledger.floor
<1>1. PICK x \in Mine(r) : /\ releases' = (releases \ {x}) \cup {[x EXCEPT !.draft = FALSE]}
                           /\ shown' = Append(shown, Entry(x))
  BY DEF MakePublic
<1>2. run[r].pc = "patch" /\ run[r].pc \in Drafted /\ OwnSound(r)
  BY DEF MakePublic, Drafted, OwnInv
<1>3. x \in releases /\ x \in GitHubRelease
  BY DEF Mine, Inv, TypeOK
<1>4. /\ x.draft /\ x.tag = Target(r) /\ x.plan = run[r].plan /\ x.build = run[r].bytes
      /\ \A a \in Assets : x.stored[a] = "good"
  BY <1>2 DEF OwnSound
<1>5. Entry(x) \in [tag : TagName, num : Nat, build : Nat \X Nat]
  BY <1>3 DEF Entry, GitHubRelease, Plan
<1>6. x.plan.num <= ledger.floor
  BY <1>3 DEF Inv, PublicSound
<1> QED
  BY <1>1, <1>3, <1>4, <1>5, <1>6

\* A number that is published again names the same build.
LEMMA SameBuild ==
  ASSUME LogInv, NEW r \in Runs, run[r].pc = "patch",
         NEW i \in DOMAIN shown, shown[i].num = run[r].plan.num
  PROVE  Promoting(r) /\ shown[i].build = run[r].bytes
<1>1. run[r].pc \in Compiled /\ run[r].pc \in Spent \ {"patched"} /\ HistorySound(r)
  BY DEF Compiled, Spent, LogInv
<1>2. Promoting(r)
  BY <1>1 DEF HistorySound
<1>3. PICK j \in DOMAIN shown :
         shown[j] = [tag |-> Tag(run[r].plan), num |-> run[r].plan.num, build |-> run[r].bytes]
  BY <1>1, <1>2 DEF HistorySound, InLog
<1>4. shown[j].num = run[r].plan.num /\ shown[j].build = run[r].bytes
  BY <1>3
<1> QED
  BY <1>2, <1>4 DEF LogInv, LogSound

\* No other unpromoted run holds the number that is published.
LEMMA OtherNumber ==
  ASSUME Inv, LogInv, NEW r \in Runs, run[r].pc = "patch", NEW q \in Runs, q # r,
         run[q].pc \in Spent \ {"patched"}, ~Promoting(q)
  PROVE  run[r].plan.num # run[q].plan.num
<1>1. run[r].pc \in Compiled /\ run[q].pc \in Compiled
  BY DEF Compiled, Spent
<1>2. q \in Reserved(ledger) /\ run[q].plan = ledger.plans[q]
  BY <1>1 DEF Inv, RunSound
<1>3. CASE Promoting(r)
  <2>1. PICK j \in DOMAIN shown :
           shown[j] = [tag |-> Tag(run[r].plan), num |-> run[r].plan.num, build |-> run[r].bytes]
    BY <1>1, <1>3 DEF LogInv, HistorySound, InLog
  <2>2. shown[j].num = run[r].plan.num
    BY <2>1
  <2>3. shown[j].num # run[q].plan.num
    BY DEF LogInv, HistorySound
  <2> QED
    BY <2>2, <2>3
<1>4. CASE ~Promoting(r)
  <2>1. r \in Reserved(ledger) /\ run[r].plan = ledger.plans[r]
    BY <1>1, <1>4 DEF Inv, RunSound
  <2> QED
    BY <1>2, <2>1 DEF Inv, LedgerSound
<1> QED
  BY <1>3, <1>4

\* A publication is a new entry, and nobody else's knowledge is disturbed.
LEMMA LogMakePublic == ASSUME Inv, OwnInv, LogInv, NEW r \in Runs, MakePublic(r) PROVE LogInv'
<1>1. PICK x \in Mine(r) :
         /\ x \in releases /\ x \in GitHubRelease /\ x.draft /\ x.tag = Target(r)
         /\ x.plan = run[r].plan /\ x.build = run[r].bytes
         /\ \A a \in Assets : x.stored[a] = "good"
         /\ releases' = (releases \ {x}) \cup {[x EXCEPT !.draft = FALSE]}
         /\ shown' = Append(shown, Entry(x))
         /\ Entry(x) \in [tag : TagName, num : Nat, build : Nat \X Nat]
         /\ x.plan.num <= ledger.floor
  BY Publication
<1> DEFINE e == Entry(x)
           y == [x EXCEPT !.draft = FALSE]
<1>2. e.tag = x.tag /\ e.num = x.plan.num /\ e.build = x.build
  BY DEF Entry
<1>3. y.tag = x.tag /\ y.plan = x.plan /\ y.build = x.build /\ y.stored = x.stored
  BY <1>1 DEF GitHubRelease
<1> HIDE DEF e, y
<1>4. /\ shown' \in Seq([tag : TagName, num : Nat, build : Nat \X Nat])
      /\ \A i \in DOMAIN shown' : \/ i \in DOMAIN shown /\ shown'[i] = shown[i]
                                  \/ shown'[i] = e
      /\ \A t, n, b : InLog(t, n, b) => InLog(t, n, b)'
      /\ InLog(e.tag, e.num, e.build)'
  BY <1>1, ShownGrows DEF e, LogInv
<1>5. /\ run[r].pc = "patch" /\ UNCHANGED <<ledger, grouped, promotion>>
      /\ run' = [run EXCEPT ![r].pc = "patched"] /\ releases' = (releases \ {x}) \cup {y}
  BY <1>1 DEF MakePublic, Go, config, y
<1>6. /\ Others(r) /\ run'[r].pc = "patched" /\ run'[r].plan = run[r].plan
      /\ run'[r].bytes = run[r].bytes /\ run'[r].channel = run[r].channel
  <2>1. run \in [Runs -> WorkflowRun]
    BY DEF Inv, TypeOK
  <2> QED
    BY <1>5, <2>1 DEF Others, WorkflowRun
<1>7. \A q \in Runs : Promoting(q)' = Promoting(q)
  BY <1>5, <1>6 DEF Promoting, Others
<1>8. LogSound'
  <2>1. \A i \in DOMAIN shown' : shown'[i].num <= ledger'.floor
    BY <1>1, <1>2, <1>4, <1>5 DEF LogInv, LogSound
  <2>2. \A i, j \in DOMAIN shown' : shown'[i].num = shown'[j].num
                                    => shown'[i].build = shown'[j].build
    <3>1. \A i \in DOMAIN shown : shown[i].num = e.num => shown[i].build = e.build
      BY <1>1, <1>2, <1>5, SameBuild
    <3> QED
      BY <1>4, <3>1 DEF LogInv, LogSound
  <2>3. ASSUME NEW z \in releases'
        PROVE  /\ ~z.draft => /\ InLog(z.tag, z.plan.num, z.build)'
                              /\ \A a \in Assets : z.stored[a] = "good"
               /\ z.tag # Tag(z.plan) => InLog(Tag(z.plan), z.plan.num, z.build)'
    <3>1. CASE z = y
      <4>1. x.tag # Tag(x.plan) => InLog(Tag(x.plan), x.plan.num, x.build)
        BY <1>1 DEF LogInv, LogSound
      <4> QED
        BY <1>1, <1>2, <1>3, <1>4, <3>1, <4>1
    <3>2. CASE z \in releases
      BY <1>4, <3>2 DEF LogInv, LogSound
    <3> QED
      BY <1>5, <3>1, <3>2
  <2> QED
    BY <1>4, <2>1, <2>2, <2>3 DEF LogSound
<1>9. Serialized'
  BY <1>5, <1>6, SerialMoves DEF LogInv, Waiting, Ended
<1>10. HistorySound(r)'
  <2>1. HistorySound(r) /\ run[r].pc \in Compiled /\ run[r].pc \in Spent
    BY <1>5 DEF LogInv, Compiled, Spent
  <2>2. Promoting(r) => InLog(Tag(run[r].plan), run[r].plan.num, run[r].bytes)
    BY <2>1 DEF HistorySound
  <2>3. grouped => ledger.floor = run[r].plan.num
    BY <2>1 DEF HistorySound
  <2>4. Promoting(r)' = Promoting(r) /\ UNCHANGED <<ledger, grouped>>
    BY <1>5, <1>7
  <2> QED
    BY <1>4, <1>6, <2>2, <2>3, <2>4 DEF HistorySound
<1>11. ASSUME NEW q \in Runs, q # r PROVE HistorySound(q)'
  <2>1. HistorySound(q) /\ run'[q] = run[q] /\ (grouped => run[q].pc \in Waiting)
    BY <1>5, <1>6, <1>11 DEF LogInv, Others, Serialized, Waiting, Ended
  <2>2. grouped => run[q].pc \notin Spent /\ run[q].pc \notin Compiled
    BY <2>1 DEF Waiting, Ended, Spent, Compiled
  <2>3. run[q].pc \in Spent \ {"patched"} /\ ~Promoting(q) =>
           \A i \in DOMAIN shown' : shown'[i].num # run[q].plan.num
    <3>1. SUFFICES ASSUME run[q].pc \in Spent \ {"patched"}, ~Promoting(q),
                          NEW i \in DOMAIN shown'
                   PROVE  shown'[i].num # run[q].plan.num
      OBVIOUS
    <3>2. \A j \in DOMAIN shown : shown[j].num # run[q].plan.num
      BY <2>1, <3>1 DEF HistorySound
    <3>3. e.num # run[q].plan.num
      BY <1>1, <1>2, <1>5, <1>11, <3>1, OtherNumber
    <3> QED
      BY <1>4, <3>2, <3>3
  <2>4. Promoting(q)' = Promoting(q) /\ UNCHANGED <<ledger, grouped>>
    BY <1>5, <1>7
  <2> QED
    BY <1>4, <2>1, <2>2, <2>3, <2>4 DEF HistorySound
<1> QED
  BY <1>8, <1>9, <1>10, <1>11 DEF LogInv

\* A push, a trigger or a repetition only queues.
LEMMA LogAround ==
  ASSUME Inv, LogInv, Push \/ \E r \in Runs : Trigger(r) \/ Rerun(r)
  PROVE  LogInv'
<1>1. UNCHANGED <<releases, ledger, shown, grouped, promotion>>
  BY DEF Push, Trigger, Rerun, config
<1>2. LogSound' /\ Published' = Published
  BY <1>1, LogSame DEF LogInv
<1>3. CASE run' = run
  BY <1>1, <1>2, <1>3, LogStays
<1>4. ASSUME NEW r \in Runs, Others(r), run'[r].pc = "queued" PROVE LogInv'
  <2>1. HistorySound(r)'
    BY <1>4, HistoryNothing DEF Compiled
  <2>2. Serialized'
    BY <1>1, <1>4, SerialMoves DEF LogInv, Waiting
  <2> QED
    BY <1>1, <1>2, <1>4, <2>1, <2>2, LogOne
<1>5. ASSUME NEW r \in Runs, NEW event, NEW channel, NEW sha, Created(r, event, channel, sha)
      PROVE  LogInv'
  <2>1. /\ run \in [Runs -> WorkflowRun]
        /\ run' = [run EXCEPT ![r] = [Idle EXCEPT !.pc = "queued", !.event = event,
                                      !.channel = channel, !.sha = sha, !.attempt = 1]]
    BY <1>5 DEF Created, Inv, TypeOK
  <2>2. Others(r) /\ run'[r].pc = "queued"
    BY <2>1 DEF Others, Idle
  <2> QED
    BY <1>4, <2>2
<1>6. ASSUME NEW r \in Runs, Rerun(r) PROVE LogInv'
  <2>1. /\ run \in [Runs -> WorkflowRun] /\ run[r] \in WorkflowRun
        /\ run' = [run EXCEPT ![r].pc = "queued", ![r].attempt = @ + 1]
    BY <1>6 DEF Rerun, Inv, TypeOK
  <2>2. Others(r) /\ run'[r].pc = "queued"
    BY <2>1 DEF Others, WorkflowRun
  <2> QED
    BY <1>4, <2>2
<1>7. CASE Push
  BY <1>3, <1>5, <1>7 DEF Push
<1>8. ASSUME NEW r \in Runs, Trigger(r) PROVE LogInv'
  BY <1>5, <1>8 DEF Trigger
<1> QED
  BY <1>6, <1>7, <1>8

\* Every step keeps the history true.
LEMMA NextKeepsLog == ASSUME Inv, Inv', OwnInv, LogInv, [Next]_vars PROVE LogInv'
<1>1. CASE UNCHANGED vars
  <2>1. UNCHANGED <<releases, ledger, shown, run, grouped, promotion>>
    BY <1>1 DEF vars, config
  <2> QED
    BY <2>1, LogSame, LogStays DEF LogInv
<1>2. ASSUME NEW r \in Runs, Step(r) \/ Start(r) PROVE LogInv'
  <2>1. CASE CreateBranch(r)
    <3>1. UNCHANGED <<releases, ledger, shown, run, grouped, promotion>>
      BY <2>1 DEF CreateBranch, config
    <3> QED
      BY <3>1, LogSame, LogStays DEF LogInv
  <2>2. CASE CreateTag(r)
    BY <2>2, LogKeeps DEF CreateTag, Compiled, Spent
  <2>3. CASE Reconcile(r) \/ VerifyUpload(r)
    BY <2>3, LogKeeps DEF Reconcile, VerifyUpload, KeepGitHub, Compiled, Spent
  <2>4. CASE Finish(r)
    BY <2>4, LogEnd DEF Finish, Ended
  <2> QED
    BY <1>2, <2>1, <2>2, <2>3, <2>4, LogPrepares, LogLooks, LogConsume, LogCreateDraft,
       LogUpload, LogMakePublic DEF Step, Publishing
<1>3. ASSUME NEW r \in Runs, Abort(r) PROVE LogInv'
  BY <1>3, LogEnd DEF Abort, Ended
<1> QED
  BY <1>1, <1>2, <1>3, LogDelete, LogAround DEF Next

\* At the start there is nothing to know.
LEMMA InitKnows == Init => OwnInv /\ LogInv
<1> SUFFICES ASSUME Init PROVE OwnInv /\ LogInv
  OBVIOUS
<1>1. /\ releases = {} /\ shown = <<>>
      /\ \A r \in Runs : run[r].pc = "none" /\ run[r].attempt = 0
  BY DEF Init, Idle
<1>2. NamesUnique
  BY <1>1 DEF NamesUnique
<1>3. \A r \in Runs : OwnSound(r)
  BY <1>1 DEF OwnSound, Mine, Drafted, Ended
<1>4. LogSound
  BY <1>1 DEF LogSound
<1>5. Serialized
  BY <1>1 DEF Serialized, Waiting
<1>6. \A r \in Runs : HistorySound(r)
  BY <1>1 DEF HistorySound, Compiled, Spent
<1> QED
  BY <1>2, <1>3, <1>4, <1>5, <1>6 DEF OwnInv, LogInv

\* The three parts of the invariant hold together in every reachable state.
THEOREM HistoryInvariance == Spec => [](Inv /\ OwnInv /\ LogInv)
<1>1. Init => Inv /\ OwnInv /\ LogInv
  BY InitInv, InitKnows
<1>2. (Inv /\ OwnInv /\ LogInv) /\ [Next]_vars => (Inv /\ OwnInv /\ LogInv)'
  BY NextKeepsInv, NextKeepsOwn, NextKeepsLog
<1> QED
  BY <1>1, <1>2, PTL DEF Spec

\* Whatever users can download was read back in full, its tag names its source, and a
\* promoted release repeats the bytes and number of a published candidate
\* (_publish_prepared, promote).
THEOREM PublishedIsWholeHolds == Spec => []PublishedIsWhole
<1>1. ASSUME OwnInv, LogInv PROVE PublishedIsWhole
  <2> SUFFICES ASSUME NEW x \in releases, ~x.draft
               PROVE  /\ \A a \in Assets : x.stored[a] = "good"
                      /\ [tag |-> x.tag, sha |-> x.plan.sha] \in tags
                      /\ x.tag # Tag(x.plan) =>
                           \E i \in DOMAIN shown :
                              shown[i] = [Entry(x) EXCEPT !.tag = Tag(x.plan)]
    BY DEF PublishedIsWhole
  <2>1. [Entry(x) EXCEPT !.tag = Tag(x.plan)]
           = [tag |-> Tag(x.plan), num |-> x.plan.num, build |-> x.build]
    BY DEF Entry
  <2>2. x.tag # Tag(x.plan) => InLog(Tag(x.plan), x.plan.num, x.build)
    BY <1>1 DEF LogInv, LogSound
  <2> QED
    BY <1>1, <2>1, <2>2 DEF LogInv, LogSound, OwnInv, NamesUnique, InLog
<1> QED
  BY <1>1, HistoryInvariance, PTL

-----------------------------------------------------------------------------
\* The refinement of the publication log.

\* A number is spent upwards, or is the one that was spent already.
LEMMA ConsumeSpends ==
  ASSUME Inv, NEW r \in Runs, ConsumeNumber(r)
  PROVE  Log!Spend \/ UNCHANGED Log!logVars
<1>1. /\ UNCHANGED <<shown, releases, grouped>> /\ ledger' = [ledger EXCEPT !.floor = run[r].plan.num]
      /\ ledger = run[r].seen /\ run[r].pc = "consume"
  BY DEF ConsumeNumber, CompareAndSwap, Consume, config
<1>2. ledger'.floor = run[r].plan.num /\ ledger.floor \in Nat /\ ledger'.floor \in Nat
  BY <1>1 DEF Inv, TypeOK, Ledger, WorkflowRun, Plan
<1>3. ledger.floor <= ledger'.floor
  BY <1>1, <1>2 DEF Inv, RunSound
<1>4. Published' = Published
  BY <1>1 DEF Published
<1> QED
  BY <1>1, <1>2, <1>3, <1>4 DEF Log!Spend, Log!logVars

\* What becomes public is a new name, a new build or the build of its number, and in a
\* serialized workflow the newest of its base.
LEMMA MakePublicPublishes ==
  ASSUME Inv, OwnInv, LogInv, NEW r \in Runs, MakePublic(r)
  PROVE  Len(shown') = Len(shown) + 1 /\ Log!Publish(shown'[Len(shown')])
<1>1. PICK x \in Mine(r) :
         /\ x \in releases /\ x \in GitHubRelease /\ x.draft /\ x.tag = Target(r)
         /\ x.plan = run[r].plan /\ x.build = run[r].bytes
         /\ \A a \in Assets : x.stored[a] = "good"
         /\ releases' = (releases \ {x}) \cup {[x EXCEPT !.draft = FALSE]}
         /\ shown' = Append(shown, Entry(x))
         /\ Entry(x) \in [tag : TagName, num : Nat, build : Nat \X Nat]
         /\ x.plan.num <= ledger.floor
  BY Publication
<1> DEFINE e == Entry(x)
           T == [tag : TagName, num : Nat, build : Nat \X Nat]
           y == [x EXCEPT !.draft = FALSE]
<1>2. e.tag = x.tag /\ e.num = x.plan.num /\ e.build = x.build
  BY DEF Entry
<1>3. y.tag = x.tag /\ ~y.draft
  BY <1>1 DEF GitHubRelease
<1>4. shown \in Seq(T) /\ e \in T /\ shown' = Append(shown, e)
  BY <1>1 DEF LogInv, LogSound
<1>5. releases' = (releases \ {x}) \cup {y}
  BY <1>1
<1> HIDE DEF e, T, y
<1>6. Len(shown') = Len(shown) + 1 /\ shown'[Len(shown')] = e
  BY <1>4
<1>7. e.tag \notin Published
  BY <1>1, <1>2 DEF Published, OwnInv, NamesUnique
<1>8. \A i \in DOMAIN shown : shown[i].num = e.num => shown[i].build = e.build
  BY <1>1, <1>2, SameBuild DEF MakePublic
<1>9. /\ run[r].pc = "patch" /\ UNCHANGED <<ledger, grouped>> /\ HistorySound(r)
      /\ run[r].pc \in Spent \ {"patched"} /\ run[r].pc \in Compiled \ {"validate", "patched"}
  BY DEF MakePublic, config, LogInv, Spent, Compiled
<1>10. ASSUME grouped
       PROVE  /\ \A i \in DOMAIN shown : shown[i].num <= e.num
              /\ e.tag[2] \in {"beta", "rc"} => <<e.tag[1], "stable", 0>> \notin Published
  <2>1. ledger.floor = e.num
    BY <1>1, <1>2, <1>9, <1>10 DEF HistorySound
  <2>2. ASSUME Promoting(r) PROVE e.tag[2] = "stable"
    BY <1>1, <1>2, <2>2 DEF Target, StableTag
  <2>3. ASSUME ~Promoting(r)
        PROVE  e.tag[2] \in {"beta", "rc"} => <<e.tag[1], "stable", 0>> \notin Published
    <3>1. /\ e.tag[2] = run[r].plan.channel
          /\ <<e.tag[1], "stable", 0>> = StableTag(run[r].plan.base)
      BY <1>1, <1>2, <2>3 DEF Target, Tag, StableTag
    <3>2. run[r].plan.channel \in {"beta", "rc"} => StableTag(run[r].plan.base) \notin Published
      BY <1>9, <1>10, <2>3 DEF HistorySound
    <3> QED
      BY <3>1, <3>2
  <2>4. e.tag[2] \in {"beta", "rc"} => <<e.tag[1], "stable", 0>> \notin Published
    BY <2>2, <2>3
  <2> QED
    BY <2>1, <2>4 DEF LogInv, LogSound
<1>11. Published' = Published \cup {e.tag}
  <2>1. \A z \in releases' : ~z.draft => z = y \/ z \in releases
    BY <1>5
  <2>2. \A z \in releases : ~z.draft => z \in releases'
    BY <1>1, <1>5
  <2>3. y \in releases' /\ ~y.draft /\ y.tag = e.tag
    BY <1>2, <1>3, <1>5
  <2> QED
    BY <2>1, <2>2, <2>3 DEF Published
<1>12. e.num <= ledger.floor
  BY <1>1, <1>2
<1> QED
  BY <1>4, <1>6, <1>7, <1>8, <1>9, <1>10, <1>11, <1>12 DEF Log!Publish

\* A deletion withdraws one published release, or a draft that nobody could see.
LEMMA DeleteWithdraws ==
  ASSUME OwnInv, DeleteRelease
  PROVE  (\E t \in Published : Log!Withdraw(t)) \/ UNCHANGED Log!logVars
<1>1. PICK x \in releases : releases' = releases \ {x}
  BY DEF DeleteRelease
<1>2. UNCHANGED <<shown, ledger, grouped>>
  BY DEF DeleteRelease, config
<1>3. CASE x.draft
  <2>1. Published' = Published
    BY <1>1, <1>3 DEF Published
  <2> QED
    BY <1>2, <2>1 DEF Log!logVars
<1>4. CASE ~x.draft
  <2>1. x.tag \in Published
    BY <1>4 DEF Published
  <2>2. \A z \in releases : z.tag = x.tag => z = x
    BY DEF OwnInv, NamesUnique
  <2>3. Published' = Published \ {x.tag}
    BY <1>1, <1>4, <2>2 DEF Published
  <2> QED
    BY <1>2, <2>1, <2>3 DEF Log!Withdraw
<1> QED
  BY <1>3, <1>4

\* No other step is seen in the log.
LEMMA OthersStutter ==
  ASSUME Inv, OwnInv, [Next]_vars, \A r \in Runs : ~ConsumeNumber(r) /\ ~MakePublic(r),
         ~DeleteRelease
  PROVE  UNCHANGED Log!logVars
<1>1. UNCHANGED <<shown, grouped>> /\ ledger'.floor = ledger.floor
  <2>1. CASE \E r \in Runs : Reserve(r)
    <3>1. PICK r \in Runs : Reserve(r)
      BY <2>1
    <3>2. /\ UNCHANGED <<shown, grouped>> /\ ledger \in Ledger
          /\ ledger' = WithPlan(ledger, r, run[r].plan)
      BY <3>1 DEF Reserve, CompareAndSwap, Inv, TypeOK, config
    <3> QED
      BY <3>2 DEF WithPlan, Ledger
  <2>2. CASE \A r \in Runs : ~Reserve(r)
    BY <2>2 DEF Next, vars, Push, Trigger, Rerun, Start, Step, Publishing, Abort, PrepareStable,
       PrepareCandidate, ReadLedger, CreateBranch, Validate, Recheck, Promote, Repromote,
       BeginPublication, CreateTag, CreateDraft, Reconcile, Upload, VerifyUpload, Finish,
       KeepGitHub, config
  <2> QED
    BY <2>1, <2>2
<1>2. Published' = Published
  <2>1. CASE releases' = releases
    BY <2>1 DEF Published
  <2>2. ASSUME NEW r \in Runs, CreateDraft(r) PROVE Published' = Published
    <3>1. releases' \in {releases, releases \cup {Draft(r)}} /\ Draft(r).draft
      BY <2>2 DEF CreateDraft, Draft
    <3> QED
      BY <3>1 DEF Published
  <2>3. ASSUME NEW r \in Runs, Upload(r) PROVE Published' = Published
    <3>1. PICK x \in Mine(r), a \in Assets, s \in {"good", "bad"} :
             releases' = (releases \ {x}) \cup {[x EXCEPT !.stored[a] = s]}
      BY <2>3 DEF Upload
    <3> DEFINE y == [x EXCEPT !.stored[a] = s]
    <3>2. x \in releases /\ x \in GitHubRelease /\ x.draft
      BY <2>3 DEF Mine, Inv, TypeOK, OwnInv, OwnSound, Drafted, Upload
    <3>3. y.draft
      BY <3>2 DEF GitHubRelease
    <3> HIDE DEF y
    <3>4. releases' = (releases \ {x}) \cup {y}
      BY <3>1 DEF y
    <3> QED
      BY <3>2, <3>3, <3>4 DEF Published
  <2>4. \/ releases' = releases
        \/ \E r \in Runs : CreateDraft(r) \/ Upload(r)
    BY DEF Next, vars, Push, Trigger, Rerun, Start, Step, Publishing, Abort, PrepareStable,
       PrepareCandidate, ReadLedger, CreateBranch, Reserve, Validate, Recheck, Promote,
       Repromote, BeginPublication, CreateTag, Reconcile, VerifyUpload, Finish, KeepGitHub
  <2> QED
    BY <2>1, <2>2, <2>3, <2>4
<1> QED
  BY <1>1, <1>2 DEF Log!logVars

\* Every step of the pipeline is a step of the publication log, or invisible in it.
THEOREM ImplementsLogHolds == Spec => ImplementsLog
<1>1. Init => Log!LogInit
  BY DEF Init, Log!LogInit, Published, FreshLedger
<1>2. Inv /\ OwnInv /\ LogInv /\ [Next]_vars => [Log!LogNext]_(Log!logVars)
  <2> SUFFICES ASSUME Inv, OwnInv, LogInv, [Next]_vars
               PROVE  Log!LogNext \/ UNCHANGED Log!logVars
    OBVIOUS
  <2>1. ASSUME NEW r \in Runs, ConsumeNumber(r) PROVE Log!LogNext \/ UNCHANGED Log!logVars
    BY <2>1, ConsumeSpends DEF Log!LogNext
  <2>2. ASSUME NEW r \in Runs, MakePublic(r) PROVE Log!LogNext \/ UNCHANGED Log!logVars
    BY <2>2, MakePublicPublishes DEF Log!LogNext
  <2>3. ASSUME DeleteRelease PROVE Log!LogNext \/ UNCHANGED Log!logVars
    BY <2>3, DeleteWithdraws DEF Log!LogNext
  <2> QED
    BY <2>1, <2>2, <2>3, OthersStutter
<1> QED
  BY <1>1, <1>2, HistoryInvariance, PTL DEF Spec, ImplementsLog, Log!LogSpec

=============================================================================
