---------------------------- MODULE FuzzCampaign ----------------------------
(***************************************************************************)
(* release_fuzz.py: the mutation campaign an RC needs.  A campaign builds, *)
(* replays fixed seeds under one deadline, fuzzes every target and writes  *)
(* its report in a finally block; the publication later accepts a report   *)
(* for its own attempt of the run.  Attempts are repeated, their jobs die, *)
(* and reports of older attempts stay around.                              *)
(***************************************************************************)
EXTENDS Naturals, Sequences, SequencesExt

CONSTANTS
  Targets,        \* the targets of fuzz.json, in order
  Budget,         \* time for the whole preflight (240 s)
  ReplayLimit,    \* time for one replay (90 s)
  MaxAttempts

ASSUME FuzzAssumption == Targets \in Seq(Range(Targets)) /\ Budget \in Nat /\ ReplayLimit \in Nat

VARIABLES
  attempt,    \* the attempt of the workflow run
  fuzz,       \* the campaign of this attempt
  jobs,       \* the conclusion of the fuzz job of each attempt
  reports,    \* the reports in the evidence store
  accepted,   \* attempts whose publication accepted a report
  replayed,   \* history: <<attempt, target>> replayed with executions
  fuzzed      \* history: <<attempt, target>> fuzzed with executions and no crash

fuzzVars == <<attempt, fuzz, jobs, reports, accepted, replayed, fuzzed>>

NoCampaign == [pc |-> "idle", left |-> 0, proofs |-> <<>>, results |-> <<>>]

FuzzInit ==
  /\ attempt = 1
  /\ fuzz = NoCampaign
  /\ jobs = [a \in 1 .. MaxAttempts |-> "none"]
  /\ reports = {} /\ accepted = {}
  /\ replayed = {} /\ fuzzed = {}

\* execute(): a command that outlives its time is killed and counts as 124.
Codes == {0, 1, 124}

StartCampaign ==
  /\ fuzz.pc = "idle" /\ jobs[attempt] = "none"
  /\ fuzz' = [NoCampaign EXCEPT !.pc = "setup"]
  /\ UNCHANGED <<attempt, jobs, reports, accepted, replayed, fuzzed>>

\* The setup commands; then run_preflight sets its deadline.
Setup ==
  /\ fuzz.pc = "setup"
  /\ \E code \in Codes :
       fuzz' = IF code = 0 THEN [fuzz EXCEPT !.pc = "replay", !.left = Budget]
               ELSE [fuzz EXCEPT !.pc = "raised"]
  /\ UNCHANGED <<attempt, jobs, reports, accepted, replayed, fuzzed>>

Smaller(a, b) == IF a < b THEN a ELSE b

\* bounded_preflight and replay_python_target: the rest of the budget at most, and
\* a replay that executed nothing is a failure.
Replay ==
  LET t == Targets[Len(fuzz.proofs) + 1] IN
  /\ fuzz.pc = "replay" /\ Len(fuzz.proofs) < Len(Targets)
  /\ \/ /\ fuzz.left = 0
        /\ fuzz' = [fuzz EXCEPT !.pc = "raised"]
        /\ UNCHANGED replayed
     \/ /\ fuzz.left > 0
        /\ \E code \in Codes, executions \in 0 .. 1,
              spent \in 0 .. Smaller(ReplayLimit, fuzz.left) :
             /\ code = 124 => spent = Smaller(ReplayLimit, fuzz.left)
             /\ IF code = 0 /\ executions > 0
                THEN /\ fuzz' = [fuzz EXCEPT !.left = @ - spent, !.proofs = Append(@, t)]
                     /\ replayed' = replayed \cup {<<attempt, t>>}
                ELSE /\ fuzz' = [fuzz EXCEPT !.pc = "raised"]
                     /\ UNCHANGED replayed
  /\ UNCHANGED <<attempt, jobs, reports, accepted, fuzzed>>

\* The declared preflight commands, as one.
PreflightCommands ==
  /\ fuzz.pc = "replay" /\ Len(fuzz.proofs) = Len(Targets)
  /\ \E code \in Codes :
       fuzz' = [fuzz EXCEPT !.pc = IF code = 0 /\ fuzz.left > 0 THEN "fuzz" ELSE "raised"]
  /\ UNCHANGED <<attempt, jobs, reports, accepted, replayed, fuzzed>>

\* run_target(): exit 0 without executions becomes 125.
ExitCode(code, executions) == IF code = 0 /\ executions = 0 THEN 125 ELSE code

\* A target that fails does not stop the ones after it; one that cannot be run at
\* all (no executable, a corpus too large) ends the campaign.
RunTarget ==
  LET t == Targets[Len(fuzz.results) + 1] IN
  /\ fuzz.pc = "fuzz" /\ Len(fuzz.results) < Len(Targets)
  /\ \/ \E code \in Codes, executions \in 0 .. 1 :
          /\ fuzz' = [fuzz EXCEPT !.results = Append(@, [name |-> t,
                         exit_code |-> ExitCode(code, executions), executions |-> executions])]
          /\ fuzzed' = IF code = 0 /\ executions > 0 THEN fuzzed \cup {<<attempt, t>>} ELSE fuzzed
     \/ fuzz' = [fuzz EXCEPT !.pc = "raised"] /\ UNCHANGED fuzzed
  /\ UNCHANGED <<attempt, jobs, reports, accepted, replayed>>

Passed == \A i \in DOMAIN fuzz.results : fuzz.results[i].exit_code = 0

Report(status) == [attempt |-> attempt, status |-> status, targets |-> fuzz.results,
                   proofs |-> fuzz.proofs, torn |-> FALSE]

\* The finally block writes the report, whole or not; only after a whole one can the
\* job still succeed, and its upload may fail.
Finish(status, torn, conclusion) ==
  /\ reports' = reports \cup {[Report(status) EXCEPT !.torn = torn]}
  /\ jobs' = [jobs EXCEPT ![attempt] = conclusion]
  /\ fuzz' = NoCampaign
  /\ UNCHANGED <<attempt, accepted, replayed, fuzzed>>

CampaignPasses ==
  /\ fuzz.pc = "fuzz" /\ Len(fuzz.results) = Len(Targets) /\ Passed
  /\ \/ Finish("passed", FALSE, "success")
     \/ \E torn \in BOOLEAN : Finish("passed", torn, "failure")

CampaignFails ==
  /\ \/ fuzz.pc = "raised"
     \/ fuzz.pc = "fuzz" /\ Len(fuzz.results) = Len(Targets) /\ ~Passed
  /\ \E torn \in BOOLEAN : Finish("failed", torn, "failure")

\* The runner dies before the finally block.
RunnerDies ==
  /\ fuzz.pc # "idle"
  /\ jobs' = [jobs EXCEPT ![attempt] = "failure"]
  /\ fuzz' = NoCampaign
  /\ UNCHANGED <<attempt, reports, accepted, replayed, fuzzed>>

\* A rerun: of every job, or of the failed ones, when a success is carried over.
NextAttempt ==
  /\ fuzz.pc = "idle" /\ jobs[attempt] # "none" /\ attempt < MaxAttempts
  /\ attempt' = attempt + 1
  /\ jobs' \in {jobs, IF jobs[attempt] = "success" THEN [jobs EXCEPT ![attempt'] = "success"]
                      ELSE jobs}
  /\ UNCHANGED <<fuzz, reports, accepted, replayed, fuzzed>>

\* verify_target_inventory and verify_preflight_evidence.
VerifyInventory(report) ==
  /\ [i \in DOMAIN report.targets |-> <<report.targets[i].name, report.targets[i].exit_code>>]
        = [i \in DOMAIN Targets |-> <<Targets[i], 0>>]
  /\ \A i \in DOMAIN report.targets : report.targets[i].executions > 0
  /\ report.proofs = Targets

\* Mutant: a report of any attempt of the run.
AnyAttempt(report, a) ==
  ~report.torn /\ report.status = "passed" /\ VerifyInventory(report)

VerifyReport(report, a) ==
  /\ ~report.torn
  /\ report.attempt = a /\ report.status = "passed"
  /\ VerifyInventory(report)

\* The publication of this attempt: check_run_jobs and verify_candidate_fuzz_report.
Accept ==
  /\ jobs[attempt] = "success"
  /\ \E report \in reports : VerifyReport(report, attempt)
  /\ accepted' = accepted \cup {attempt}
  /\ UNCHANGED <<attempt, fuzz, jobs, reports, replayed, fuzzed>>

FuzzNext ==
  \/ StartCampaign \/ Setup \/ Replay \/ PreflightCommands \/ RunTarget
  \/ CampaignPasses \/ CampaignFails \/ RunnerDies \/ NextAttempt \/ Accept

FuzzSpec == FuzzInit /\ [][FuzzNext]_fuzzVars
-----------------------------------------------------------------------------
(***************************************************************************)
(* Whatever died, was repeated or left an old report behind, an attempt    *)
(* whose RC evidence was accepted did, itself, replay and fuzz every       *)
(* target, each with executions and without a failure (verify_report,      *)
(* check_run_jobs, run_target).                                            *)
(***************************************************************************)
AcceptedMeansFuzzed ==
  \A a \in accepted : \A i \in DOMAIN Targets :
    <<a, Targets[i]>> \in replayed \cap fuzzed
-----------------------------------------------------------------------------
(* The inductive strengthening of AcceptedMeansFuzzed.                     *)

Results == [name : Range(Targets), exit_code : {0, 1, 124, 125}, executions : 0 .. 1]

CampaignOK ==
  /\ fuzz \in [pc : {"idle", "setup", "replay", "fuzz", "raised"}, left : Nat,
               proofs : Seq(Range(Targets)), results : Seq(Results)]
  /\ fuzz.pc = "idle" => fuzz = NoCampaign

\* What a campaign or a report shows of attempt a did happen in that attempt.
Happened(a, proofs, results) ==
  /\ \A i \in DOMAIN proofs : <<a, proofs[i]>> \in replayed
  /\ \A i \in DOMAIN results : results[i].exit_code = 0 => <<a, results[i].name>> \in fuzzed

CampaignHappened == Happened(attempt, fuzz.proofs, fuzz.results)

ReportsHappened == \A r \in reports : Happened(r.attempt, r.proofs, r.targets)

FuzzInv == CampaignOK /\ CampaignHappened /\ ReportsHappened /\ AcceptedMeansFuzzed

=============================================================================
