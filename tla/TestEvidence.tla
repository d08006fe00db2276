---------------------------- MODULE TestEvidence ----------------------------
(***************************************************************************)
(* The test runs of a check, and what becomes of their output: one shared  *)
(* coverage run for the unit and the coverage stage, the guard against     *)
(* tests that never ran, the report captured as proof of this check, the   *)
(* isolation of the oracle run from the report of the full suite, and the  *)
(* reduction of the captured cases to what they say of each criterion.     *)
(*                                                                         *)
(* A criterion of a done feature has one test file, and one testcase of it *)
(* is bound to it.  People edit the files and other processes run the same *)
(* suite while the check runs; the check can be killed.                    *)
(***************************************************************************)
EXTENDS FiniteSets, Naturals

CONSTANTS Criterion,   \* of done features, each with a test file
          Selector,    \* the title their bindings name
          TestFile,    \* what a test file can hold: its cases
          FirstFiles,  \* what the files hold at first
          Setup,       \* the projects: their runners and what these select
          Unlisted,    \* a report does not mention the file
          NoReport, NoCheck, NoRun, NoProof,  \* there is none
          MaxChecks, MaxMeddled  \* bounds

VARIABLES tests,   \* the cases of each test file, with the outcome of each
          report,  \* the JUnit report in the workspace
          setup,   \* the project
          check,   \* the check that runs
          temps,   \* temporary reports in the system's directory
          ran,     \* history: runs of the suite since the check was primed
          full,    \* history: the report of the last full run
          hurt,    \* history: an oracle run spoilt the report since
          killed,  \* history: some check was
          checkCount, meddled  \* counters for the bounds

evidenceVars == <<tests, report, setup, check, temps, ran, full, hurt,
                  killed, checkCount, meddled>>
evidenceCounters == <<killed, checkCount, meddled>>

\* "none" is registered, or the feature's modules are "unmapped": they belong
\* to no project of the build, and resolving the command throws.
Runner == {"vitest", "pytest", "other", "none", "unmapped"}
Case == [name : STRING, title : STRING, status : {"pass", "fail", "skip"}]
Cases == [Criterion -> TestFile \cup {Unlisted}]
\* What was run, and what the reporter that counts told of it.
RunResult == [by : {"test", "coverage", "someone"}, cases : Cases,
              told : Cases \cup {NoReport}, green : BOOLEAN, missing : BOOLEAN]
StageState == {"unrun", "pass", "fail", "skip"}

ASSUME EvidenceAssumption ==
  /\ TestFile \subseteq SUBSET Case
  /\ FirstFiles \subseteq [Criterion -> TestFile]
  /\ Unlisted \notin TestFile
  /\ NoReport \notin Cases
  /\ NoRun \notin RunResult
  /\ Setup \subseteq [test : Runner, coverage : Runner, junit : BOOLEAN,
                      tested : SUBSET Criterion, covered : SUBSET Criterion,
                      installed : SUBSET {"test", "coverage", "oracle"},
                      oracles : BOOLEAN]
  /\ MaxChecks \in Nat /\ MaxMeddled \in Nat
-----------------------------------------------------------------------------
(* What a run reports                                                      *)

Selected(files) ==
  [c \in Criterion |-> IF c \in files THEN tests[c] ELSE Unlisted]

Failing(cases) ==
  {c \in Criterion : cases[c] # Unlisted /\ \E t \in cases[c] : t.status = "fail"}

\* A run for a stage has a JSON reporter with a temporary file instead of the
\* project's, or the project's JUnit reporter, or none.
Form(json) == IF json THEN "json" ELSE IF setup.junit THEN "junit" ELSE "none"

\* The files a report can be cut to: of JSON that is cut nothing can be read.
Parts(form) ==
  CASE form = "json"  -> {{}, Criterion}
    [] form = "junit" -> SUBSET Criterion
    [] form = "none"  -> {}

\* A reporter that fails leaves no report, or one that is cut; a run without a
\* failing case is red all the same below a threshold, or for an error outside
\* of the cases.
Results(by, files, form) ==
  IF by \notin setup.installed
  THEN {[by |-> by, cases |-> Selected(files), told |-> NoReport,
         green |-> FALSE, missing |-> TRUE]}
  ELSE {[by |-> by, cases |-> Selected(files), told |-> told, missing |-> FALSE,
         green |-> Failing(Selected(files)) = {} /\ well] :
          told \in {Selected(files \cap part) : part \in Parts(form)} \cup {NoReport},
          well \in BOOLEAN}

\* The partial run reports none of the criteria's files.
OracleCases == [c \in Criterion |-> Unlisted]

\* findVacuousDoneFeatures: every file is in the report and none of its cases
\* was executed and passed.
Vacuous(cases) ==
  {c \in Criterion :
     cases[c] # Unlisted /\ \A t \in cases[c] : t.status # "pass"}

\* reportsZeroExecutedTests reads the summary on the console, of the runners
\* whose summary it knows.
ReportsNone(cases) == \A c \in Criterion : cases[c] \in {Unlisted, {}}
-----------------------------------------------------------------------------
(* What the cases say of a criterion                                       *)

\* exactMatch: the full name is authoritative; a title of the source stands
\* in for it only where it is unique, and in reports that have titles.
Matches(proof, c) ==
  LET cases == proof.cases[c]
      named == {t \in cases : t.name = Selector}
      titled == {t \in cases : t.title = Selector}
  IN IF cases = Unlisted THEN {}
     ELSE IF named # {} THEN named
     ELSE IF proof.format = "vitest" /\ Cardinality(titled) = 1 THEN titled
     ELSE {}

\* reduceTestBindings.
Observed(proof, c) ==
  LET matching == Matches(proof, c) IN
  IF \E t \in matching : t.status = "fail" THEN "failed"
  ELSE IF \E t \in matching : t.status = "pass" THEN "verified"
  ELSE "unverified"

\* currentSafeBindings: declarations in the sources as they are now.
Bound == {c \in Criterion : \E t \in tests[c] : Selector \in {t.name, t.title}}
-----------------------------------------------------------------------------
EvidenceInit ==
  /\ tests \in FirstFiles
  /\ setup \in Setup
  /\ report = NoReport /\ full = NoReport
  /\ check = NoCheck
  /\ temps = {} /\ ran = {} /\ hurt = FALSE
  /\ killed = FALSE /\ checkCount = 0 /\ meddled = 0

In(phase) == check # NoCheck /\ check.phase = phase

\* The run of a check continues, and if a report or a file fails it, that
\* counts as one more thing that went on in the workspace.
Proceeds == UNCHANGED <<tests, setup, evidenceCounters>>
Falters ==
  /\ meddled < MaxMeddled /\ meddled' = meddled + 1
  /\ UNCHANGED <<tests, setup, killed, checkCount>>

\* primeTestRunCache: the check remembers the report it finds.  Only a check
\* with a sealed plan, one of schema 0.2, captures proof.
Prime ==
  /\ check = NoCheck /\ checkCount < MaxChecks
  /\ \E strict, sealed \in BOOLEAN :
       check' = [phase |-> "drift", no |-> checkCount + 1,
                 strict |-> strict, sealed |-> sealed, found |-> report,
                 shared |-> NoRun, own |-> NoRun, proof |-> NoProof,
                 unit |-> "unrun", coverage |-> "unrun", oracle |-> "unrun",
                 vacuous |-> FALSE, kept |-> NoReport, flagged |-> {},
                 says |-> [c \in Criterion |-> "unverified"]]
  /\ checkCount' = checkCount + 1
  /\ ran' = {}
  /\ UNCHANGED <<tests, report, setup, temps, full, hurt, killed, meddled>>

\* UNVERIFIED_AC of schema 0.1 reads the report of an earlier run.  A report
\* that lists no file at all cannot be mapped, and is ignored.
Flagged ==
  IF report = NoReport \/ ReportsNone(report) THEN {}
  ELSE {c \in Criterion :
          \/ report[c] \in {Unlisted, {}}
          \/ \E t \in report[c] : t.status = "fail"
          \/ \A t \in report[c] : t.status = "skip"}

DriftReads ==
  /\ In("drift")
  /\ check' = [check EXCEPT !.phase = "unit",
                            !.flagged = IF check.sealed THEN {} ELSE Flagged]
  /\ Proceeds /\ UNCHANGED <<report, temps, ran, full, hurt>>
-----------------------------------------------------------------------------
(* stage_2.1                                                               *)

Guarded == check.strict /\ setup.test = "vitest"
Captures == check.sealed /\ setup.test = "vitest"
Shares == setup.test = setup.coverage /\ setup.test \in {"vitest", "pytest"}

\* captureCurrentVitestProof: without a report the proof is what it was.
VitestProof(run) ==
  IF ~Captures \/ run.told = NoReport THEN check.proof
  ELSE [format |-> "vitest", cases |-> run.told]

\* A run with the project's reporter leaves its report in the workspace, in
\* place of whatever is there ...
Leaves(run, form) ==
  IF form = "junit" /\ run.told # NoReport
  THEN report' = run.told /\ full' = run.told /\ hurt' = FALSE
  ELSE UNCHANGED <<report, full, hurt>>

\* ... and one with the reporter of the stage, a temporary file.
Temporary(run, form, stage) ==
  IF form = "json" /\ run.told # NoReport THEN {<<check.no, stage>>} ELSE {}

\* A run whose reporter failed it counts as a fault.
Reported(run, form) ==
  IF form = "none" \/ run.missing \/ run.told = run.cases THEN Proceeds ELSE Falters

\* The guard that applies to a green run, shared or not.  Without a report
\* vacuousDoneFindings finds nothing.
Hollow(run) ==
  /\ check.strict
  /\ IF setup.test = "vitest"
     THEN run.told # NoReport /\ Vacuous(run.told) # {}
     ELSE ReportsNone(run.cases)

\* Mutant: as if a green run needed no guard on the shared path.
SharedUnguarded(run) ==
  IF ~run.green THEN [phase |-> "own", unit |-> "unrun", vacuous |-> FALSE]
  ELSE [phase |-> "coverage", unit |-> "pass", vacuous |-> FALSE]

\* Mutant: a red shared run is taken for the unit stage's own failure.
SharedBlames(run) ==
  [phase |-> "coverage", vacuous |-> run.green /\ Hollow(run),
   unit |-> IF run.green /\ ~Hollow(run) THEN "pass" ELSE "fail"]

\* tryReuseSharedRun, tryReuseSharedPytestRun: only a green run is reused,
\* after the guard; anything else is ambiguous, and the stage runs its own.
SharedVerdict(run) ==
  IF ~run.green THEN [phase |-> "own", unit |-> "unrun", vacuous |-> FALSE]
  ELSE [phase |-> "coverage", vacuous |-> Hollow(run),
        unit |-> IF Hollow(run) THEN "fail" ELSE "pass"]

RunShared ==
  /\ In("unit") /\ Shares
  /\ LET form == Form(setup.test = "vitest") IN
     \E run \in Results("coverage", setup.covered, form) :
       /\ check' = [check EXCEPT
               !.shared = run, !.proof = VitestProof(run),
               !.phase = SharedVerdict(run).phase,
               !.unit = SharedVerdict(run).unit,
               !.vacuous = SharedVerdict(run).vacuous]
       /\ ran' = ran \cup {run}
       /\ Leaves(run, form)
       /\ temps' = temps \cup Temporary(run, form, "shared")
       /\ Reported(run, form)

\* Without a command the stage answers without a run.
NoRunner ==
  /\ In("unit") /\ setup.test \in {"none", "unmapped"}
  /\ check' = [check EXCEPT !.phase = "coverage",
                !.unit = IF setup.test = "none" THEN "skip" ELSE "fail"]
  /\ Proceeds /\ UNCHANGED <<report, temps, ran, full, hurt>>

\* The stage's own command runs to its end ...
RunOwn ==
  /\ \/ In("own")
     \/ In("unit") /\ ~Shares /\ setup.test \notin {"none", "unmapped"}
  /\ LET form == Form(Guarded \/ Captures) IN
     \E run \in Results("test", setup.tested, form) :
       /\ check' = [check EXCEPT !.own = run, !.phase = "captured"]
       /\ ran' = ran \cup {run}
       /\ Leaves(run, form)
       /\ temps' = temps \cup Temporary(run, form, "own")
       /\ Reported(run, form)

\* Mutant: whatever report there is counts as this run's.
AnyReport ==
  IF check.sealed /\ setup.test # "vitest" /\ report # NoReport
  THEN [format |-> "junit", cases |-> report]
  ELSE check.proof

\* captureCurrentJUnitProof: the report as it is now, if that is not what
\* the check found when it was primed.
JUnitProof ==
  IF /\ check.sealed /\ setup.test # "vitest"
     /\ report # NoReport /\ report # check.found
  THEN [format |-> "junit", cases |-> report]
  ELSE check.proof

\* ... and then its output is captured and judged.
UnitAnswers ==
  /\ In("captured")
  /\ check' = [check EXCEPT
       !.phase = "coverage",
       !.proof = IF setup.test = "vitest" THEN VitestProof(check.own)
                 ELSE JUnitProof,
       !.vacuous = check.own.green /\ Hollow(check.own),
       !.unit = IF check.own.missing THEN "skip"
                ELSE IF check.own.green /\ ~Hollow(check.own) THEN "pass"
                ELSE "fail"]
  /\ temps' = temps \ {<<check.no, "own">>}
  /\ Proceeds /\ UNCHANGED <<report, ran, full, hurt>>
-----------------------------------------------------------------------------
(* stage_2.2 and stage_2.3                                                 *)

Graded(run) == IF run.missing THEN "skip" ELSE IF run.green THEN "pass" ELSE "fail"

\* runCov folds the shared run if the unit stage made one.
FoldShared ==
  /\ In("coverage") /\ check.shared # NoRun
  /\ check' = [check EXCEPT !.phase = "oracle", !.coverage = Graded(check.shared)]
  /\ Proceeds /\ UNCHANGED <<report, temps, ran, full, hurt>>

\* Without a command the stage answers without a run.
NoCoverage ==
  /\ In("coverage") /\ setup.coverage \in {"none", "unmapped"}
  /\ check' = [check EXCEPT !.phase = "oracle",
                !.coverage = IF setup.coverage = "none" THEN "skip" ELSE "fail"]
  /\ Proceeds /\ UNCHANGED <<report, temps, ran, full, hurt>>

RunCoverage ==
  /\ In("coverage") /\ check.shared = NoRun
  /\ setup.coverage \notin {"none", "unmapped"}
  /\ LET form == Form(FALSE) IN
     \E run \in Results("coverage", setup.covered, form) :
       /\ check' = [check EXCEPT !.phase = "oracle", !.coverage = Graded(run)]
       /\ ran' = ran \cup {run}
       /\ Leaves(run, form)
       /\ Reported(run, form)
  /\ UNCHANGED temps

NoOracles ==
  /\ In("oracle") /\ (~setup.oracles \/ setup.test = "none")
  /\ check' = [check EXCEPT !.phase = "closing", !.oracle = "skip"]
  /\ Proceeds /\ UNCHANGED <<report, temps, ran, full, hurt>>

\* snapshotTestReports, and the partial run begins; or a report cannot be
\* read, and there is none.
KeepReport ==
  /\ In("oracle") /\ setup.oracles /\ setup.test # "none"
  /\ \/ check' = [check EXCEPT !.phase = "partial", !.kept = report] /\ Proceeds
     \/ check' = [check EXCEPT !.phase = "closing", !.oracle = "fail"] /\ Falters
  /\ UNCHANGED <<report, temps, ran, full, hurt>>

\* A runner that cannot be started fails the stage, one that is not installed
\* skips it.
RunOracles ==
  /\ In("partial")
  /\ \E answer \in {"fail", IF "oracle" \in setup.installed THEN "pass" ELSE "skip"} :
       check' = [check EXCEPT !.phase = "restoring", !.oracle = answer]
  /\ \/ UNCHANGED report
     \/ setup.junit /\ "oracle" \in setup.installed /\ report' = OracleCases
  /\ Proceeds /\ UNCHANGED <<temps, ran, full, hurt>>

Restored ==
  /\ check' = [check EXCEPT !.phase = "closing"]
  /\ report' = check.kept
  /\ Proceeds /\ UNCHANGED hurt

\* Mutant: a report that cannot be restored is no reason to fail.
SilentlyUnrestored ==
  /\ report # NoReport \/ check.kept # NoReport
  /\ check' = [check EXCEPT !.phase = "closing"]
  /\ \/ UNCHANGED report
     \/ check.kept # NoReport /\ report' \in {check.kept, OracleCases}
  /\ Falters /\ hurt' = TRUE

\* A report that cannot be removed is there still; one that cannot be written
\* is there as it was, cut, or whole with the wrong time.
Unrestored ==
  /\ report # NoReport \/ check.kept # NoReport
  /\ check' = [check EXCEPT !.phase = "closing", !.oracle = "fail"]
  /\ \/ UNCHANGED report
     \/ check.kept # NoReport /\ report' \in {check.kept, OracleCases}
  /\ Falters /\ hurt' = TRUE

\* Mutant: a report that only the partial run created is left there.
RestoreExisting ==
  /\ In("restoring")
  /\ check' = [check EXCEPT !.phase = "closing"]
  /\ report' = IF check.kept = NoReport THEN report ELSE check.kept
  /\ Proceeds /\ UNCHANGED <<temps, ran, full, hurt>>

\* restoreTestReports.
RestoreReport ==
  /\ In("restoring")
  /\ Restored \/ Unrestored
  /\ UNCHANGED <<temps, ran, full>>
-----------------------------------------------------------------------------
\* The proof of this check is taken, the session closed, its report unlinked;
\* the cases are joined to the bindings of the moment.
Conclude ==
  /\ In("closing")
  /\ temps' = temps \ {<<check.no, "shared">>}
  /\ check' = [check EXCEPT !.phase = "concluded",
       !.says = [c \in Criterion |->
                   IF check.proof # NoProof /\ c \in Bound
                   THEN Observed(check.proof, c) ELSE "unverified"]]
  /\ Proceeds /\ UNCHANGED <<report, ran, full, hurt>>

Leave ==
  /\ In("concluded")
  /\ check' = NoCheck /\ ran' = {}
  /\ Proceeds /\ UNCHANGED <<report, temps, full, hurt>>
-----------------------------------------------------------------------------
(* The environment                                                         *)

Meddles ==
  /\ meddled < MaxMeddled /\ meddled' = meddled + 1
  /\ UNCHANGED checkCount

EditTests(c, file) ==
  /\ Meddles /\ file # tests[c]
  /\ tests' = [tests EXCEPT ![c] = file]
  /\ UNCHANGED <<report, setup, check, temps, ran, full, hurt, killed>>

\* An editor, a watcher or another check runs the suite, with a reporter.
SomeoneRuns ==
  /\ Meddles /\ setup.test # "none" /\ "test" \in setup.installed
  /\ LET cases == Selected(setup.tested)
         run == [by |-> "someone", cases |-> cases, told |-> cases,
                 green |-> Failing(cases) = {}, missing |-> FALSE]
     IN /\ report' = cases /\ full' = cases
        /\ ran' = IF check = NoCheck THEN {} ELSE ran \cup {run}
  /\ hurt' = (In("partial") \/ In("restoring"))
  /\ UNCHANGED <<tests, setup, check, temps, killed>>

\* The session is memory of the process; files stay.
Kill ==
  /\ Meddles /\ check # NoCheck
  /\ hurt' = (hurt \/ In("restoring"))
  /\ check' = NoCheck /\ ran' = {}
  /\ killed' = TRUE
  /\ UNCHANGED <<tests, report, setup, temps, full>>

EvidenceNext ==
  \/ Prime \/ DriftReads
  \/ RunShared \/ NoRunner \/ RunOwn \/ UnitAnswers
  \/ FoldShared \/ NoCoverage \/ RunCoverage
  \/ NoOracles \/ KeepReport \/ RunOracles \/ RestoreReport
  \/ Conclude \/ Leave
  \/ \E c \in Criterion, file \in TestFile : EditTests(c, file)
  \/ SomeoneRuns \/ Kill

EvidenceSpec == EvidenceInit /\ [][EvidenceNext]_evidenceVars
-----------------------------------------------------------------------------
ProofRecord == [format : {"vitest", "junit"}, cases : Cases]
CheckRecord ==
  [phase : {"drift", "unit", "own", "captured", "coverage", "oracle", "partial",
            "restoring", "closing", "concluded"},
   no : 1..MaxChecks, strict : BOOLEAN, sealed : BOOLEAN,
   found : Cases \cup {NoReport}, shared : RunResult \cup {NoRun},
   own : RunResult \cup {NoRun}, proof : ProofRecord \cup {NoProof},
   unit : StageState, coverage : StageState, oracle : StageState,
   vacuous : BOOLEAN, kept : Cases \cup {NoReport}, flagged : SUBSET Criterion,
   says : [Criterion -> {"verified", "failed", "unverified"}]]

ASSUME CheckAssumption == NoCheck \notin CheckRecord

EvidenceTypeOK ==
  /\ tests \in [Criterion -> TestFile]
  /\ report \in Cases \cup {NoReport} /\ full \in Cases \cup {NoReport}
  /\ setup \in Setup
  /\ check \in CheckRecord \cup {NoCheck}
  /\ temps \subseteq (1..MaxChecks) \X {"shared", "own"}
  /\ ran \subseteq RunResult
  /\ hurt \in BOOLEAN
  /\ killed \in BOOLEAN
  /\ checkCount \in 0..MaxChecks /\ meddled \in Nat

\* The run on which the unit stage decided.
Deciding == IF check.own # NoRun THEN check.own ELSE check.shared

\* A criterion is verified only on the word of a run of the suite since the
\* check began: the report of the run says that a case bound to it passed, and
\* none failed.  A JUnit report can be that of another process, but is never
\* one the check had found.  With Vitest it is the report of the very run on
\* which the unit stage decided; only if that run left no report, the proof of
\* this check's shared run before it stays (captureCurrentVitestProof ignores
\* the error, and forgets nothing).
VerifiedWasRun ==
  In("concluded") =>
    \A c \in Criterion : check.says[c] = "verified" =>
      /\ check.sealed
      /\ \E run \in ran :
           /\ run.told = check.proof.cases
           /\ setup.test = "vitest" =>
                \/ run = Deciding
                \/ run = check.shared /\ Deciding.told = NoReport
      /\ \E t \in check.proof.cases[c] :
           Selector \in {t.name, t.title} /\ t.status = "pass"
      /\ \A t \in check.proof.cases[c] : t.name = Selector => t.status # "fail"

Mine == {run \in ran : run.by # "someone"}

UnitIsTrue ==
  /\ check.unit = "pass" =>
       \E run \in Mine :
         /\ run.green
         /\ check.strict /\ setup.test = "vitest" =>
              run.told = NoReport \/ Vacuous(run.told) = {}
         /\ check.strict /\ setup.test # "vitest" => ~ReportsNone(run.cases)
  /\ check.unit = "fail" =>
       \/ check.vacuous \/ setup.test = "unmapped"
       \/ \E run \in Mine : run.by = "test" /\ ~run.green /\ ~run.missing

CoverageIsTrue ==
  /\ check.coverage = "pass" =>
       \E run \in Mine : run.by = "coverage" /\ run.green
  /\ check.coverage = "fail" =>
       \/ setup.coverage = "unmapped"
       \/ \E run \in Mine : run.by = "coverage" /\ ~run.green /\ ~run.missing

OneRunServesBoth ==
  check.shared # NoRun /\ check.shared.green => Mine = {check.shared}

\* The stages of a check tell what was run in it.  Unit passes only on a green
\* run of a suite in which, if the check is strict and the run left a report,
\* no feature's tests went unexecuted; it fails only because its own command
\* did, because of that guard, or because the command could not be resolved,
\* never because of coverage alone.  Coverage is the outcome of a coverage run
\* of this check, or of that same failure to resolve; and where one green run
\* served both, there was no other.
StagesTellTheirRuns ==
  check # NoCheck => UnitIsTrue /\ CoverageIsTrue /\ OneRunServesBoth

\* Outside of an oracle run the report is that of the last full run, unless
\* since then a check was killed in one, somebody else ran the suite during
\* one, or the report could not be restored; every temporary report belongs to
\* the check that runs or to one that was killed.
ReportIsOfTheSuite ==
  /\ ~hurt /\ ~In("restoring") => report = full
  /\ ~killed =>
       temps \subseteq IF check = NoCheck \/ In("concluded") THEN {}
                       ELSE {check.no} \X {"shared", "own"}

\* The oracle run leaves the report of the full suite alone, or its stage
\* fails; and a check leaves no temporary file.  So a later check of schema 0.1
\* holds no criterion for unverified that the last full run saw pass.
SuiteReportSurvives ==
  [][/\ ReportIsOfTheSuite'
     /\ RestoreReport /\ ~hurt /\ report' # full' => check'.oracle = "fail"
     /\ DriftReads /\ ~hurt =>
          \A c \in check'.flagged :
            /\ full # NoReport
            /\ \/ full[c] = Unlisted
               \/ \E t \in full[c] : t.status = "fail"
               \/ \A t \in full[c] : t.status = "skip"]_evidenceVars
=============================================================================
