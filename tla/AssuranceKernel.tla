-------------------------- MODULE AssuranceKernel --------------------------
(***************************************************************************)
(* The assurance kernel of schema 0.2: which stages a profile is obliged   *)
(* to, which rows of results it compiles from them, and how the rows       *)
(* reduce to a verdict and to the authority to record it.  Operators only; *)
(* GateRun calls them with a view of a run:                                *)
(*   profile, complete (the closure is known and did not move),            *)
(*   scope and done (features), status (of each stage),                    *)
(*   proof (channel, feature -> what the current evidence says).           *)
(*                                                                         *)
(* A feature with acceptance criteria is taken to have one.  Criteria with *)
(* static rules of their own, reasons, independence labels and hashes are  *)
(* left out.                                                               *)
(***************************************************************************)
EXTENDS Naturals

CONSTANTS Subject,        \* the features of the workspace
          Tested,         \* those with an acceptance criterion
          OracleDemanded, \* those whose criterion needs a blind oracle
          Baselined,      \* those a migration receipt stands in for
          HasDeliverable, \* whether there is something to smoke-test
          Level,          \* the level of the project, 1..4
          Registry        \* the stages of the registry

LevelOf == [type |-> 1, lint |-> 1, drift |-> 1, commit |-> 1, arch |-> 1,
            secret |-> 1, unit |-> 2, coverage |-> 2, conformance |-> 2,
            deliverable |-> 2, smoke |-> 3, performance |-> 3, visual |-> 3,
            audit |-> 4, uat |-> 4]

Stage == DOMAIN LevelOf

Kind == [type |-> "always", lint |-> "always", drift |-> "always",
         commit |-> "always", arch |-> "always", secret |-> "always",
         unit |-> "coverage", coverage |-> "coverage",
         conformance |-> "oracle", deliverable |-> "deliverable",
         smoke |-> "quality", performance |-> "quality",
         visual |-> "quality", audit |-> "human", uat |-> "human"]

Order == [type |-> 1, lint |-> 2, drift |-> 3, commit |-> 4, arch |-> 5,
          secret |-> 6, unit |-> 7, coverage |-> 8, conformance |-> 9,
          deliverable |-> 10, smoke |-> 11, performance |-> 12,
          visual |-> 13, audit |-> 14, uat |-> 15]

Profile == {"feedback", "checkpoint", "completion", "push", "release"}
Authoritative == {"completion", "push", "release"}

Profiles(s) ==
  CASE s = "commit" -> {"release"}
    [] s \in {"drift", "arch", "secret"} -> Profile
    [] s \in {"type", "lint"} -> Profile \ {"feedback"}
    [] OTHER -> Authoritative

Obligations(profile) ==
  {s \in Registry : /\ profile \in Profiles(s)
                    /\ LevelOf[s] <= IF profile \in Authoritative THEN Level ELSE 1}

GateStatus == {"pass", "skip", "fail", "pending_env", "advisory", "na", "liveness"}
IsBlocking(status) == status \in {"fail", "pending_env", "advisory"}
-----------------------------------------------------------------------------
(* Rows: one per stage and subject.  The whole scope is a subject as well. *)

WholeScope == [scope |-> TRUE]

ASSUME KernelAssumption ==
  /\ Tested \subseteq Subject /\ Baselined \subseteq Tested
  /\ OracleDemanded \subseteq Tested
  /\ HasDeliverable \in BOOLEAN
  /\ Level \in 1..4
  /\ Registry \subseteq Stage
  /\ WholeScope \notin Subject

Channel == [unit |-> "test", coverage |-> "test", conformance |-> "blind",
            audit |-> "audit", uat |-> "uat"]
ProofStage == DOMAIN Channel
RunnerStage == {"unit", "coverage", "conformance"}

Criteria(view) == view.scope \cap view.done \cap Tested
OracleCriteria(view) == Criteria(view) \cap OracleDemanded

Subjects(view, s) ==
  IF s = "conformance" THEN OracleCriteria(view)
  ELSE IF s \in ProofStage THEN Criteria(view)
  ELSE view.scope

Applies(view, s) ==
  CASE Kind[s] = "always" -> TRUE
    [] Kind[s] = "coverage" -> Criteria(view) # {}
    [] Kind[s] = "oracle" -> OracleCriteria(view) # {}
    [] Kind[s] = "deliverable" -> HasDeliverable
    [] Kind[s] = "quality" -> Level >= 3
    [] OTHER -> Level = 4

Applicability(view, s) ==
  IF ~view.complete THEN "unresolved"
  ELSE IF Applies(view, s) THEN "required" ELSE "na"

\* Mutant: conformance gets a row for the whole scope too.
SummarisesEveryRunner(view, s) == s \in RunnerStage

\* A runner's result for the whole scope is a row of its own.
Summarised(view, s) ==
  \/ s \in {"unit", "coverage"}
  \/ /\ s \in RunnerStage
     /\ Applicability(view, s) = "required"
     /\ view.status[s] # "pass"

\* What part a row plays: of one subject, to say that nothing applies, or
\* to summarise the scope.
SubjectRow(s, x) == [stage |-> s, of |-> x, part |-> "subject"]
EmptyRow(s) == [stage |-> s, of |-> WholeScope, part |-> "none"]
SummaryRow(s) == [stage |-> s, of |-> WholeScope, part |-> "summary"]

Rows(view) ==
  LET owed == Obligations(view.profile) IN
  (UNION {{SubjectRow(s, x) : x \in Subjects(view, s)} : s \in owed})
  \cup {EmptyRow(s) : s \in {t \in owed : /\ Subjects(view, t) = {}
                                          /\ Applicability(view, t) # "required"}}
  \cup {SummaryRow(s) : s \in {t \in owed : Summarised(view, t)}}

\* Mutant: a stage that was skipped has passed.
SkipsPass(status) ==
  IF status \in {"pass", "skip"} THEN "pass"
  ELSE IF status \in {"fail", "advisory"} THEN "fail" ELSE "unobserved"

StageObservation(status) ==
  IF status = "pass" THEN "pass"
  ELSE IF status \in {"fail", "advisory"} THEN "fail" ELSE "unobserved"

ProofObservation(view, s, f) ==
  LET proof == view.proof[Channel[s]][f] IN
  IF s \in RunnerStage /\ view.status[s] # "pass" THEN "unobserved"
  ELSE IF proof = "verified" THEN "pass"
  ELSE IF proof = "failed" THEN "fail" ELSE "unobserved"

Reduced(view, row) ==
  IF Applicability(view, row.stage) = "na" THEN "na"
  ELSE IF Applicability(view, row.stage) = "unresolved" THEN "unobserved"
  ELSE IF row.part = "subject" /\ row.stage \in ProofStage
  THEN ProofObservation(view, row.stage, row.of)
  ELSE StageObservation(view.status[row.stage])

\* An unproved criterion of a migrated project falls back on its receipt,
\* where the same stage passed for the scope.
ScopePassed(view, s) ==
  /\ Summarised(view, s)
  /\ Applicability(view, s) = "required"
  /\ StageObservation(view.status[s]) = "pass"

FallsBack(view, row) ==
  /\ Reduced(view, row) = "unobserved"
  /\ row.part = "subject" /\ row.stage \in {"unit", "coverage"}
  /\ row.of \in Baselined
  /\ Applicability(view, row.stage) = "required"
  /\ ScopePassed(view, row.stage)

Result(view, row) ==
  IF FallsBack(view, row) THEN "migration_baseline" ELSE Reduced(view, row)
-----------------------------------------------------------------------------
(* The verdict                                                             *)

Unrepresented(view) ==
  {s \in Obligations(view.profile) : \A row \in Rows(view) : row.stage # s}

State(view) ==
  IF \E row \in Rows(view) : Result(view, row) = "fail" THEN "red"
  ELSE IF \/ Obligations(view.profile) = {} \/ Unrepresented(view) # {}
          \/ \E row \in Rows(view) : Result(view, row) = "unobserved"
  THEN "unresolved" ELSE "green"

HasDuplicateKeys(view) ==
  \E row, other \in Rows(view) :
    row # other /\ row.stage = other.stage /\ row.of = other.of

\* Which verdicts the gate may turn into attestation rows.
HasAuthority(view) ==
  /\ view.profile \in Authoritative
  /\ view.scope # {}
  /\ State(view) = "green"
  /\ ~HasDuplicateKeys(view)
  /\ \E row \in Rows(view) : Result(view, row) = "pass"
  /\ \A row \in Rows(view) :
       Result(view, row) \in {"pass", "migration_baseline"} =>
         view.status[row.stage] # "unrun"
=============================================================================
