---------------------------- MODULE GateRunProofs ----------------------------
(***************************************************************************)
(* What a green verdict and a written row mean, for any set of features,   *)
(* any registry and level, and any number of runs and edits.               *)
(***************************************************************************)
EXTENDS GateRun, TLAPS

-----------------------------------------------------------------------------
(* The kernel                                                              *)

\* What the lemmas ask of a view.
IsView(view) ==
  /\ view.profile \in Profile
  /\ view.scope \subseteq Subject
  /\ DOMAIN view.status = Obligations(view.profile)
  /\ \A c \in ProofChannel, f \in Subject : view.proof[c][f] \in Proof

LEMMA StageFacts ==
  /\ \A s \in Stage : Kind[s] = "always" =>
       s \notin ProofStage /\ s \notin {"unit", "coverage"}
  /\ "drift" \in Stage /\ Kind["drift"] = "always" /\ LevelOf["drift"] = 1
  /\ Kind["unit"] = "coverage" /\ Kind["coverage"] = "coverage"
  /\ Kind["conformance"] = "oracle"
  /\ {"unit", "coverage", "conformance"} \subseteq ProofStage
  /\ Channel["unit"] = "test" /\ Channel["coverage"] = "test"
  /\ Channel["conformance"] = "blind"
BY DEF Stage, LevelOf, Kind, ProofStage, Channel

\* No green verdict with a row that failed or was not observed.
LEMMA GreenRows ==
  ASSUME NEW view, IsView(view), State(view) = "green",
         NEW row \in Rows(view)
  PROVE  /\ Result(view, row) # "fail"
         /\ Result(view, row) # "unobserved"
BY DEF State

\* Every obligation has a row.
LEMMA GreenRepresents ==
  ASSUME NEW view, State(view) = "green", NEW s \in Obligations(view.profile)
  PROVE  \E row \in Rows(view) : row.stage = s
BY DEF State, Unrepresented

LEMMA RowFields ==
  ASSUME NEW view, NEW row \in Rows(view)
  PROVE  /\ row.stage \in Obligations(view.profile)
         /\ row.part \in {"subject", "none", "summary"}
         /\ row.part = "subject" => row.of \in Subjects(view, row.stage)
         /\ row.part # "subject" => row.of = WholeScope
         /\ row.part = "none" => /\ Subjects(view, row.stage) = {}
                                 /\ Applicability(view, row.stage) # "required"
         /\ row.part = "summary" => Summarised(view, row.stage)
         /\ row = [stage |-> row.stage, of |-> row.of, part |-> row.part]
<1>1. CASE \E s \in Obligations(view.profile) :
             \E x \in Subjects(view, s) : row = SubjectRow(s, x)
  BY <1>1 DEF SubjectRow
<1>2. CASE \E s \in Obligations(view.profile) :
             /\ Subjects(view, s) = {} /\ Applicability(view, s) # "required"
             /\ row = EmptyRow(s)
  BY <1>2 DEF EmptyRow
<1>3. CASE \E s \in Obligations(view.profile) :
             Summarised(view, s) /\ row = SummaryRow(s)
  BY <1>3 DEF SummaryRow
<1>4. QED
  BY <1>1, <1>2, <1>3, Zenon DEF Rows

\* An unknown or moving closure makes no green verdict.
LEMMA GreenIsComplete ==
  ASSUME NEW view, IsView(view), State(view) = "green", view.complete \in BOOLEAN
  PROVE  view.complete
<1> SUFFICES ASSUME ~view.complete PROVE FALSE
  OBVIOUS
<1>0. Obligations(view.profile) # {}
  BY DEF State
<1>1. PICK s : s \in Obligations(view.profile)
  BY <1>0
<1>2. PICK row \in Rows(view) : row.stage = s
  BY <1>1, GreenRepresents
<1>3. Applicability(view, s) = "unresolved"
  BY DEF Applicability
<1>4. Reduced(view, row) = "unobserved"
  BY <1>2, <1>3 DEF Reduced
<1>5. Result(view, row) = "unobserved"
  BY <1>2, <1>3, <1>4 DEF Result, FallsBack
<1>6. QED
  BY <1>5, GreenRows

\* A stage that is always required passed.
LEMMA GreenAlways ==
  ASSUME NEW view, IsView(view), State(view) = "green", view.complete,
         NEW s \in Obligations(view.profile), Kind[s] = "always"
  PROVE  /\ view.status[s] = "pass"
         /\ \E row \in Rows(view) : Result(view, row) = "pass"
<1>1. PICK row \in Rows(view) : row.stage = s
  BY GreenRepresents
<1>2. s \in Stage /\ s \notin ProofStage /\ s \notin {"unit", "coverage"}
  BY StageFacts, KernelAssumption DEF Obligations
<1>3. Applicability(view, s) = "required"
  BY DEF Applicability, Applies
<1>4. Result(view, row) = StageObservation(view.status[s])
  BY <1>1, <1>2, <1>3 DEF Result, FallsBack, Reduced
<1>5. QED
  BY <1>1, <1>4, GreenRows DEF StageObservation

\* The evidence behind each criterion in the scope.
LEMMA GreenCriteria ==
  ASSUME NEW view, IsView(view), State(view) = "green", view.complete,
         NEW s \in Obligations(view.profile), NEW f \in Criteria(view)
  PROVE  /\ s \in {"unit", "coverage"} =>
              /\ view.status[s] = "pass"
              /\ \/ view.proof["test"][f] = "verified"
                 \/ view.proof["test"][f] = "unverified" /\ f \in Baselined
         /\ s = "conformance" /\ f \in OracleDemanded =>
              view.status[s] = "pass" /\ view.proof["blind"][f] = "verified"
<1> USE StageFacts
<1>0. f \in Subject
  BY DEF IsView, Criteria
<1>00. Criteria(view) # {}
  OBVIOUS
<1>1. CASE s \in {"unit", "coverage"}
  <2>1. Applicability(view, s) = "required"
    BY <1>00, <1>1 DEF Applicability, Applies
  <2>2. SummaryRow(s) \in Rows(view)
    BY <1>1 DEF Rows, Summarised
  <2>3. view.status[s] = "pass"
    BY <2>1, <2>2, GreenRows
       DEF SummaryRow, Result, FallsBack, Reduced, StageObservation
  <2>4. Subjects(view, s) = Criteria(view)
    BY <1>1 DEF Subjects
  <2> DEFINE row == SubjectRow(s, f)
  <2>5. row \in Rows(view)
    BY <2>4 DEF Rows
  <2>6. Reduced(view, row) = ProofObservation(view, s, f)
    BY <1>1, <2>1 DEF SubjectRow, Reduced
  <2>7. view.proof["test"][f] \in Proof
    BY <1>0 DEF IsView, ProofChannel
  <2>8. Result(view, row) # "fail" /\ Result(view, row) # "unobserved"
    BY <2>5, GreenRows
  <2>9. QED
    BY <1>1, <2>3, <2>6, <2>7, <2>8
       DEF SubjectRow, Result, FallsBack, ProofObservation, Proof
<1>2. CASE s = "conformance" /\ f \in OracleDemanded
  <2>1. f \in OracleCriteria(view)
    BY <1>2 DEF OracleCriteria
  <2>2. Applicability(view, s) = "required"
    BY <1>2, <2>1 DEF Applicability, Applies
  <2> DEFINE row == SubjectRow(s, f)
  <2>3. row \in Rows(view)
    BY <1>2, <2>1 DEF Rows, Subjects
  <2>4. Result(view, row) = ProofObservation(view, s, f)
    BY <1>2, <2>2 DEF SubjectRow, Result, FallsBack, Reduced
  <2>5. QED
    BY <1>2, <2>3, <2>4, GreenRows DEF ProofObservation, RunnerStage
<1>3. QED
  BY <1>1, <1>2

\* Keys are unique wherever a done feature in the scope has a criterion, or
\* neither unit nor coverage is owed.
LEMMA UniqueKeys ==
  ASSUME NEW view, IsView(view),
         \/ Criteria(view) # {}
         \/ {"unit", "coverage"} \cap Obligations(view.profile) = {}
  PROVE  ~HasDuplicateKeys(view)
<1> SUFFICES ASSUME NEW row \in Rows(view), NEW other \in Rows(view),
                    row # other, row.stage = other.stage, row.of = other.of
             PROVE  FALSE
  BY DEF HasDuplicateKeys
<1>1. \A s : Subjects(view, s) \subseteq Subject
  BY DEF Subjects, IsView, OracleCriteria, Criteria
<1>2. row.part = "subject" => other.part = "subject"
  BY <1>1, RowFields, KernelAssumption
<1>3. other.part = "subject" => row.part = "subject"
  BY <1>1, RowFields, KernelAssumption
<1>4. row.part # other.part
  BY RowFields
<1>5. PICK both \in Rows(view) :
        /\ both.stage = row.stage
        /\ both.part = "none" /\ Summarised(view, both.stage)
  BY <1>2, <1>3, <1>4, RowFields
<1>6. both.stage \in {"unit", "coverage"}
  BY <1>5, RowFields DEF Summarised
<1>7. Criteria(view) = {}
  BY <1>5, <1>6, RowFields, StageFacts DEF Subjects
<1>8. QED
  BY <1>5, <1>6, <1>7, RowFields
-----------------------------------------------------------------------------
(* Types                                                                   *)

PlanSet == [scope : SUBSET Subject, complete : BOOLEAN, inputs : InputSet]

LEMMA ClosureTyped ==
  ASSUME NEW S \in SUBSET Subject
  PROVE  S \subseteq Closure(S) /\ Closure(S) \subseteq Subject
BY DEF Closure

LEMMA InputsTyped ==
  ASSUME GateTypeOK, NEW profile \in Profile, NEW scope \in SUBSET Subject, NEW view
  PROVE  Inputs(profile, scope, view) \in InputSet
<1> DEFINE fact(f) == <<code[f], f \in view>>
<1>1. ASSUME NEW f \in scope
      PROVE  fact(f) \in (Content \cup {Absent}) \X BOOLEAN
  <2>1. code[f] \in Content \cup {Absent}
    BY DEF GateTypeOK
  <2>2. (f \in view) \in BOOLEAN
    OBVIOUS
  <2>3. QED
    BY <2>1, <2>2, Zenon
<1> HIDE DEF fact
<1>2. [f \in scope |-> fact(f)] \in [scope -> (Content \cup {Absent}) \X BOOLEAN]
  BY <1>1
<1> DEFINE facts == [f \in scope |-> fact(f)]
<1>3. facts \in UNION {[S -> (Content \cup {Absent}) \X BOOLEAN] : S \in SUBSET Subject}
  BY <1>2
<1>4. Inputs(profile, scope, view) = [profile |-> profile, facts |-> facts]
  BY Zenon DEF Inputs, fact
<1> HIDE DEF facts
<1>5. QED
  BY <1>3, <1>4 DEF InputSet

\* What a plan says: its scope, and the facts it seals.
LEMMA PlanFacts ==
  ASSUME GateTypeOK, NEW profile \in Profile, NEW target \in Subject \cup {NoTarget},
         profile = "completion" <=> target # NoTarget, NEW view
  PROVE  LET plan == Plan(profile, target, view) IN
         /\ plan \in PlanSet
         /\ target # NoTarget => target \in plan.scope
         /\ profile # "completion" => plan.scope = Subject
         /\ plan.inputs = Inputs(profile, plan.scope, view)
<1> DEFINE requested == RequestedScope(profile, target)
           complete == Unknown(requested, view) = {}
           scope == IF complete THEN requested ELSE Subject
<1>1. /\ requested \subseteq Subject
      /\ target # NoTarget => target \in requested
      /\ profile # "completion" => requested = Subject
  BY ClosureTyped, GateAssumption DEF RequestedScope
<1>2. /\ scope \in SUBSET Subject
      /\ target # NoTarget => target \in scope
      /\ profile # "completion" => scope = Subject
  BY <1>1
<1>3. Inputs(profile, scope, view) \in InputSet
  BY <1>2, InputsTyped
<1>4. Plan(profile, target, view) =
        [scope |-> scope, complete |-> complete,
         inputs |-> Inputs(profile, scope, view)]
  BY DEF Plan
<1>5. complete \in BOOLEAN
  OBVIOUS
<1> HIDE DEF complete, scope, requested
<1>6. QED
  BY <1>2, <1>3, <1>4, <1>5 DEF PlanSet

StatusSet == UNION {[S -> GateStatus \cup {"unrun"}] : S \in SUBSET Registry}
SawSet == UNION {[S -> [Subject -> Content \cup {Absent}]] : S \in SUBSET Registry}

\* What GateTypeOK says of the record of a run.
RunTypeOK == /\ run \in RunRecord
             /\ DOMAIN run.status = Obligations(run.profile)
             /\ DOMAIN run.saw = Obligations(run.profile)

LEMMA RunTyped ==
  ASSUME GateTypeOK, run # NoRun
  PROVE  /\ RunTypeOK
         /\ run.status \in StatusSet /\ run.saw \in SawSet
         /\ run.profile \in Profile
         /\ run.target \in Subject \cup {NoTarget}
         /\ run.plan \in PlanSet
BY DEF GateTypeOK, RunTypeOK, RunRecord, StatusSet, SawSet, PlanSet

LEMMA StatusTyped ==
  ASSUME NEW status \in StatusSet, NEW s, NEW v \in GateStatus
  PROVE  /\ [status EXCEPT ![s] = v] \in StatusSet
         /\ DOMAIN [status EXCEPT ![s] = v] = DOMAIN status
BY DEF StatusSet

LEMMA SawTyped ==
  ASSUME NEW saw \in SawSet, NEW s, NEW v \in [Subject -> Content \cup {Absent}]
  PROVE  /\ [saw EXCEPT ![s] = v] \in SawSet
         /\ DOMAIN [saw EXCEPT ![s] = v] = DOMAIN saw
BY DEF SawSet

LEMMA TypeStart == ASSUME GateTypeOK, Start PROVE RunTypeOK'
<1>1. PICK r \in Request :
        run' = [phase |-> "stages", profile |-> r.profile,
                target |-> r.target, strict |-> r.strict,
                silent |-> r.silent, done |-> done,
                plan |-> Plan(r.profile, r.target, DoneView(r.target)),
                status |-> [s \in Obligations(r.profile) |-> "unrun"],
                saw |-> [s \in Obligations(r.profile) |-> code],
                proof |-> NoProof, stale |-> {}, other |-> FALSE,
                exempted |-> FALSE, verdict |-> "none", failed |-> FALSE,
                entries |-> {}]
  BY DEF Start
<1>2. /\ r.profile \in Profile /\ r.target \in Subject \cup {NoTarget}
      /\ r.strict \in BOOLEAN /\ r.silent \in BOOLEAN
      /\ r.profile = "completion" <=> r.target # NoTarget
  BY EnvironmentAssumption
<1> DEFINE plan == Plan(r.profile, r.target, DoneView(r.target))
           status == [s \in Obligations(r.profile) |-> "unrun"]
           saw == [s \in Obligations(r.profile) |-> code]
<1>3. plan \in PlanSet
  BY <1>2, PlanFacts
<1>4. Obligations(r.profile) \in SUBSET Registry
  BY DEF Obligations
<1>5. status \in StatusSet /\ DOMAIN status = Obligations(r.profile)
  BY <1>4 DEF StatusSet
<1>6. saw \in SawSet /\ DOMAIN saw = Obligations(r.profile)
  BY <1>4 DEF SawSet, GateTypeOK
<1>7. NoProof \in [ProofChannel -> [Subject -> Proof]]
  BY DEF NoProof, Proof
<1>8. done \in SUBSET Subject
  BY DEF GateTypeOK
<1> HIDE DEF plan, status, saw
<1>9. run' = [phase |-> "stages", profile |-> r.profile,
              target |-> r.target, strict |-> r.strict,
              silent |-> r.silent, done |-> done, plan |-> plan,
              status |-> status, saw |-> saw,
              proof |-> NoProof, stale |-> {}, other |-> FALSE,
              exempted |-> FALSE, verdict |-> "none", failed |-> FALSE,
              entries |-> {}]
  BY <1>1 DEF plan, status, saw
<1>10. QED
  BY <1>2, <1>3, <1>5, <1>6, <1>7, <1>8, <1>9
     DEF RunTypeOK, RunRecord, StatusSet, SawSet, PlanSet

LEMMA TypeDrift == ASSUME GateTypeOK, Drift PROVE RunTypeOK'
<1>1. run # NoRun
  BY DEF Drift, NoRun
<1>2. PICK other \in BOOLEAN :
        LET stale == Stale(DoneView(run.target)) IN
        run' = [run EXCEPT !.stale = stale, !.other = other,
                 !.saw["drift"] = code,
                 !.status["drift"] =
                    IF other \/ (stale # {} /\ WarnBlocks)
                    THEN "fail" ELSE "pass"]
  BY DEF Drift
<1> DEFINE stale == Stale(DoneView(run.target))
           found == IF other \/ (stale # {} /\ WarnBlocks) THEN "fail" ELSE "pass"
           saw == [run.saw EXCEPT !["drift"] = code]
           status == [run.status EXCEPT !["drift"] = found]
<1>3. stale \in SUBSET Subject
  BY <1>1, RunTyped DEF Stale, DoneView, GateTypeOK
<1>4. found \in GateStatus
  BY DEF GateStatus
<1>5. status \in StatusSet /\ DOMAIN status = DOMAIN run.status
  BY <1>1, <1>4, RunTyped, StatusTyped
<1>6. saw \in SawSet /\ DOMAIN saw = DOMAIN run.saw
  BY <1>1, RunTyped, SawTyped DEF GateTypeOK
<1>7. run' = [run EXCEPT !.stale = stale, !.other = other, !.saw = saw,
                         !.status = status]
  BY <1>1, <1>2, RunTyped DEF RunTypeOK, RunRecord
<1> HIDE DEF stale, saw, status
<1>8. QED
  BY <1>1, <1>3, <1>5, <1>6, <1>7, RunTyped
     DEF RunTypeOK, RunRecord, StatusSet, SawSet

LEMMA TypeLook ==
  ASSUME GateTypeOK, NEW s \in Registry, Reuse(s) \/ Execute(s)
  PROVE  RunTypeOK'
<1>0. run.phase = "stages"
  BY Zenon DEF Reuse, Execute
<1>1. run # NoRun
  BY <1>0 DEF NoRun
<1>2. Outcome[s] \subseteq GateStatus
  BY GateAssumption
<1>3. PICK status \in GateStatus, from \in [Subject -> Content \cup {Absent}] :
        run' = [run EXCEPT !.status[s] = status, !.saw[s] = from]
  <2>1. CASE Execute(s)
    BY <1>2, <2>1 DEF Execute, GateTypeOK
  <2>2. CASE Reuse(s)
    <3>1. (IF "drift" \in DOMAIN run.saw THEN run.saw["drift"] ELSE code)
            \in [Subject -> Content \cup {Absent}]
      BY <1>1, RunTyped DEF SawSet, GateTypeOK
    <3>2. QED
      BY <1>2, <2>2, <3>1 DEF Reuse
  <2>3. QED
    BY <2>1, <2>2
<1> DEFINE saw == [run.saw EXCEPT ![s] = from]
           seen == [run.status EXCEPT ![s] = status]
<1>4. seen \in StatusSet /\ DOMAIN seen = DOMAIN run.status
  BY <1>1, RunTyped, StatusTyped
<1>5. saw \in SawSet /\ DOMAIN saw = DOMAIN run.saw
  BY <1>1, RunTyped, SawTyped
<1>6. run' = [run EXCEPT !.saw = saw, !.status = seen]
  BY <1>1, <1>3, RunTyped DEF RunTypeOK, RunRecord
<1> HIDE DEF saw, seen
<1>7. QED
  BY <1>1, <1>4, <1>5, <1>6, RunTyped
     DEF RunTypeOK, RunRecord, StatusSet, SawSet

LEMMA EvidenceTyped == Evidence \subseteq [ProofChannel -> [Subject -> Proof]]
<1> SUFFICES ASSUME NEW proof \in Evidence
             PROVE  proof \in [ProofChannel -> [Subject -> Proof]]
  OBVIOUS
<1>1. PICK says \in [Asked -> Proof] :
        proof = [c \in ProofChannel |-> [f \in Subject |->
                   IF <<c, f>> \in Asked THEN says[<<c, f>>] ELSE "unverified"]]
  BY DEF Evidence
<1>2. \A c \in ProofChannel, f \in Subject :
        (IF <<c, f>> \in Asked THEN says[<<c, f>>] ELSE "unverified") \in Proof
  BY DEF Proof
<1>3. QED
  BY <1>1, <1>2

LEMMA SkipPolicyTyped ==
  ASSUME GateTypeOK, run # NoRun
  PROVE  /\ AfterSkipPolicy \in StatusSet
         /\ DOMAIN AfterSkipPolicy = DOMAIN run.status
<1>1. PICK S \in SUBSET Registry : run.status \in [S -> GateStatus \cup {"unrun"}]
  BY RunTyped DEF StatusSet
<1>2. AfterSkipPolicy \in [S -> GateStatus \cup {"unrun"}]
  BY <1>1 DEF AfterSkipPolicy, GateStatus
<1>3. QED
  BY <1>1, <1>2 DEF StatusSet

\* What Judge computes.
Judged(status, proof, stable) ==
  LET view == View(status, proof, stable)
      verdict == State(view)
  IN [run EXCEPT !.phase = "judged", !.status = status, !.proof = proof,
        !.exempted = Exempts(AfterSkipPolicy), !.verdict = verdict,
        !.failed = \/ \E s \in DOMAIN status : IsBlocking(status[s])
                   \/ run.profile # "feedback" /\ verdict # "green",
        !.entries = IF verdict = "green" /\ HasAuthority(view)
                    THEN Owed(Replaced) ELSE {}]

Now == Plan(run.profile, run.target, DoneView(run.target))
Stable == run.plan.complete /\ Now.complete /\ Now.inputs = run.plan.inputs
FinalStatus == IF Exempts(AfterSkipPolicy)
               THEN [AfterSkipPolicy EXCEPT !["drift"] = "pass"] ELSE AfterSkipPolicy

LEMMA JudgeCases ==
  ASSUME Judge
  PROVE  \E proof \in Evidence : run' = Judged(FinalStatus, proof, Stable)
BY DEF Judge, Judged, FinalStatus, Stable, Now

LEMMA FinalStatusTyped ==
  ASSUME GateTypeOK, run # NoRun
  PROVE  FinalStatus \in StatusSet /\ DOMAIN FinalStatus = DOMAIN run.status
BY SkipPolicyTyped, StatusTyped DEF FinalStatus, GateStatus

LEMMA TypeJudge == ASSUME GateTypeOK, Judge PROVE RunTypeOK'
<1>1. run # NoRun
  BY DEF Judge, NoRun
<1>2. PICK proof \in Evidence : run' = Judged(FinalStatus, proof, Stable)
  BY JudgeCases
<1> DEFINE view == View(FinalStatus, proof, Stable)
           verdict == State(view)
           failed == \/ \E s \in DOMAIN FinalStatus : IsBlocking(FinalStatus[s])
                     \/ run.profile # "feedback" /\ verdict # "green"
           entries == IF verdict = "green" /\ HasAuthority(view)
                      THEN Owed(Replaced) ELSE {}
           exempted == Exempts(AfterSkipPolicy)
<1>3. verdict \in {"none", "red", "unresolved", "green"}
  BY DEF State
<1>4. entries \in SUBSET Subject
  BY <1>1, RunTyped DEF Owed, DoneView, Replaced, PlanSet, GateTypeOK
<1>5. failed \in BOOLEAN /\ exempted \in BOOLEAN
  BY DEF Exempts
<1> HIDE DEF verdict, failed, entries, exempted
<1>6. run' = [run EXCEPT !.phase = "judged", !.status = FinalStatus,
                !.proof = proof, !.exempted = exempted, !.verdict = verdict,
                !.failed = failed, !.entries = entries]
  BY <1>2 DEF Judged, verdict, failed, entries, exempted
<1>7. proof \in [ProofChannel -> [Subject -> Proof]]
  BY EvidenceTyped
<1>8. QED
  BY <1>1, <1>3, <1>4, <1>5, <1>6, <1>7, RunTyped, FinalStatusTyped
     DEF RunTypeOK, RunRecord, StatusSet, SawSet

LEMMA TypeInit == GateInit => GateTypeOK
<1> SUFFICES ASSUME GateInit PROVE GateTypeOK
  OBVIOUS
<1>1. PICK first \in FirstState :
        /\ code = first.code /\ done = first.done
        /\ rows = first.rows /\ file = first.file
        /\ runs = first.runs /\ edits = first.edits
  BY DEF GateInit
<1>2. QED
  BY <1>1, EnvironmentAssumption DEF GateInit, GateTypeOK, NoChanges

LEMMA RowTyped ==
  ASSUME GateTypeOK, run # NoRun, run.profile \in Authoritative, NEW f \in Subject
  PROVE  RowFor(f) \in Row
BY RunTyped DEF RowFor, Row, PlanSet, GateTypeOK

LEMMA TypeStep ==
  ASSUME GateTypeOK, [GateNext]_gateVars,
         run # NoRun /\ run.entries # {} => run.profile \in Authoritative
  PROVE  GateTypeOK'
<1> USE GateAssumption
<1>1. CASE Start
  <2>1. /\ runs < MaxRuns /\ runs' = runs + 1 /\ changes' = NoChanges
        /\ UNCHANGED <<code, done, rows, file, edits>>
    BY <1>1, Zenon DEF Start
  <2>2. QED
    BY <1>1, <2>1, TypeStart DEF RunTypeOK, GateTypeOK, NoChanges
<1>2. CASE Drift
  BY <1>2, TypeDrift DEF Drift, RunTypeOK, GateTypeOK
<1>3. ASSUME NEW s \in Registry, Reuse(s) \/ Execute(s) PROVE GateTypeOK'
  <2>1. UNCHANGED <<code, done, rows, file, changes, runs, edits>>
    BY <1>3, Zenon DEF Reuse, Execute
  <2>2. QED
    BY <1>3, <2>1, TypeLook DEF RunTypeOK, GateTypeOK
<1>4. CASE Judge
  BY <1>4, TypeJudge DEF Judge, RunTypeOK, GateTypeOK
<1>5. CASE Finish
  BY <1>5 DEF Finish, GateTypeOK, NoChanges
<1>6. CASE Stamp
  <2>1. run # NoRun
    BY <1>6 DEF Stamp, NoRun
  <2>2. run.profile \in Authoritative
    BY <1>6, <2>1 DEF Stamp, Stamps
  <2>3. rows' \in [Subject -> Row \cup {NoRow}]
    BY <1>6, <2>1, <2>2, RowTyped DEF Stamp, Merged, GateTypeOK
  <2>4. done' \subseteq Subject
    BY <1>6, <2>1, RunTyped DEF Stamp, DoneView, GateTypeOK
  <2>5. QED
    BY <1>6, <2>3, <2>4 DEF Stamp, GateTypeOK, NoChanges
<1>7. ASSUME NEW f \in Subject, Reopen(f) PROVE GateTypeOK'
  <2>1. done' \subseteq Subject
    BY <1>7 DEF Reopen, GateTypeOK
  <2>2. edits' \in 0..MaxEdits
    BY <1>7 DEF Reopen, GateTypeOK
  <2>3. QED
    BY <1>7, <2>1, <2>2 DEF Reopen, GateTypeOK
<1>8. ASSUME NEW f \in Subject, NEW content \in Content \cup {Absent},
             EditCode(f, content)
      PROVE  GateTypeOK'
  <2>1. code' \in [Subject -> Content \cup {Absent}]
    BY <1>8 DEF EditCode, GateTypeOK
  <2>2. changes' \in [Subject -> Nat]
    BY <1>8 DEF EditCode, GateTypeOK, NoChanges
  <2>3. edits' \in 0..MaxEdits
    BY <1>8 DEF EditCode, GateTypeOK
  <2>4. QED
    BY <1>8, <2>1, <2>2, <2>3 DEF EditCode, GateTypeOK
<1>9. CASE UNCHANGED gateVars
  BY <1>9 DEF gateVars, GateTypeOK
<1>10. QED
  BY <1>1, <1>2, <1>3, <1>4, <1>5, <1>6, <1>7, <1>8, <1>9 DEF GateNext
-----------------------------------------------------------------------------
(* A run and its plan                                                      *)

\* The features that are done in the eyes of the plan.
Answered == run.done \cup ({run.target} \ {NoTarget})

\* A run keeps what it sealed: its facts are about its scope, no feature
\* became done since, a feature whose contents differ from the sealed ones
\* was edited, one that was never edited looks to every stage as sealed, and
\* what the run may write is what it answered for.
RunKeepsItsPlan ==
  run # NoRun =>
    /\ run.profile = "completion" <=> run.target # NoTarget
    /\ run.target # NoTarget => run.target \in run.plan.scope
    /\ run.profile # "completion" => run.plan.scope = Subject
    /\ DOMAIN run.plan.inputs.facts = run.plan.scope
    /\ \A f \in run.plan.scope :
         run.plan.inputs.facts[f] =
           <<run.plan.inputs.facts[f][1], f \in Answered>>
    /\ done \subseteq run.done
    /\ \A g \in run.plan.scope :
         /\ changes[g] = 0 =>
              /\ code[g] = run.plan.inputs.facts[g][1]
              /\ \A s \in DOMAIN run.saw : run.saw[s][g] = code[g]
         /\ changes[g] = 1 => code[g] # run.plan.inputs.facts[g][1]
    /\ run.entries # {} =>
         run.profile \in Authoritative /\ run.entries = Replaced \cap Answered

\* Where the inputs are what they were, so are contents and done features.
LEMMA SameInputs ==
  ASSUME GateTypeOK, RunKeepsItsPlan, run # NoRun,
         Now.inputs = run.plan.inputs
  PROVE  /\ Now.scope = run.plan.scope
         /\ \A f \in run.plan.scope :
              /\ code[f] = run.plan.inputs.facts[f][1]
              /\ f \in DoneView(run.target) <=> f \in Answered
<1>1. Now.inputs = Inputs(run.profile, Now.scope, DoneView(run.target))
  BY PlanFacts, RunTyped DEF RunKeepsItsPlan, Now
<1>2. run.plan.inputs.facts =
        [f \in Now.scope |-> <<code[f], f \in DoneView(run.target)>>]
  BY <1>1 DEF Inputs
<1>3. Now.scope = run.plan.scope
  BY <1>2, Zenon DEF RunKeepsItsPlan
<1>4. ASSUME NEW f \in run.plan.scope
      PROVE  /\ code[f] = run.plan.inputs.facts[f][1]
             /\ f \in DoneView(run.target) <=> f \in Answered
  <2>1. run.plan.inputs.facts[f] = <<code[f], f \in DoneView(run.target)>>
    BY <1>2, <1>3
  <2>2. run.plan.inputs.facts[f] =
          <<run.plan.inputs.facts[f][1], f \in Answered>>
    BY DEF RunKeepsItsPlan
  <2> HIDE DEF DoneView, Answered
  <2>3. QED
    BY <2>1, <2>2
<1>5. QED
  BY <1>3, <1>4

LEMMA PlanInit == GateInit => RunKeepsItsPlan
BY DEF GateInit, RunKeepsItsPlan

LEMMA PlanStart == ASSUME GateTypeOK, Start PROVE RunKeepsItsPlan'
<1>1. PICK r \in Request :
        run' = [phase |-> "stages", profile |-> r.profile,
                target |-> r.target, strict |-> r.strict,
                silent |-> r.silent, done |-> done,
                plan |-> Plan(r.profile, r.target, DoneView(r.target)),
                status |-> [s \in Obligations(r.profile) |-> "unrun"],
                saw |-> [s \in Obligations(r.profile) |-> code],
                proof |-> NoProof, stale |-> {}, other |-> FALSE,
                exempted |-> FALSE, verdict |-> "none", failed |-> FALSE,
                entries |-> {}]
  BY DEF Start
<1> DEFINE plan == Plan(r.profile, r.target, DoneView(r.target))
<1>2. /\ r.profile \in Profile /\ r.target \in Subject \cup {NoTarget}
      /\ r.profile = "completion" <=> r.target # NoTarget
  BY EnvironmentAssumption
<1>3. /\ r.target # NoTarget => r.target \in plan.scope
      /\ r.profile # "completion" => plan.scope = Subject
      /\ plan.inputs = Inputs(r.profile, plan.scope, DoneView(r.target))
      /\ plan.scope \subseteq Subject
  BY <1>2, PlanFacts DEF PlanSet
<1>4. /\ DOMAIN plan.inputs.facts = plan.scope
      /\ \A f \in plan.scope :
           plan.inputs.facts[f] = <<code[f], f \in DoneView(r.target)>>
  BY <1>3 DEF Inputs
<1> HIDE DEF plan
<1>5. /\ run'.profile = r.profile /\ run'.target = r.target
      /\ run'.plan = plan /\ run'.done = done /\ run'.entries = {}
      /\ run'.saw = [s \in Obligations(r.profile) |-> code]
  BY <1>1 DEF plan
<1>6. Answered' = DoneView(r.target)
  BY <1>5 DEF Answered, DoneView
<1>7. \A f \in plan.scope :
        plan.inputs.facts[f] = <<plan.inputs.facts[f][1], f \in Answered'>>
  BY <1>4, <1>6
<1>8. \A f \in plan.scope : code[f] = plan.inputs.facts[f][1]
  BY <1>4
<1>9. changes' = NoChanges /\ code' = code /\ done' = done
  BY Zenon DEF Start
<1>10. QED
  BY <1>2, <1>3, <1>4, <1>5, <1>7, <1>8, <1>9 DEF RunKeepsItsPlan, NoChanges

\* A stage looks at the workspace, or at what drift published.
LEMMA PlanLook ==
  ASSUME GateTypeOK, RunKeepsItsPlan, run # NoRun,
         NEW s, NEW from,
         from = code \/ ("drift" \in DOMAIN run.saw /\ from = run.saw["drift"]),
         /\ run'.profile = run.profile /\ run'.target = run.target
         /\ run'.plan = run.plan /\ run'.done = run.done
         /\ run'.entries = run.entries
         /\ run'.saw = [run.saw EXCEPT ![s] = from],
         UNCHANGED <<code, done, changes>>
  PROVE  RunKeepsItsPlan'
<1>1. Answered' = Answered /\ Replaced' = Replaced
  BY DEF Answered, Replaced
<1>2. ASSUME NEW g \in run.plan.scope, changes[g] = 0, NEW t \in DOMAIN run'.saw
      PROVE  run'.saw[t][g] = code[g]
  BY <1>2 DEF RunKeepsItsPlan
<1>3. QED
  BY <1>1, <1>2 DEF RunKeepsItsPlan

LEMMA PlanJudge == ASSUME GateTypeOK, RunKeepsItsPlan, Judge PROVE RunKeepsItsPlan'
<1>1. run # NoRun
  BY DEF Judge, NoRun
<1>2. PICK proof \in Evidence : run' = Judged(FinalStatus, proof, Stable)
  BY JudgeCases
<1> DEFINE view == View(FinalStatus, proof, Stable)
<1>3. /\ run'.profile = run.profile /\ run'.target = run.target
      /\ run'.plan = run.plan /\ run'.done = run.done /\ run'.saw = run.saw
      /\ run'.entries = IF State(view) = "green" /\ HasAuthority(view)
                        THEN Owed(Replaced) ELSE {}
  BY <1>1, <1>2, RunTyped DEF Judged, RunTypeOK, RunRecord
<1>4. Answered' = Answered /\ Replaced' = Replaced
  BY <1>3 DEF Answered, Replaced
<1>5. ASSUME run'.entries # {}
      PROVE  run.profile \in Authoritative /\ run'.entries = Replaced \cap Answered
  <2>1. State(view) = "green" /\ HasAuthority(view) /\ run'.entries = Owed(Replaced)
    BY <1>3, <1>5
  <2>2. run.profile \in Authoritative
    BY <2>1 DEF HasAuthority, View
  <2>3. IsView(view)
    BY <1>1, RunTyped, FinalStatusTyped, EvidenceTyped
       DEF IsView, View, PlanSet, RunTypeOK
  <2>4. Stable
    <3>1. view.complete = Stable /\ Stable \in BOOLEAN
      BY DEF View, Stable
    <3>2. view.complete
      BY <2>1, <2>3, <3>1, GreenIsComplete
    <3>3. QED
      BY <3>1, <3>2
  <2>5. Replaced \subseteq run.plan.scope
    BY <1>1 DEF Replaced, RunKeepsItsPlan
  <2>6. QED
    BY <1>1, <2>1, <2>2, <2>4, <2>5, SameInputs DEF Owed, Stable
<1>6. UNCHANGED <<code, done, changes>>
  BY Zenon DEF Judge
<1>7. QED
  BY <1>1, <1>3, <1>4, <1>5, <1>6 DEF RunKeepsItsPlan

LEMMA PlanStep ==
  ASSUME GateTypeOK, RunKeepsItsPlan, [GateNext]_gateVars
  PROVE  RunKeepsItsPlan'
<1>1. CASE Start
  BY <1>1, PlanStart
<1>2. CASE Drift
  <2>1. run # NoRun
    BY <1>2 DEF Drift, NoRun
  <2>2. /\ run'.profile = run.profile /\ run'.target = run.target
        /\ run'.plan = run.plan /\ run'.done = run.done
        /\ run'.entries = run.entries
        /\ run'.saw = [run.saw EXCEPT !["drift"] = code]
    BY <1>2, <2>1, RunTyped DEF Drift, RunTypeOK, RunRecord
  <2>3. QED
    BY <1>2, <2>1, <2>2, PlanLook DEF Drift
<1>3. ASSUME NEW s \in Registry, Reuse(s) \/ Execute(s) PROVE RunKeepsItsPlan'
  <2>0. run.phase = "stages" /\ UNCHANGED <<code, done, changes>>
    BY <1>3, Zenon DEF Reuse, Execute
  <2>1. run # NoRun
    BY <2>0 DEF NoRun
  <2>2. PICK from : \E status :
          /\ from = code \/ ("drift" \in DOMAIN run.saw /\ from = run.saw["drift"])
          /\ run' = [run EXCEPT !.status[s] = status, !.saw[s] = from]
    <3>1. CASE Execute(s)
      BY <3>1 DEF Execute
    <3>2. CASE Reuse(s)
      BY <3>2 DEF Reuse
    <3>3. QED
      BY <1>3, <3>1, <3>2
  <2>3. /\ run'.profile = run.profile /\ run'.target = run.target
        /\ run'.plan = run.plan /\ run'.done = run.done
        /\ run'.entries = run.entries
        /\ run'.saw = [run.saw EXCEPT ![s] = from]
    BY <2>1, <2>2, RunTyped DEF RunTypeOK, RunRecord
  <2>4. QED
    BY <2>0, <2>1, <2>2, <2>3, PlanLook
<1>4. CASE Judge
  BY <1>4, PlanJudge
<1>5. CASE Finish \/ Stamp
  <2>1. run' = NoRun
    BY <1>5 DEF Finish, Stamp
  <2>2. QED
    BY <2>1 DEF RunKeepsItsPlan, NoRun
<1>6. ASSUME NEW f \in Subject, Reopen(f) PROVE RunKeepsItsPlan'
  <2>1. Answered' = Answered /\ Replaced' = Replaced
    BY <1>6 DEF Reopen, Answered, Replaced
  <2>2. QED
    BY <1>6, <2>1 DEF Reopen, RunKeepsItsPlan
<1>7. ASSUME NEW f \in Subject, NEW content \in Content \cup {Absent},
             EditCode(f, content)
      PROVE  RunKeepsItsPlan'
  <2> SUFFICES ASSUME run # NoRun PROVE RunKeepsItsPlan'
    BY <1>7 DEF EditCode, RunKeepsItsPlan
  <2>1. Answered' = Answered /\ Replaced' = Replaced
    BY <1>7 DEF EditCode, Answered, Replaced
  <2>2. /\ run' = run /\ done' = done
        /\ code' = [code EXCEPT ![f] = content] /\ content # code[f]
        /\ changes' = [changes EXCEPT ![f] = @ + 1]
    BY <1>7 DEF EditCode
  <2>3. ASSUME NEW g \in run.plan.scope
        PROVE  /\ changes'[g] = 0 =>
                    /\ code'[g] = run.plan.inputs.facts[g][1]
                    /\ \A s \in DOMAIN run.saw : run.saw[s][g] = code'[g]
               /\ changes'[g] = 1 => code'[g] # run.plan.inputs.facts[g][1]
    <3>1. g \in Subject
      BY RunTyped DEF PlanSet
    <3>2. changes[f] \in Nat /\ code[f] # content
      BY <2>2 DEF GateTypeOK
    <3>3. CASE g = f
      BY <2>2, <3>1, <3>2, <3>3 DEF RunKeepsItsPlan, GateTypeOK
    <3>4. CASE g # f
      BY <2>2, <3>1, <3>4 DEF RunKeepsItsPlan, GateTypeOK
    <3>5. QED
      BY <3>3, <3>4
  <2>4. QED
    BY <2>1, <2>2, <2>3 DEF RunKeepsItsPlan
<1>8. CASE UNCHANGED gateVars
  <2>1. Answered' = Answered /\ Replaced' = Replaced
    BY <1>8 DEF gateVars, Answered, Replaced
  <2>2. QED
    BY <1>8, <2>1 DEF gateVars, RunKeepsItsPlan
<1>9. QED
  BY <1>1, <1>2, <1>3, <1>4, <1>5, <1>6, <1>7, <1>8 DEF GateNext

GateInv == GateTypeOK /\ RunKeepsItsPlan

LEMMA GateInvariant == GateSpec => []GateInv
<1>1. GateInit => GateInv
  BY TypeInit, PlanInit DEF GateInv
<1>2. GateInv /\ [GateNext]_gateVars => GateInv'
  BY TypeStep, PlanStep DEF GateInv, RunKeepsItsPlan
<1>3. QED
  BY <1>1, <1>2, PTL DEF GateSpec

\* Types of the workspace, of the rows and of the record of the run: the
\* statuses and snapshots of a run are those of exactly the stages its
\* profile is obliged to (runCheckStages).
THEOREM GateTypeCorrect == GateSpec => []GateTypeOK
<1>1. GateInv => GateTypeOK
  BY DEF GateInv
<1>2. QED
  BY <1>1, GateInvariant, PTL

\* What the other theorems rest on: nothing a gate does, and nothing others
\* do meanwhile, separates the record of a run from the plan it sealed.
THEOREM RunsKeepTheirPlan == GateSpec => []RunKeepsItsPlan
<1>1. GateInv => RunKeepsItsPlan
  BY DEF GateInv
<1>2. QED
  BY <1>1, GateInvariant, PTL
-----------------------------------------------------------------------------
(* The verdict                                                             *)

\* The step that makes a verdict, in the terms of the kernel.
LEMMA GreenVerdict ==
  ASSUME GateInv, Judge, run'.verdict = "green"
  PROVE  \E view :
           /\ IsView(view) /\ State(view) = "green" /\ view.complete
           /\ view.profile = run'.profile /\ view.status = run'.status
           /\ view.scope = run'.plan.scope /\ view.proof = run'.proof
           /\ Criteria(view) = Claimed' \cap Tested
           /\ \A s \in DOMAIN view.status : view.status[s] # "unrun"
           /\ HasAuthority(view) => Claimed' \cap Replaced' \subseteq run'.entries
<1> USE DEF GateInv
<1>1. run # NoRun /\ Pending = {}
  BY DEF Judge, NoRun
<1>2. PICK proof \in Evidence : run' = Judged(FinalStatus, proof, Stable)
  BY JudgeCases
<1> DEFINE view == View(FinalStatus, proof, Stable)
<1>3. /\ run'.profile = run.profile /\ run'.target = run.target
      /\ run'.plan = run.plan /\ run'.done = run.done
      /\ run'.status = FinalStatus /\ run'.proof = proof
      /\ run'.verdict = State(view)
      /\ run'.entries = IF State(view) = "green" /\ HasAuthority(view)
                        THEN Owed(Replaced) ELSE {}
  BY <1>1, <1>2, RunTyped DEF Judged, RunTypeOK, RunRecord
<1>4. /\ view.profile = run.profile /\ view.status = FinalStatus
      /\ view.scope = run.plan.scope /\ view.proof = proof
      /\ view.done = DoneView(run.target)
  BY DEF View
<1>5. IsView(view)
  BY <1>1, RunTyped, FinalStatusTyped, EvidenceTyped
     DEF IsView, View, PlanSet, RunTypeOK
<1>6. Stable /\ view.complete
  <2>1. view.complete = Stable /\ Stable \in BOOLEAN
    BY DEF View, Stable
  <2>2. view.complete
    BY <1>3, <1>5, <2>1, GreenIsComplete
  <2>3. QED
    BY <2>1, <2>2
<1>7. \A f \in run.plan.scope : f \in DoneView(run.target) <=> f \in Answered
  BY <1>1, <1>6, SameInputs DEF Stable
<1>8. Claimed' = run.plan.scope \cap Answered
  BY <1>3 DEF Claimed, Answered
<1>9. Criteria(view) = Claimed' \cap Tested
  BY <1>4, <1>7, <1>8 DEF Criteria
<1>10. ASSUME NEW s \in DOMAIN FinalStatus PROVE FinalStatus[s] # "unrun"
  <2>1. \A t \in DOMAIN run.status : run.status[t] # "unrun"
    BY <1>1 DEF Pending
  <2>2. \A t \in DOMAIN run.status : AfterSkipPolicy[t] # "unrun"
    BY <2>1 DEF AfterSkipPolicy
  <2>3. QED
    BY <1>1, <2>2, FinalStatusTyped, SkipPolicyTyped DEF FinalStatus
<1>11. ASSUME HasAuthority(view)
       PROVE  Claimed' \cap Replaced' \subseteq run'.entries
  <2>1. run'.entries = Owed(Replaced) /\ Replaced' = Replaced
    BY <1>3, <1>11 DEF Replaced
  <2>2. QED
    BY <1>7, <1>8, <2>1 DEF Owed
<1> HIDE DEF view
<1>12. QED
  BY <1>3, <1>4, <1>5, <1>6, <1>9, <1>10, <1>11

\* Only Judge makes a verdict.
LEMMA PhaseStep ==
  ASSUME GateTypeOK, [GateNext]_gateVars
  PROVE  Judge \/ UNCHANGED run \/ run' = NoRun \/ run'.phase = "stages"
<1>1. CASE Start
  BY <1>1 DEF Start
<1>2. CASE Drift
  <2>1. run # NoRun
    BY <1>2 DEF Drift, NoRun
  <2>2. QED
    BY <1>2, <2>1, RunTyped DEF Drift, RunTypeOK, RunRecord
<1>3. ASSUME NEW s \in Registry, Reuse(s) \/ Execute(s) PROVE run'.phase = "stages"
  <2>1. run.phase = "stages"
    BY <1>3, Zenon DEF Reuse, Execute
  <2>2. run # NoRun
    BY <2>1 DEF NoRun
  <2>3. CASE Execute(s)
    BY <2>1, <2>2, <2>3, RunTyped DEF Execute, RunTypeOK, RunRecord
  <2>4. CASE Reuse(s)
    BY <2>1, <2>2, <2>4, RunTyped DEF Reuse, RunTypeOK, RunRecord
  <2>5. QED
    BY <1>3, <2>3, <2>4
<1>4. CASE Finish \/ Stamp
  BY <1>4 DEF Finish, Stamp
<1>5. CASE \E f \in Subject :
             Reopen(f) \/ \E content \in Content \cup {Absent} : EditCode(f, content)
  BY <1>5 DEF Reopen, EditCode
<1>6. QED
  BY <1>1, <1>2, <1>3, <1>4, <1>5 DEF GateNext, gateVars

LEMMA ObservedStep ==
  ASSUME GateInv, GreenIsObserved, [GateNext]_gateVars
  PROVE  GreenIsObserved'
<1>1. CASE Judge
  <2> SUFFICES ASSUME run'.verdict = "green" PROVE GreenIsObserved'
    BY DEF GreenIsObserved
  <2>1. PICK view :
          /\ IsView(view) /\ State(view) = "green" /\ view.complete
          /\ view.status = run'.status /\ view.proof = run'.proof
          /\ Criteria(view) = Claimed' \cap Tested
    BY <1>1, GreenVerdict
  <2>2. DOMAIN run'.status = Obligations(view.profile)
    BY <2>1 DEF IsView
  <2>3. QED
    BY <2>1, <2>2, GreenAlways, GreenCriteria DEF GreenIsObserved
<1>2. CASE UNCHANGED run
  BY <1>2 DEF GreenIsObserved, Claimed
<1>3. CASE run' = NoRun \/ run'.phase = "stages"
  <2>1. run'.phase # "judged"
    BY <1>3 DEF NoRun
  <2>2. QED
    BY <2>1, Zenon DEF GreenIsObserved
<1>4. QED
  BY <1>1, <1>2, <1>3, PhaseStep DEF GateInv

LEMMA RecordableStep ==
  ASSUME GateInv, GreenIsRecordable, [GateNext]_gateVars
  PROVE  GreenIsRecordable'
<1>1. CASE Judge
  <2> SUFFICES ASSUME run'.verdict = "green", run'.profile \in Authoritative,
                      ~NoTestCriteria',
                      NEW f \in Claimed' \cap Replaced'
               PROVE  f \in run'.entries
    BY DEF GreenIsRecordable
  <2>1. PICK view :
          /\ IsView(view) /\ State(view) = "green" /\ view.complete
          /\ view.profile = run'.profile /\ view.status = run'.status
          /\ view.scope = run'.plan.scope
          /\ Criteria(view) = Claimed' \cap Tested
          /\ \A s \in DOMAIN view.status : view.status[s] # "unrun"
          /\ HasAuthority(view) => Claimed' \cap Replaced' \subseteq run'.entries
    BY <1>1, GreenVerdict
  <2>2. f \in view.scope
    BY <2>1 DEF Claimed
  <2>3. DOMAIN run'.status = Obligations(view.profile)
    BY <2>1 DEF IsView
  <2>4. ~HasDuplicateKeys(view)
    <3>1. \/ Criteria(view) # {}
          \/ {"unit", "coverage"} \cap Obligations(view.profile) = {}
      BY <2>1, <2>3 DEF NoTestCriteria
    <3>2. QED
      BY <2>1, <3>1, UniqueKeys
  <2>5. \E row \in Rows(view) : Result(view, row) = "pass"
    <3>1. "drift" \in Obligations(view.profile)
      BY <2>1, StageFacts, GateAssumption, KernelAssumption
         DEF Obligations, Profiles, IsView
    <3>2. QED
      BY <2>1, <3>1, StageFacts, GreenAlways
  <2>6. \A row \in Rows(view) : view.status[row.stage] # "unrun"
    BY <2>1, <2>3, RowFields
  <2>7. HasAuthority(view)
    BY <2>1, <2>2, <2>4, <2>5, <2>6 DEF HasAuthority
  <2>8. QED
    BY <2>1, <2>7
<1>2. CASE UNCHANGED run
  BY <1>2 DEF GreenIsRecordable, NoTestCriteria, Claimed, Replaced
<1>3. CASE run' = NoRun \/ run'.phase = "stages"
  <2>1. run'.phase # "judged"
    BY <1>3 DEF NoRun
  <2>2. QED
    BY <2>1, Zenon DEF GreenIsRecordable
<1>4. QED
  BY <1>1, <1>2, <1>3, PhaseStep DEF GateInv

\* Green is never a guess: for any registry and level, every stage no fact
\* can excuse passed in the run itself and every criterion the run answers
\* for is proved or rests on a migration receipt (reduce, reduceObligation).
THEOREM VerdictIsObserved == GateSpec => []GreenIsObserved
<1>1. GateInit => GreenIsObserved
  <2>1. GateInit => run.phase # "judged"
    BY DEF GateInit, NoRun
  <2>2. QED
    BY <2>1, Zenon DEF GreenIsObserved
<1>2. QED
  BY <1>1, ObservedStep, GateInvariant, PTL DEF GateSpec

\* A green run of a profile that claims something earns its rows: the keys
\* of its results are unique and one of them passed, so that nothing but a
\* scope without tests makes mintRunAuthority refuse it.
THEOREM VerdictIsRecordable == GateSpec => []GreenIsRecordable
<1>1. GateInit => GreenIsRecordable
  <2>1. GateInit => run.phase # "judged"
    BY DEF GateInit, NoRun
  <2>2. QED
    BY <2>1, Zenon DEF GreenIsRecordable
<1>2. QED
  BY <1>1, RecordableStep, GateInvariant, PTL DEF GateSpec

\* Both: what a gate calls green stands.
THEOREM VerdictStands == GateSpec => []GreenStands
BY VerdictIsObserved, VerdictIsRecordable, PTL DEF GreenStands
-----------------------------------------------------------------------------
(* The rows                                                                *)

LEMMA OnlyStampWrites ==
  ASSUME [GateNext]_gateVars, rows' # rows
  PROVE  Stamp
<1>1. ASSUME NEW s \in Registry, Reuse(s) \/ Execute(s) PROVE rows' = rows
  BY <1>1, Zenon DEF Reuse, Execute
<1>2. ASSUME NEW f \in Subject,
             Reopen(f) \/ \E content \in Content \cup {Absent} : EditCode(f, content)
      PROVE  rows' = rows
  BY <1>2, Zenon DEF Reopen, EditCode
<1>3. ASSUME Start \/ Drift \/ Judge \/ Finish PROVE rows' = rows
  BY <1>3, Zenon DEF Start, Drift, Judge, Finish
<1>4. QED
  BY <1>1, <1>2, <1>3 DEF GateNext, gateVars

\* What the writer finds under the lock.
LEMMA StampFacts ==
  ASSUME GateInv, Stamp
  PROVE  /\ run # NoRun /\ run.profile \in Authoritative
         /\ run.entries = Replaced \cap DoneView(run.target)
         /\ run.plan.inputs = Inputs(run.profile, run.plan.scope, done')
         /\ done' = DoneView(run.target) /\ code' = code
         /\ rows' = Merged(run.entries, done')
<1> USE DEF GateInv
<1>1. run # NoRun /\ run.entries # {}
  BY DEF Stamp, Stamps, NoRun
<1>2. /\ done = run.done /\ Now.inputs = run.plan.inputs
      /\ done' = DoneView(run.target) /\ code' = code
      /\ rows' = Merged(run.entries, DoneView(run.target))
  BY DEF Stamp, SnapshotMatches, Now
<1>3. Answered = DoneView(run.target)
  BY <1>2 DEF Answered, DoneView
<1>4. Now.scope = run.plan.scope
  BY <1>1, <1>2, SameInputs
<1>5. Now.inputs = Inputs(run.profile, Now.scope, DoneView(run.target))
  BY <1>1, PlanFacts, RunTyped DEF RunKeepsItsPlan, Now
<1>6. QED
  BY <1>1, <1>2, <1>3, <1>4, <1>5 DEF RunKeepsItsPlan

LEMMA RowsStep ==
  ASSUME GateInv, [GateNext]_gateVars, rows' # rows,
         NEW f \in Subject, rows'[f] # NoRow
  PROVE  /\ f \in done' /\ rows'[f].seal = code'[f]
         /\ \A g \in DOMAIN rows'[f].inputs.facts :
              /\ rows'[f].inputs.facts[g] = <<code'[g], g \in done'>>
              /\ f \in run.entries /\ changes[g] < 2 =>
                   \A s \in DOMAIN run.saw : run.saw[s][g] = code'[g]
<1>1. Stamp
  BY OnlyStampWrites
<1>2. /\ run # NoRun
      /\ run.entries = Replaced \cap DoneView(run.target)
      /\ run.plan.inputs = Inputs(run.profile, run.plan.scope, done')
      /\ done' = DoneView(run.target) /\ code' = code
      /\ rows' = Merged(run.entries, done')
  BY <1>1, StampFacts
<1>3. CASE f \in run.entries
  <2>1. rows'[f] = RowFor(f)
    BY <1>2, <1>3 DEF Merged
  <2>2. rows'[f].seal = code[f] /\ rows'[f].inputs = run.plan.inputs
    BY <2>1 DEF RowFor
  <2>3. run.plan.inputs.facts = [g \in run.plan.scope |-> <<code[g], g \in done'>>]
    BY <1>2 DEF Inputs
  <2>4. ASSUME NEW g \in run.plan.scope, changes[g] < 2, NEW s \in DOMAIN run.saw
        PROVE  run.saw[s][g] = code[g]
    <3>1. run.plan.inputs.facts[g] = <<code[g], g \in done'>>
      BY <2>3
    <3>2. code[g] = run.plan.inputs.facts[g][1]
      BY <3>1
    <3>3. changes[g] \in Nat
      BY <1>2, RunTyped DEF GateInv, GateTypeOK, PlanSet
    <3>4. changes[g] = 0
      BY <1>2, <2>4, <3>2, <3>3 DEF GateInv, RunKeepsItsPlan
    <3>5. QED
      BY <1>2, <3>4 DEF GateInv, RunKeepsItsPlan
  <2>5. QED
    BY <1>2, <1>3, <2>2, <2>3, <2>4
<1>4. CASE f \notin run.entries
  <2>1. rows'[f] = rows[f] /\ Retained(f, done')
    BY <1>2, <1>4 DEF Merged
  <2> DEFINE scope == RequestedScope(rows[f].profile, f)
  <2>2. /\ f \in done' /\ rows[f].seal = code[f]
        /\ rows[f].inputs = Inputs(rows[f].profile, scope, done')
    BY <2>1 DEF Retained
  <2>3. rows[f].inputs.facts = [g \in scope |-> <<code[g], g \in done'>>]
    BY <2>2 DEF Inputs
  <2>4. QED
    BY <1>2, <1>4, <2>1, <2>2, <2>3
<1>5. QED
  BY <1>3, <1>4

\* A written row, earned or retained, describes the workspace of the moment
\* it is written, and the stages behind an earned one saw that workspace
\* (writeAttestation, mergeCurrentV3, attestationInputSnapshotMatches).
THEOREM RowsAreCurrent == GateSpec => RowsDescribeTheCode
<1>1. ASSUME GateInv, [GateNext]_gateVars
      PROVE  rows' # rows =>
               \A f \in Subject : rows'[f] # NoRow =>
                 /\ f \in done' /\ rows'[f].seal = code'[f]
                 /\ LET facts == rows'[f].inputs.facts IN
                    \A g \in DOMAIN facts :
                      /\ facts[g] = <<code'[g], g \in done'>>
                      /\ f \in run.entries /\ changes[g] < 2 =>
                           \A s \in DOMAIN run.saw : run.saw[s][g] = code'[g]
  BY <1>1, RowsStep
<1>2. QED
  BY <1>1, GateInvariant, PTL DEF GateSpec, RowsDescribeTheCode

\* A repository-wide run that forgave stale attestations leaves none behind
\* when it records (exemptSolelyStaleAttestation).
THEOREM ExemptionIsKept == GateSpec => ExemptionReattests
<1>1. ASSUME GateInv, [GateNext]_gateVars
      PROVE  Stamp /\ run.exempted /\ run.profile \in {"push", "release"} =>
               \A f \in done' : rows'[f] # NoRow /\ rows'[f].seal = code'[f]
  <2> SUFFICES ASSUME Stamp, run.profile \in {"push", "release"}, NEW f \in done'
               PROVE  rows'[f] # NoRow /\ rows'[f].seal = code'[f]
    OBVIOUS
  <2>1. /\ run # NoRun /\ run.profile \in Authoritative
        /\ run.entries = Replaced \cap DoneView(run.target)
        /\ done' = DoneView(run.target) /\ code' = code
        /\ rows' = Merged(run.entries, done')
    BY <1>1, StampFacts
  <2>2. f \in Subject
    BY <1>1, <2>1, RunTyped DEF GateInv, GateTypeOK, DoneView
  <2>3. Replaced = Subject
    BY <1>1, <2>1 DEF Replaced, GateInv, RunKeepsItsPlan
  <2>4. rows'[f] = RowFor(f)
    BY <2>1, <2>2, <2>3 DEF Merged
  <2>5. RowFor(f) \in Row
    BY <1>1, <2>1, <2>2, RowTyped DEF GateInv
  <2>6. QED
    BY <2>1, <2>4, <2>5, GateAssumption DEF RowFor
<1>2. QED
  BY <1>1, GateInvariant, PTL DEF GateSpec, ExemptionReattests
=============================================================================
