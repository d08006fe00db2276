---------------------------- MODULE ChecksProofs ----------------------------
(***************************************************************************)
(* Proofs of LegacyDoneGate's safety properties, for any attempts, edits   *)
(* and faults, and of what the stages of a check tell of its test runs and *)
(* leave of their report, for any criteria, test files and projects.       *)
(***************************************************************************)
EXTENDS LegacyDoneGate, TestEvidence, TLAPS

\* What a write puts in place is a feature.
LEMMA RestoredType ==
  ASSUME TypeOK, NEW a \in Attempt, phase[a] \in Waiting
  PROVE  /\ before[a] \in Shard /\ Target(a) \in Shard
         /\ StatusRestored(a) \in Shard
         /\ StatusRestored(a).text = shard.text
         /\ StatusRestored(a).status =
              IF shard.status = "done" THEN before[a].status ELSE shard.status
         /\ shard.status # "done" => StatusRestored(a) = shard
         /\ Target(a).status = "done" /\ Target(a).text = before[a].text
<1>1. before[a] \in Shard
  BY DEF TypeOK, Remembers, Waiting
<1>2. "done" \in Status
  BY LegacyAssumption
<1> QED  BY <1>1, <1>2 DEF TypeOK, Shard, Target, StatusRestored
-----------------------------------------------------------------------------
(* Type correctness                                                        *)

\* Types, and what every phase remembers, for any number of attempts.
THEOREM TypeCorrect == Spec => []TypeOK
<1>1. Init => TypeOK
  <2> SUFFICES ASSUME Init PROVE TypeOK
    OBVIOUS
  <2>1. phase \in [Attempt -> Phase]
    BY DEF Init, Phase
  <2>2. Remembers
    BY DEF Init, Remembers
  <2> QED  BY <2>1, <2>2, LegacyAssumption DEF Init, TypeOK
<1>2. TypeOK /\ [Next]_vars => TypeOK'
  <2> SUFFICES ASSUME TypeOK, [Next]_vars PROVE TypeOK'
    OBVIOUS
  <2>0. shard # None
    BY LegacyAssumption DEF TypeOK, Shard
  <2>1. ASSUME NEW a \in Attempt, Mark(a) PROVE TypeOK'
    <3>1. shard' \in Shard
      BY <2>1, LegacyAssumption DEF Mark, Write, TypeOK, Shard
    <3>2. phase' \in [Attempt -> Phase]
      BY <2>1 DEF Mark, Goto, TypeOK, Phase, Waiting
    <3>3. Remembers'
      BY <2>0, <2>1 DEF Mark, Goto, TypeOK, Remembers
    <3> QED  BY <2>1, <3>1, <3>2, <3>3 DEF Mark, Write, CameBack, counters, TypeOK
  <2>2. ASSUME NEW a \in Attempt,
               MarkRefused(a) \/ Inspect(a) \/ Keep(a) \/ Stuck(a) \/ Crash(a)
        PROVE  TypeOK'
    <3>1. phase' \in [Attempt -> Phase]
      BY <2>2 DEF MarkRefused, Inspect, Keep, Stuck, Crash, Goto, TypeOK, Phase, Waiting
    <3>2. Remembers'
      BY <2>0, <2>2 DEF MarkRefused, Inspect, Keep, Stuck, Crash, Goto, TypeOK,
                        Remembers, Waiting
    <3>3. /\ shard' = shard /\ before' = before /\ returned' = returned
          /\ seen' \in [Attempt -> Shard \cup {None}]
      BY <2>2 DEF MarkRefused, Inspect, Keep, Stuck, Crash, history, TypeOK
    <3>4. earned' \in BOOLEAN
      BY <2>2 DEF MarkRefused, Inspect, Keep, Stuck, Crash, history, TypeOK
    <3>5. edits' \in Nat /\ faults' \in Nat
      BY <2>2 DEF MarkRefused, Inspect, Keep, Stuck, Crash, counters, TypeOK
    <3> QED  BY <3>1, <3>2, <3>3, <3>4, <3>5 DEF TypeOK
  <2>3. ASSUME NEW a \in Attempt, Drop(a) \/ Revert(a) PROVE TypeOK'
    <3>1. phase[a] \in Waiting
      BY <2>3 DEF Drop, Revert, Goto, Waiting
    <3>2. shard' \in Shard
      BY <2>3, <3>1, RestoredType DEF Drop, Revert, Write
    <3>3. phase' \in [Attempt -> Phase]
      BY <2>3 DEF Drop, Revert, Goto, TypeOK, Phase
    <3>4. Remembers'
      BY <2>3 DEF Drop, Revert, Goto, TypeOK, Remembers
    <3> QED  BY <2>3, <3>2, <3>3, <3>4
             DEF Drop, Revert, Write, CameBack, counters, TypeOK
  <2>4. ASSUME NEW s \in Shard, Edit(s) PROVE TypeOK'
    BY <2>4 DEF Edit, Write, CameBack, TypeOK, Remembers
  <2>5. ASSUME UNCHANGED vars PROVE TypeOK'
    BY <2>5 DEF vars, history, counters, TypeOK, Remembers
  <2> QED  BY <2>1, <2>2, <2>3, <2>4, <2>5 DEF Next, AttemptStep, Finalize
<1> QED  BY <1>1, <1>2, PTL DEF Spec
-----------------------------------------------------------------------------
(* No unearned done                                                        *)

\* An attempt that answers for a done nobody has earned.
Answers(a) == Flipper(a) /\ phase[a] \in Waiting \cup {"stuck", "crashed"}

\* Whoever answers for the status goes on to, as long as its phase does.
LEMMA AnswersOn ==
  ASSUME TypeOK, NEW a \in Attempt, NEW b \in Attempt, Answers(b), a # b,
         before' = [before EXCEPT ![a] = before'[a]],
         phase' = [phase EXCEPT ![a] = phase'[a]]
  PROVE  Answers(b)'
BY DEF TypeOK, Answers, Flipper

\* The property is inductive as it stands: an attempt either leaves the status
\* to another that answers for it, takes it back, or has it earned.
LEMMA UnearnedStep == TypeOK /\ NoUnearnedDone /\ [Next]_vars => NoUnearnedDone'
<1> SUFFICES ASSUME TypeOK, NoUnearnedDone, [Next]_vars,
                    shard'.status = "done", ~earned'
             PROVE  \E a \in Attempt : Answers(a)'
  BY DEF NoUnearnedDone, Answers
<1>1. shard.status = "done" /\ ~earned => \E a \in Attempt : Answers(a)
  BY DEF NoUnearnedDone, Answers
<1>2. ASSUME NEW a \in Attempt, Mark(a) PROVE \E b \in Attempt : Answers(b)'
  <2>1. CASE shard.status = "done"
    <3>1. PICK b \in Attempt : Answers(b)
      BY <1>1, <1>2, <2>1 DEF Mark
    <3>2. a # b
      BY <1>2, <3>1 DEF Mark, Goto, Answers, Waiting
    <3> QED  BY <1>2, <3>1, <3>2, AnswersOn DEF Mark, Goto
  <2>2. CASE shard.status # "done"
    <3>1. before'[a] = shard /\ phase'[a] = "gating"
      BY <1>2 DEF Mark, Goto, TypeOK
    <3>2. shard # None
      BY LegacyAssumption DEF TypeOK, Shard
    <3> QED  BY <2>2, <3>1, <3>2 DEF Answers, Flipper, Waiting
  <2> QED  BY <2>1, <2>2
<1>3. ASSUME NEW a \in Attempt, MarkRefused(a) \/ Inspect(a) \/ Stuck(a) \/ Crash(a)
      PROVE  \E b \in Attempt : Answers(b)'
  <2>1. PICK b \in Attempt : Answers(b)
    BY <1>1, <1>3 DEF MarkRefused, Inspect, Stuck, Crash, history
  <2>2. CASE a = b
    BY <1>3, <2>1, <2>2 DEF MarkRefused, Inspect, Stuck, Crash, Goto, Answers,
                            Flipper, Waiting, TypeOK
  <2>3. CASE a # b
    BY <1>3, <2>1, <2>3
       DEF MarkRefused, Inspect, Stuck, Crash, Goto, Answers, Flipper, TypeOK
  <2> QED  BY <2>2, <2>3
<1>4. ASSUME NEW a \in Attempt, Keep(a) PROVE FALSE
  BY <1>4 DEF Keep
<1>5. ASSUME NEW a \in Attempt, Drop(a) \/ Revert(a)
      PROVE  \E b \in Attempt : Answers(b)'
  <2>1. phase[a] \in Waiting
    BY <1>5 DEF Drop, Revert, Goto, Waiting
  <2>2. shard.status = "done" /\ before[a].status = "done"
    BY <1>5, <2>1, RestoredType DEF Drop, Revert, Write
  <2>3. PICK b \in Attempt : Answers(b)
    BY <1>1, <1>5, <2>2 DEF Drop, Revert
  <2>4. a # b
    BY <2>2, <2>3 DEF Answers, Flipper
  <2> QED  BY <1>5, <2>3, <2>4 DEF Drop, Revert, Goto, Answers, Flipper, TypeOK
<1>6. ASSUME NEW s \in Shard, Edit(s) PROVE \E b \in Attempt : Answers(b)'
  BY <1>1, <1>6 DEF Edit, Write, Answers, Flipper
<1>7. ASSUME UNCHANGED vars PROVE \E b \in Attempt : Answers(b)'
  BY <1>1, <1>7 DEF vars, history, counters, Answers, Flipper
<1> QED  BY <1>2, <1>3, <1>4, <1>5, <1>6, <1>7 DEF Next, AttemptStep, Finalize

\* Whatever attempts overlap, a done that no gate was GREEN for has a flip under
\* way, or one that died or could not be taken back.
THEOREM DoneIsEarned == Spec => []NoUnearnedDone
<1>1. Init => NoUnearnedDone
  BY DEF Init, NoUnearnedDone
<1> QED  BY <1>1, UnearnedStep, TypeCorrect, PTL DEF Spec
-----------------------------------------------------------------------------
(* What a GREEN gate keeps                                                 *)

\* A GREEN answer about something else than the target finds something else
\* until the target comes back; and so does the one that is kept.
Watched ==
  /\ KeptWasInspected
  /\ \A a \in Attempt :
       phase[a] = "green" /\ a \notin returned /\ shard = Target(a) =>
         seen[a] = Target(a)

\* A write that brings a waiting attempt's target back is noted.
LEMMA NotReturned ==
  ASSUME NEW a \in Attempt, NEW s, Write(s), phase[a] \in Waiting,
         a \notin returned', shard' = Target(a)
  PROVE  a \notin returned /\ shard = Target(a)
BY DEF Write, CameBack

LEMMA WatchedStep == TypeOK /\ Watched /\ [Next]_vars => Watched'
<1> SUFFICES ASSUME TypeOK, Watched, [Next]_vars PROVE Watched'
  OBVIOUS
<1>1. ASSUME NEW a \in Attempt, Mark(a) PROVE Watched'
  <2>1. ASSUME NEW b \in Attempt, b # a
        PROVE  Target(b)' = Target(b) /\ phase'[b] = phase[b]
    BY <1>1, <2>1 DEF Mark, Goto, Target, TypeOK
  <2>2. phase'[a] = "gating"
    BY <1>1 DEF Mark, Goto, TypeOK
  <2>3. returned \subseteq returned' /\ seen' = seen
    BY <1>1 DEF Mark, Write
  <2>4. KeptWasInspected'
    BY <2>1, <2>2, <2>3 DEF KeptWasInspected, Watched
  <2>5. ASSUME NEW b \in Attempt, phase'[b] = "green", b \notin returned',
               shard' = Target(b)'
        PROVE  seen'[b] = Target(b)'
    <3>1. b # a
      BY <2>2, <2>5
    <3>2. b \notin returned /\ shard = Target(b)
      BY <1>1, <2>1, <2>5, <3>1, NotReturned DEF Mark, Waiting
    <3> QED  BY <2>1, <2>3, <2>5, <3>1, <3>2 DEF Watched
  <2> QED  BY <2>4, <2>5 DEF Watched
<1>2. ASSUME UNCHANGED <<shard, before, returned>>,
             NEW a \in Attempt, MarkRefused(a) \/ Inspect(a) \/ Stuck(a) \/ Crash(a)
      PROVE  Watched'
  BY <1>2 DEF MarkRefused, Inspect, Stuck, Crash, Goto, Target, Watched,
              KeptWasInspected, Waiting, TypeOK
<1>3. ASSUME NEW a \in Attempt, Keep(a) PROVE Watched'
  BY <1>3 DEF Keep, Goto, Target, Watched, KeptWasInspected, TypeOK
<1>4. ASSUME UNCHANGED <<before, seen>>, NEW s, Write(s),
             \A b \in Attempt : phase'[b] \in {"green", "kept"} => phase'[b] = phase[b]
      PROVE  Watched'
  <2>1. \A b \in Attempt : Target(b)' = Target(b)
    BY <1>4 DEF Target
  <2>2. KeptWasInspected'
    BY <1>4, <2>1 DEF KeptWasInspected, Watched, Write
  <2>3. ASSUME NEW b \in Attempt, phase'[b] = "green", b \notin returned',
               shard' = Target(b)'
        PROVE  seen'[b] = Target(b)'
    <3>1. phase[b] = "green"
      BY <1>4, <2>3
    <3>2. b \notin returned /\ shard = Target(b)
      BY <1>4, <2>1, <2>3, <3>1, NotReturned DEF Waiting
    <3> QED  BY <1>4, <2>1, <3>1, <3>2 DEF Watched
  <2> QED  BY <2>2, <2>3 DEF Watched
<1>5. ASSUME NEW a \in Attempt, Drop(a) \/ Revert(a) PROVE Watched'
  <2>1. \A b \in Attempt : phase'[b] \in {"green", "kept"} => phase'[b] = phase[b]
    BY <1>5 DEF Drop, Revert, Goto, TypeOK
  <2> QED  BY <1>4, <1>5, <2>1 DEF Drop, Revert
<1>6. ASSUME NEW s \in Shard, Edit(s) PROVE Watched'
  BY <1>4, <1>6 DEF Edit
<1>7. ASSUME UNCHANGED vars PROVE Watched'
  BY <1>7 DEF vars, history, counters, Target, Watched, KeptWasInspected
<1>8. ASSUME NEW a \in Attempt, MarkRefused(a) \/ Inspect(a) \/ Stuck(a) \/ Crash(a)
      PROVE  Watched'
  BY <1>2, <1>8 DEF MarkRefused, Inspect, Stuck, Crash, history
<1> QED  BY <1>1, <1>3, <1>5, <1>6, <1>7, <1>8 DEF Next, AttemptStep, Finalize

\* A GREEN gate keeps what it inspected, but for a change that came back.
THEOREM KeptMatchesGate == Spec => []KeptWasInspected
<1>1. Init => Watched
  BY DEF Init, Watched, KeptWasInspected
<1>2. Watched => KeptWasInspected
  BY DEF Watched
<1> QED  BY <1>1, <1>2, WatchedStep, TypeCorrect, PTL DEF Spec

\* Somebody answers for every done, and what is kept was inspected.
THEOREM CompletionsStand == Spec => []DoneStands
<1>1. NoUnearnedDone /\ KeptWasInspected => DoneStands
  BY DEF DoneStands
<1> QED  BY <1>1, DoneIsEarned, KeptMatchesGate, PTL
-----------------------------------------------------------------------------
(* The work of others                                                      *)

\* No step of a completion takes another writer's work back.
THEOREM OthersAreSafe == Spec => OthersWorkSurvives
<1> DEFINE Kind(a) ==
      phase'[a] # phase[a] =>
        /\ shard'.text = shard.text
        /\ phase[a] \in Waiting /\ shard.status # "done" => shard' = shard
<1>1. TypeOK /\ [Next]_vars => [\A a \in Attempt : Kind(a)]_vars
  <2> SUFFICES ASSUME TypeOK, Next, NEW a \in Attempt, phase'[a] # phase[a]
               PROVE  Kind(a)
    OBVIOUS
  <2>1. ASSUME NEW s \in Shard, Edit(s) PROVE FALSE
    BY <2>1 DEF Edit
  <2>2. ASSUME NEW b \in Attempt, AttemptStep(b) \/ Crash(b) PROVE a = b
    BY <2>2 DEF AttemptStep, Mark, MarkRefused, Inspect, Finalize, Keep, Drop,
                Revert, Stuck, Crash, Goto, TypeOK
  <2>3. CASE Mark(a)
    BY <2>3 DEF Mark, Write, Goto, Waiting, TypeOK, Shard
  <2>4. CASE MarkRefused(a) \/ Inspect(a) \/ Keep(a) \/ Stuck(a) \/ Crash(a)
    BY <2>4 DEF MarkRefused, Inspect, Keep, Stuck, Crash
  <2>5. CASE Drop(a) \/ Revert(a)
    <3>1. phase[a] \in Waiting
      BY <2>5 DEF Drop, Revert, Goto, Waiting
    <3> QED  BY <2>5, <3>1, RestoredType DEF Drop, Revert, Write
  <2> QED  BY <2>1, <2>2, <2>3, <2>4, <2>5 DEF Next, AttemptStep, Finalize
<1> QED  BY <1>1, TypeCorrect, PTL DEF Spec, OthersWorkSurvives
-----------------------------------------------------------------------------
(* The test runs of a check                                                *)

LEMMA SelectedTyped ==
  ASSUME EvidenceTypeOK, NEW files PROVE Selected(files) \in Cases
BY DEF Selected, Cases, EvidenceTypeOK

\* A run of the suite reports some cases of each criterion, or none.
LEMMA ResultsTyped ==
  ASSUME EvidenceTypeOK, NEW by \in {"test", "coverage"}, NEW files, NEW form,
         NEW run \in Results(by, files, form)
  PROVE  run \in RunResult /\ run.by = by /\ run # NoRun
<1>1. run \in RunResult /\ run.by = by
  <2> DEFINE cases == Selected(files)
  <2>0. cases \in Cases
    BY SelectedTyped
  <2>1. CASE by \notin setup.installed
    <3>1. run = [by |-> by, cases |-> cases, told |-> NoReport, green |-> FALSE,
                 missing |-> TRUE]
      BY <2>1 DEF Results
    <3> HIDE DEF cases
    <3> QED  BY <2>0, <3>1 DEF RunResult
  <2>2. CASE by \in setup.installed
    <3>1. PICK told \in {Selected(files \cap part) : part \in Parts(form)} \cup {NoReport},
               well \in BOOLEAN :
            run = [by |-> by, cases |-> cases, told |-> told, missing |-> FALSE,
                   green |-> Failing(cases) = {} /\ well]
      BY <2>2 DEF Results
    <3>2. told \in Cases \cup {NoReport}
      BY SelectedTyped
    <3>3. (Failing(cases) = {} /\ well) \in BOOLEAN
      OBVIOUS
    <3> HIDE DEF cases
    <3> QED  BY <2>0, <3>1, <3>2, <3>3 DEF RunResult
  <2> QED  BY <2>1, <2>2
<1> QED  BY <1>1, EvidenceAssumption

\* And so does the run of somebody else, whose reporter works.
LEMMA SomeoneTyped ==
  ASSUME EvidenceTypeOK, SomeoneRuns
  PROVE  \E run \in RunResult :
           /\ run.by = "someone" /\ run.told \in Cases
           /\ report' = run.told /\ full' = run.told
           /\ ran' = IF check = NoCheck THEN {} ELSE ran \cup {run}
<1> DEFINE cases == Selected(setup.tested)
           green == Failing(cases) = {}
           run == [by |-> "someone", cases |-> cases, told |-> cases,
                   green |-> green, missing |-> FALSE]
<1>1. cases \in Cases /\ green \in BOOLEAN
  BY SelectedTyped
<1>2. /\ report' = cases /\ full' = cases
      /\ ran' = IF check = NoCheck THEN {} ELSE ran \cup {run}
  BY DEF SomeoneRuns
<1> HIDE DEF cases, green
<1>3. run \in RunResult /\ run.by = "someone" /\ run.told = cases
  BY <1>1 DEF RunResult
<1> HIDE DEF run
<1> QED  BY <1>1, <1>2, <1>3

\* What a run can add to the proof of the check.
LEMMA ProofTyped ==
  ASSUME EvidenceTypeOK, check \in CheckRecord
  PROVE  /\ JUnitProof \in ProofRecord \cup {NoProof}
         /\ \A run \in RunResult : VitestProof(run) \in ProofRecord \cup {NoProof}
<1>1. check.proof \in ProofRecord \cup {NoProof}
  BY DEF CheckRecord
<1>2. JUnitProof \in ProofRecord \cup {NoProof}
  BY <1>1 DEF JUnitProof, ProofRecord, EvidenceTypeOK
<1>3. ASSUME NEW run \in RunResult
      PROVE  VitestProof(run) \in ProofRecord \cup {NoProof}
  BY <1>1, <1>3 DEF VitestProof, ProofRecord, RunResult
<1> QED  BY <1>2, <1>3

LEMMA SharedTyped ==
  ASSUME NEW run \in RunResult
  PROVE  /\ SharedVerdict(run).phase \in {"own", "coverage"}
         /\ SharedVerdict(run).unit \in {"unrun", "pass", "fail"}
         /\ SharedVerdict(run).vacuous \in BOOLEAN
BY DEF SharedVerdict, Hollow

\* A run leaves a report, or what was there.
LEMMA ReportTyped ==
  ASSUME EvidenceTypeOK, NEW run \in RunResult, NEW form, Leaves(run, form)
  PROVE  /\ report' \in Cases \cup {NoReport} /\ full' \in Cases \cup {NoReport}
         /\ hurt' \in BOOLEAN
BY DEF Leaves, EvidenceTypeOK, RunResult

LEMMA InCheck == ASSUME EvidenceTypeOK, NEW place, In(place) PROVE check \in CheckRecord
BY DEF EvidenceTypeOK, In

\* What the steps of a stage leave of the runs and answers they do not touch.
Untouched ==
  /\ check'.shared = check.shared /\ check'.own = check.own
  /\ check'.strict = check.strict /\ check'.sealed = check.sealed
  /\ check'.found = check.found

LEMMA StepsOfStages ==
  ASSUME check \in CheckRecord
  PROVE  /\ DriftReads =>
              /\ Untouched /\ check'.phase = "unit" /\ check'.vacuous = check.vacuous
              /\ check'.unit = check.unit /\ check'.coverage = check.coverage
         /\ UnitAnswers =>
              /\ Untouched /\ check'.phase = "coverage"
              /\ check'.coverage = check.coverage
              /\ check'.vacuous = (check.own.green /\ Hollow(check.own))
              /\ check'.unit = IF check.own.missing THEN "skip"
                               ELSE IF check.own.green /\ ~Hollow(check.own)
                               THEN "pass" ELSE "fail"
         /\ NoRunner =>
              /\ Untouched /\ check'.phase = "coverage"
              /\ check'.unit = IF setup.test = "none" THEN "skip" ELSE "fail"
              /\ check'.coverage = check.coverage
         /\ FoldShared =>
              /\ Untouched /\ check'.phase = "oracle" /\ check'.unit = check.unit
              /\ check'.vacuous = check.vacuous
              /\ check'.coverage = Graded(check.shared)
         /\ NoCoverage =>
              /\ Untouched /\ check'.phase = "oracle" /\ check'.unit = check.unit
              /\ check'.vacuous = check.vacuous
              /\ check'.coverage = IF setup.coverage = "none" THEN "skip" ELSE "fail"
         /\ NoOracles \/ KeepReport \/ RunOracles \/ RestoreReport \/ Conclude =>
              /\ Untouched /\ check'.unit = check.unit
              /\ check'.phase \in {"closing", "partial", "restoring", "concluded"}
              /\ check'.vacuous = check.vacuous /\ check'.coverage = check.coverage
<1> USE DEF Untouched, CheckRecord
<1>1. ASSUME DriftReads
      PROVE  /\ Untouched /\ check'.phase = "unit" /\ check'.vacuous = check.vacuous
             /\ check'.unit = check.unit /\ check'.coverage = check.coverage
  <2>1. PICK f : check' = [check EXCEPT !.phase = "unit", !.flagged = f]
    BY <1>1 DEF DriftReads
  <2> QED  BY <2>1
<1>2. ASSUME UnitAnswers
      PROVE  /\ Untouched /\ check'.phase = "coverage"
             /\ check'.coverage = check.coverage
             /\ check'.vacuous = (check.own.green /\ Hollow(check.own))
             /\ check'.unit = IF check.own.missing THEN "skip"
                              ELSE IF check.own.green /\ ~Hollow(check.own)
                              THEN "pass" ELSE "fail"
  <2> DEFINE vacuous == check.own.green /\ Hollow(check.own)
             unit == IF check.own.missing THEN "skip"
                     ELSE IF check.own.green /\ ~Hollow(check.own) THEN "pass"
                     ELSE "fail"
  <2>1. PICK proof : check' = [check EXCEPT !.phase = "coverage", !.proof = proof,
                                            !.vacuous = vacuous, !.unit = unit]
    BY <1>2 DEF UnitAnswers
  <2> HIDE DEF vacuous, unit
  <2>2. /\ Untouched /\ check'.phase = "coverage" /\ check'.coverage = check.coverage
        /\ check'.vacuous = vacuous /\ check'.unit = unit
    BY <2>1
  <2> QED  BY <2>2 DEF vacuous, unit
<1>3. ASSUME NoRunner
      PROVE  /\ Untouched /\ check'.phase = "coverage"
             /\ check'.unit = IF setup.test = "none" THEN "skip" ELSE "fail"
             /\ check'.coverage = check.coverage
  <2> DEFINE answer == IF setup.test = "none" THEN "skip" ELSE "fail"
  <2>1. check' = [check EXCEPT !.phase = "coverage", !.unit = answer]
    BY <1>3 DEF NoRunner
  <2> HIDE DEF answer
  <2> QED  BY <2>1 DEF answer
<1>4. ASSUME FoldShared
      PROVE  /\ Untouched /\ check'.phase = "oracle" /\ check'.unit = check.unit
             /\ check'.vacuous = check.vacuous
             /\ check'.coverage = Graded(check.shared)
  <2> DEFINE graded == Graded(check.shared)
  <2>1. check' = [check EXCEPT !.phase = "oracle", !.coverage = graded]
    BY <1>4 DEF FoldShared
  <2> HIDE DEF graded
  <2> QED  BY <2>1 DEF graded
<1>6. ASSUME NoCoverage
      PROVE  /\ Untouched /\ check'.phase = "oracle" /\ check'.unit = check.unit
             /\ check'.vacuous = check.vacuous
             /\ check'.coverage = IF setup.coverage = "none" THEN "skip" ELSE "fail"
  <2> DEFINE answer == IF setup.coverage = "none" THEN "skip" ELSE "fail"
  <2>1. check' = [check EXCEPT !.phase = "oracle", !.coverage = answer]
    BY <1>6 DEF NoCoverage
  <2> HIDE DEF answer
  <2> QED  BY <2>1 DEF answer
<1>5. ASSUME NoOracles \/ KeepReport \/ RunOracles \/ RestoreReport \/ Conclude
      PROVE  /\ Untouched /\ check'.unit = check.unit
             /\ check'.phase \in {"closing", "partial", "restoring", "concluded"}
             /\ check'.vacuous = check.vacuous /\ check'.coverage = check.coverage
  <2>1. CASE NoOracles
    BY <2>1 DEF NoOracles
  <2>2. CASE KeepReport
    BY <2>2 DEF KeepReport
  <2>3. CASE RunOracles
    <3>1. PICK answer : check' = [check EXCEPT !.phase = "restoring", !.oracle = answer]
      BY <2>3 DEF RunOracles
    <3> QED  BY <3>1
  <2>4. CASE RestoreReport
    BY <2>4 DEF RestoreReport, Restored, Unrestored
  <2>5. CASE Conclude
    <3>1. PICK says : check' = [check EXCEPT !.phase = "concluded", !.says = says]
      BY <2>5 DEF Conclude
    <3> QED  BY <3>1
  <2> QED  BY <1>5, <2>1, <2>2, <2>3, <2>4, <2>5
<1> QED  BY <1>1, <1>2, <1>3, <1>4, <1>5, <1>6

\* The steps by which a check goes on.
Advances ==
  \/ DriftReads \/ RunShared \/ NoRunner \/ RunOwn \/ UnitAnswers
  \/ FoldShared \/ NoCoverage \/ RunCoverage
  \/ NoOracles \/ KeepReport \/ RunOracles \/ RestoreReport \/ Conclude

\* The stage's own run is remembered until it is judged.
OwnHasRun == In("captured") => check.own # NoRun

\* The step keeps the types, and a check that goes on is one.
LEMMA EvidenceTypeStep ==
  ASSUME EvidenceTypeOK, OwnHasRun, [EvidenceNext]_evidenceVars
  PROVE  /\ EvidenceTypeOK'
         /\ Advances => check' \in CheckRecord
<1> USE DEF EvidenceTypeOK, evidenceVars, evidenceCounters, Proceeds, Falters, Reported
<1>1. ASSUME Prime PROVE EvidenceTypeOK'
  <2>1. (checkCount + 1) \in 1..MaxChecks /\ checkCount' \in 0..MaxChecks
    BY <1>1, EvidenceAssumption DEF Prime
  <2>2. check' \in CheckRecord
    BY <1>1, <2>1 DEF Prime, CheckRecord, StageState
  <2> QED  BY <1>1, <2>1, <2>2 DEF Prime
<1>2. ASSUME DriftReads PROVE EvidenceTypeOK' /\ check' \in CheckRecord
  <2>1. Flagged \in SUBSET Criterion
    BY DEF Flagged
  <2>2. (IF check.sealed THEN {} ELSE Flagged) \in SUBSET Criterion
    BY <2>1
  <2>3. check \in CheckRecord
    BY <1>2, InCheck DEF DriftReads
  <2>4. check' \in CheckRecord
    BY <1>2, <2>2, <2>3 DEF DriftReads, CheckRecord
  <2> QED  BY <1>2, <2>4 DEF DriftReads
<1>3. ASSUME RunShared PROVE EvidenceTypeOK' /\ check' \in CheckRecord
  <2> DEFINE form == Form(setup.test = "vitest")
  <2>1. PICK run \in Results("coverage", setup.covered, form) :
          /\ check' = [check EXCEPT
               !.shared = run, !.proof = VitestProof(run),
               !.phase = SharedVerdict(run).phase, !.unit = SharedVerdict(run).unit,
               !.vacuous = SharedVerdict(run).vacuous]
          /\ ran' = ran \cup {run}
          /\ Leaves(run, form) /\ Reported(run, form)
          /\ temps' = temps \cup Temporary(run, form, "shared")
    BY <1>3 DEF RunShared
  <2>2. run \in RunResult
    BY ResultsTyped
  <2>3. check \in CheckRecord
    BY <1>3, InCheck DEF RunShared
  <2>4. check' \in CheckRecord
    BY <2>1, <2>2, <2>3, SharedTyped, ProofTyped DEF CheckRecord, StageState
  <2>5. /\ report' \in Cases \cup {NoReport} /\ full' \in Cases \cup {NoReport}
        /\ hurt' \in BOOLEAN
    BY <2>1, <2>2, ReportTyped
  <2>6. temps' \subseteq (1..MaxChecks) \X {"shared", "own"}
    BY <2>1, <2>3 DEF CheckRecord, Temporary
  <2> QED  BY <2>1, <2>2, <2>4, <2>5, <2>6
<1>4. ASSUME RunOwn PROVE EvidenceTypeOK' /\ check' \in CheckRecord
  <2> DEFINE form == Form(Guarded \/ Captures)
  <2>1. PICK run \in Results("test", setup.tested, form) :
          /\ check' = [check EXCEPT !.own = run, !.phase = "captured"]
          /\ ran' = ran \cup {run}
          /\ Leaves(run, form) /\ Reported(run, form)
          /\ temps' = temps \cup Temporary(run, form, "own")
    BY <1>4 DEF RunOwn
  <2>2. run \in RunResult
    BY ResultsTyped
  <2>3. check \in CheckRecord
    BY <1>4, InCheck DEF RunOwn
  <2>4. check' \in CheckRecord
    BY <2>1, <2>2, <2>3 DEF CheckRecord
  <2>5. /\ report' \in Cases \cup {NoReport} /\ full' \in Cases \cup {NoReport}
        /\ hurt' \in BOOLEAN
    BY <2>1, <2>2, ReportTyped
  <2>6. temps' \subseteq (1..MaxChecks) \X {"shared", "own"}
    BY <2>1, <2>3 DEF CheckRecord, Temporary
  <2> QED  BY <2>1, <2>2, <2>4, <2>5, <2>6
<1>5. ASSUME UnitAnswers PROVE EvidenceTypeOK' /\ check' \in CheckRecord
  <2>1. check \in CheckRecord /\ check.own \in RunResult
    BY <1>5, InCheck DEF UnitAnswers, OwnHasRun, CheckRecord
  <2>2. VitestProof(check.own) \in ProofRecord \cup {NoProof}
    BY <2>1, ProofTyped
  <2>3. JUnitProof \in ProofRecord \cup {NoProof}
    BY <2>1, ProofTyped
  <2>4. (check.own.green /\ Hollow(check.own)) \in BOOLEAN
    OBVIOUS
  <2> DEFINE proof == IF setup.test = "vitest" THEN VitestProof(check.own)
                      ELSE JUnitProof
             unit == IF check.own.missing THEN "skip"
                     ELSE IF check.own.green /\ ~Hollow(check.own) THEN "pass"
                     ELSE "fail"
             vacuous == check.own.green /\ Hollow(check.own)
  <2>5. proof \in ProofRecord \cup {NoProof} /\ unit \in {"pass", "fail", "skip"}
    BY <2>2, <2>3
  <2>6. check' = [check EXCEPT !.phase = "coverage", !.proof = proof,
                               !.vacuous = vacuous, !.unit = unit]
    BY <1>5 DEF UnitAnswers
  <2>7. PICK p \in ProofRecord \cup {NoProof}, u \in {"pass", "fail", "skip"},
             v \in BOOLEAN :
          check' = [check EXCEPT !.phase = "coverage", !.proof = p,
                                 !.vacuous = v, !.unit = u]
    BY <2>4, <2>5, <2>6
  <2>8. check' \in CheckRecord
    BY <2>1, <2>7 DEF CheckRecord, StageState
  <2> QED  BY <1>5, <2>8 DEF UnitAnswers
<1>6. ASSUME RunCoverage PROVE EvidenceTypeOK' /\ check' \in CheckRecord
  <2> DEFINE form == Form(FALSE)
  <2>1. PICK run \in Results("coverage", setup.covered, form) :
          /\ check' = [check EXCEPT !.phase = "oracle", !.coverage = Graded(run)]
          /\ ran' = ran \cup {run}
          /\ Leaves(run, form) /\ Reported(run, form)
    BY <1>6 DEF RunCoverage
  <2>2. run \in RunResult
    BY ResultsTyped
  <2>3. check \in CheckRecord
    BY <1>6, InCheck DEF RunCoverage
  <2>4. Graded(run) \in StageState
    BY DEF Graded, StageState
  <2>5. check' \in CheckRecord
    BY <2>1, <2>3, <2>4 DEF CheckRecord
  <2>6. /\ report' \in Cases \cup {NoReport} /\ full' \in Cases \cup {NoReport}
        /\ hurt' \in BOOLEAN
    BY <2>1, <2>2, ReportTyped
  <2>7. temps' = temps
    BY <1>6 DEF RunCoverage
  <2>8. /\ UNCHANGED <<tests, setup, checkCount, killed>>
        /\ meddled' \in {meddled, meddled + 1} /\ ran' \subseteq RunResult
    BY <2>1, <2>2
  <2> QED  BY <2>5, <2>6, <2>7, <2>8
<1>7. ASSUME NoRunner \/ FoldShared \/ NoCoverage \/ NoOracles \/ KeepReport
             \/ RestoreReport
      PROVE  EvidenceTypeOK' /\ check' \in CheckRecord
  <2>1. check \in CheckRecord
    BY <1>7, InCheck DEF NoRunner, FoldShared, NoCoverage, NoOracles, KeepReport,
       RestoreReport
  <2>2. check' \in CheckRecord
    <3>1. CASE NoRunner
      <4>1. PICK a \in StageState :
              check' = [check EXCEPT !.phase = "coverage", !.unit = a]
        BY <3>1 DEF NoRunner, StageState
      <4> QED  BY <2>1, <4>1 DEF CheckRecord
    <3>2. CASE FoldShared
      <4>1. Graded(check.shared) \in StageState
        BY DEF Graded, StageState
      <4> QED  BY <3>2, <2>1, <4>1 DEF FoldShared, CheckRecord
    <3>3. CASE NoOracles
      BY <3>3, <2>1 DEF NoOracles, CheckRecord, StageState
    <3>4. CASE KeepReport
      <4>1. CASE check' = [check EXCEPT !.phase = "partial", !.kept = report]
        BY <2>1, <4>1 DEF CheckRecord
      <4>2. CASE check' = [check EXCEPT !.phase = "closing", !.oracle = "fail"]
        BY <2>1, <4>2 DEF CheckRecord, StageState
      <4> QED  BY <3>4, <4>1, <4>2 DEF KeepReport
    <3>5. CASE RestoreReport
      <4>1. PICK a \in StageState :
              check' = [check EXCEPT !.phase = "closing", !.oracle = a]
        <5>1. CASE Restored
          <6>1. check' = [check EXCEPT !.phase = "closing", !.oracle = check.oracle]
            BY <2>1, <5>1 DEF Restored, CheckRecord
          <6>2. check.oracle \in StageState
            BY <2>1 DEF CheckRecord
          <6> QED  BY <6>1, <6>2
        <5>2. CASE Unrestored
          BY <5>2 DEF Unrestored, StageState
        <5> QED  BY <3>5, <5>1, <5>2 DEF RestoreReport
      <4> QED  BY <2>1, <4>1 DEF CheckRecord
    <3>6. CASE NoCoverage
      <4>1. PICK a \in StageState :
              check' = [check EXCEPT !.phase = "oracle", !.coverage = a]
        BY <3>6 DEF NoCoverage, StageState
      <4> QED  BY <2>1, <4>1 DEF CheckRecord
    <3> QED  BY <1>7, <3>1, <3>2, <3>3, <3>4, <3>5, <3>6
  <2>3. report' \in Cases \cup {NoReport} /\ hurt' \in BOOLEAN
    <3>1. OracleCases \in Cases
      BY DEF OracleCases, Cases
    <3>2. CASE RestoreReport
      <4>1. check.kept \in Cases \cup {NoReport}
        BY <2>1 DEF CheckRecord
      <4>2. /\ report' \in {report, check.kept, OracleCases}
            /\ hurt' \in {hurt, TRUE}
        BY <3>2 DEF RestoreReport, Restored, Unrestored
      <4> QED  BY <3>1, <4>1, <4>2
    <3> QED  BY <1>7, <3>2 DEF NoRunner, FoldShared, NoCoverage, NoOracles, KeepReport
  <2>4. UNCHANGED <<tests, setup, temps, ran, full, checkCount, killed>>
        /\ meddled' \in {meddled, meddled + 1} /\ full' = full
    BY <1>7 DEF NoRunner, FoldShared, NoCoverage, NoOracles, KeepReport, RestoreReport,
               Restored, Unrestored
  <2> QED  BY <2>2, <2>3, <2>4
<1>8. ASSUME RunOracles PROVE EvidenceTypeOK' /\ check' \in CheckRecord
  <2>1. check \in CheckRecord
    BY <1>8, InCheck DEF RunOracles
  <2>2. check' \in CheckRecord
    <3>1. PICK a \in StageState :
            check' = [check EXCEPT !.phase = "restoring", !.oracle = a]
      BY <1>8 DEF RunOracles, StageState
    <3> QED  BY <2>1, <3>1 DEF CheckRecord
  <2>3. OracleCases \in Cases
    BY DEF OracleCases, Cases
  <2> QED  BY <1>8, <2>2, <2>3 DEF RunOracles
<1>9. ASSUME Conclude PROVE EvidenceTypeOK' /\ check' \in CheckRecord
  <2>1. check \in CheckRecord
    BY <1>9, InCheck DEF Conclude
  <2>2. \A c \in Criterion : Observed(check.proof, c) \in {"verified", "failed", "unverified"}
    BY DEF Observed
  <2>3. check' \in CheckRecord
    BY <1>9, <2>1, <2>2 DEF Conclude, CheckRecord
  <2> QED  BY <1>9, <2>3 DEF Conclude
<1>10. ASSUME Leave PROVE EvidenceTypeOK'
  BY <1>10 DEF Leave
<1>11. ASSUME NEW c \in Criterion, NEW file \in TestFile, EditTests(c, file)
       PROVE  EvidenceTypeOK'
  BY <1>11 DEF EditTests, Meddles
<1>12. ASSUME SomeoneRuns PROVE EvidenceTypeOK'
  <2>1. PICK run \in RunResult :
          /\ run.told \in Cases /\ report' = run.told /\ full' = run.told
          /\ ran' = IF check = NoCheck THEN {} ELSE ran \cup {run}
    BY <1>12, SomeoneTyped
  <2>2. /\ hurt' \in BOOLEAN /\ meddled' = meddled + 1
        /\ UNCHANGED <<tests, setup, check, temps, killed, checkCount>>
    BY <1>12 DEF SomeoneRuns, Meddles
  <2> QED  BY <2>1, <2>2
<1>13. ASSUME Kill PROVE EvidenceTypeOK'
  BY <1>13 DEF Kill, Meddles
<1>14. ASSUME UNCHANGED evidenceVars PROVE EvidenceTypeOK'
  BY <1>14
<1>15. EvidenceTypeOK'
  BY <1>1, <1>2, <1>3, <1>4, <1>5, <1>6, <1>7, <1>8, <1>9, <1>10, <1>11, <1>12,
     <1>13, <1>14 DEF EvidenceNext
<1>16. Advances => check' \in CheckRecord
  BY <1>2, <1>3, <1>4, <1>5, <1>6, <1>7, <1>8, <1>9 DEF Advances
<1> QED  BY <1>15, <1>16

\* Types of the files, the report and the records of a check.
THEOREM EvidenceTypeCorrect == EvidenceSpec => [](EvidenceTypeOK /\ OwnHasRun)
<1>1. EvidenceInit => EvidenceTypeOK /\ OwnHasRun
  <2> SUFFICES ASSUME EvidenceInit PROVE EvidenceTypeOK /\ OwnHasRun
    OBVIOUS
  <2>1. tests \in [Criterion -> TestFile] /\ meddled \in Nat /\ 0 \in 0..MaxChecks
    BY EvidenceAssumption DEF EvidenceInit
  <2> QED  BY <2>1 DEF EvidenceInit, EvidenceTypeOK, OwnHasRun, In
<1>2. ASSUME EvidenceTypeOK, OwnHasRun, [EvidenceNext]_evidenceVars
      PROVE  EvidenceTypeOK'
  BY <1>2, EvidenceTypeStep
<1>3. ASSUME EvidenceTypeOK, OwnHasRun, [EvidenceNext]_evidenceVars
      PROVE  OwnHasRun'
  <2> USE <1>3 DEF In
  <2>1. CASE RunOwn
    <3>1. check \in CheckRecord
      BY <2>1, InCheck DEF RunOwn
    <3> DEFINE form == Form(Guarded \/ Captures)
    <3>2. PICK run \in Results("test", setup.tested, form) :
            check' = [check EXCEPT !.own = run, !.phase = "captured"]
      BY <2>1 DEF RunOwn
    <3>3. run # NoRun
      BY ResultsTyped
    <3> QED  BY <3>1, <3>2, <3>3 DEF OwnHasRun, CheckRecord
  <2>2. CASE RunShared
    <3> DEFINE form == Form(setup.test = "vitest")
    <3>1. PICK run \in Results("coverage", setup.covered, form) :
            check' = [check EXCEPT
               !.shared = run, !.proof = VitestProof(run),
               !.phase = SharedVerdict(run).phase, !.unit = SharedVerdict(run).unit,
               !.vacuous = SharedVerdict(run).vacuous]
      BY <2>2 DEF RunShared
    <3>2. check \in CheckRecord /\ SharedVerdict(run).phase # "captured"
      BY <2>2, InCheck DEF RunShared, SharedVerdict
    <3>3. check'.phase # "captured"
      BY <3>1, <3>2 DEF CheckRecord
    <3> QED  BY <3>3 DEF OwnHasRun
  <2>3. ASSUME Prime \/ DriftReads \/ NoRunner \/ UnitAnswers \/ FoldShared
               \/ NoCoverage \/ RunCoverage \/ NoOracles \/ KeepReport \/ RunOracles
               \/ RestoreReport \/ Conclude \/ Leave \/ Kill
        PROVE  OwnHasRun'
    <3>0. ~Prime /\ ~Leave /\ ~Kill => check \in CheckRecord
      BY <2>3, InCheck
         DEF DriftReads, NoRunner, UnitAnswers, FoldShared, NoCoverage, RunCoverage,
             NoOracles, KeepReport, RunOracles, RestoreReport, Conclude
    <3>1. check' # NoCheck => check'.phase # "captured"
      <4>1. CASE Prime \/ Leave \/ Kill
        BY <4>1 DEF Prime, Leave, Kill
      <4>2. CASE RunCoverage
        <5>1. PICK answer : check' = [check EXCEPT !.phase = "oracle",
                                                   !.coverage = answer]
          BY <4>2 DEF RunCoverage
        <5> QED  BY <4>2, <5>1, InCheck DEF RunCoverage, CheckRecord
      <4>3. CASE ~(Prime \/ Leave \/ Kill \/ RunCoverage)
        BY <2>3, <3>0, <4>3, StepsOfStages
      <4> QED  BY <4>1, <4>2, <4>3
    <3> QED  BY <3>1 DEF OwnHasRun
  <2>4. ASSUME UNCHANGED check PROVE OwnHasRun'
    BY <2>4 DEF OwnHasRun
  <2> QED  BY <2>1, <2>2, <2>3, <2>4
           DEF EvidenceNext, EditTests, SomeoneRuns, evidenceVars
<1> QED  BY <1>1, <1>2, <1>3, PTL DEF EvidenceSpec

\* What a check remembers is what it ran, no stage has answered before its
\* time, and a unit stage that runs its own command had no green run to share.
Remembered ==
  /\ check.shared # NoRun => check.shared \in Mine /\ check.shared.by = "coverage"
  /\ check.own # NoRun => check.own \in Mine /\ check.own.by = "test"
  /\ check.phase \in {"drift", "unit"} =>
       Mine = {} /\ check.shared = NoRun /\ check.own = NoRun
  /\ check.phase = "own" => check.own = NoRun
  /\ check.phase \in {"drift", "unit", "own", "captured"} =>
       check.unit = "unrun" /\ check.coverage = "unrun"
  /\ check.phase = "coverage" => check.coverage = "unrun"
  /\ check.phase \in {"own", "captured"} =>
       check.shared = NoRun \/ ~check.shared.green

StageInv ==
  check # NoCheck =>
    Remembered /\ UnitIsTrue /\ CoverageIsTrue /\ OneRunServesBoth

LEMMA StageStep ==
  ASSUME EvidenceTypeOK, OwnHasRun, StageInv, [EvidenceNext]_evidenceVars
  PROVE  StageInv'
<1>1. CASE check' = NoCheck
  BY <1>1 DEF StageInv
<1>2. CASE Prime
  <2>1. /\ check'.phase = "drift" /\ check'.unit = "unrun"
        /\ check'.coverage = "unrun" /\ check'.shared = NoRun
        /\ check'.own = NoRun /\ ran' = {}
    BY <1>2 DEF Prime
  <2> QED  BY <2>1 DEF StageInv, Remembered, UnitIsTrue, CoverageIsTrue,
                       OneRunServesBoth, Mine
<1>3. ASSUME UNCHANGED <<check, setup>>, Mine' = Mine PROVE StageInv'
  BY <1>3 DEF StageInv, Remembered, UnitIsTrue, CoverageIsTrue, OneRunServesBoth
<1>4. CASE SomeoneRuns /\ check # NoCheck
  <2>1. PICK run \in RunResult :
          /\ run.by = "someone" /\ run.told \in Cases /\ report' = run.told
          /\ ran' = ran \cup {run}
    BY <1>4, SomeoneTyped
  <2>2. Mine' = Mine
    BY <2>1 DEF Mine
  <2> QED  BY <1>3, <1>4, <2>2 DEF SomeoneRuns
<1>5. ASSUME check \in CheckRecord, UNCHANGED <<setup, ran>>,
             DriftReads \/ NoRunner
      PROVE  StageInv'
  <2>1. Mine' = Mine
    BY <1>5 DEF Mine
  <2>2. check # NoCheck /\ check.phase \in {"drift", "unit"}
    BY <1>5 DEF DriftReads, NoRunner, In
  <2>3. Mine = {} /\ check.shared = NoRun /\ check.own = NoRun
        /\ check.unit = "unrun" /\ check.coverage = "unrun"
    BY <2>2 DEF StageInv, Remembered
  <2>4. /\ Untouched /\ check'.coverage = "unrun"
        /\ \/ check'.phase = "unit" /\ check'.unit = "unrun"
           \/ /\ check'.phase = "coverage"
              /\ check'.unit = IF setup.test = "none" THEN "skip" ELSE "fail"
              /\ setup.test \in {"none", "unmapped"}
    BY <1>5, <2>3, StepsOfStages DEF NoRunner
  <2>5. Remembered'
    BY <2>1, <2>3, <2>4 DEF Remembered, Untouched
  <2>6. UnitIsTrue'
    BY <1>5, <2>4 DEF UnitIsTrue
  <2>7. CoverageIsTrue' /\ OneRunServesBoth'
    BY <2>3, <2>4 DEF CoverageIsTrue, OneRunServesBoth, Untouched
  <2> QED  BY <2>5, <2>6, <2>7 DEF StageInv
<1>6. ASSUME check \in CheckRecord, UNCHANGED <<setup, ran>>, UnitAnswers
      PROVE  StageInv'
  <2>1. Mine' = Mine
    BY <1>6 DEF Mine
  <2>2. check # NoCheck /\ check.phase = "captured" /\ check.own # NoRun
    BY <1>6 DEF UnitAnswers, In, OwnHasRun
  <2>3. Remembered'
    BY <1>6, <2>1, <2>2, StepsOfStages DEF StageInv, Remembered, Untouched
  <2>4. UnitIsTrue'
    BY <1>6, <2>1, <2>2, StepsOfStages
    DEF StageInv, Remembered, UnitIsTrue, Untouched, Hollow
  <2>5. CoverageIsTrue' /\ OneRunServesBoth'
    BY <1>6, <2>1, <2>2, StepsOfStages
    DEF StageInv, Remembered, CoverageIsTrue, OneRunServesBoth, Untouched
  <2> QED  BY <2>3, <2>4, <2>5 DEF StageInv
<1>7. ASSUME check \in CheckRecord, UNCHANGED <<setup, ran>>, FoldShared
      PROVE  StageInv'
  <2>1. Mine' = Mine
    BY <1>7 DEF Mine
  <2>2. check # NoCheck /\ check.shared # NoRun
    BY <1>7 DEF FoldShared, In
  <2>3. Remembered' /\ UnitIsTrue' /\ OneRunServesBoth'
    BY <1>7, <2>1, <2>2, StepsOfStages
    DEF StageInv, Remembered, UnitIsTrue, OneRunServesBoth, Untouched
  <2>4. CoverageIsTrue'
    BY <1>7, <2>1, <2>2, StepsOfStages
    DEF StageInv, Remembered, CoverageIsTrue, Untouched, Graded
  <2> QED  BY <2>3, <2>4 DEF StageInv
<1>16. ASSUME check \in CheckRecord, UNCHANGED <<setup, ran>>, NoCoverage
      PROVE  StageInv'
  <2>1. Mine' = Mine
    BY <1>16 DEF Mine
  <2>2. check # NoCheck /\ setup.coverage \in {"none", "unmapped"}
    BY <1>16 DEF NoCoverage, In
  <2>3. Remembered' /\ UnitIsTrue' /\ OneRunServesBoth'
    BY <1>16, <2>1, <2>2, StepsOfStages
    DEF StageInv, Remembered, UnitIsTrue, OneRunServesBoth, Untouched
  <2>4. CoverageIsTrue'
    BY <1>16, <2>2, StepsOfStages DEF CoverageIsTrue
  <2> QED  BY <2>3, <2>4 DEF StageInv
<1>8. ASSUME check \in CheckRecord, UNCHANGED <<setup, ran>>,
             NoOracles \/ KeepReport \/ RunOracles \/ RestoreReport \/ Conclude
      PROVE  StageInv'
  <2>1. Mine' = Mine
    BY <1>8 DEF Mine
  <2>2. check # NoCheck
    BY <1>8 DEF NoOracles, KeepReport, RunOracles, RestoreReport, Conclude, In
  <2> QED  BY <1>8, <2>1, <2>2, StepsOfStages
           DEF StageInv, Remembered, UnitIsTrue, CoverageIsTrue,
               OneRunServesBoth, Untouched
<1>9. CASE RunShared
  <2>1. check \in CheckRecord /\ check # NoCheck /\ check.phase = "unit"
    BY <1>9, InCheck DEF RunShared, In
  <2>2. /\ Mine = {} /\ check.own = NoRun /\ check.coverage = "unrun"
    BY <2>1 DEF StageInv, Remembered
  <2>4. PICK run, proof, verdict :
          /\ run \in RunResult
          /\ run.by = "coverage" /\ run # NoRun
          /\ verdict = SharedVerdict(run)
          /\ check' = [check EXCEPT
               !.shared = run, !.proof = proof, !.phase = verdict.phase,
               !.unit = verdict.unit, !.vacuous = verdict.vacuous]
          /\ ran' = ran \cup {run}
    <3> DEFINE form == Form(setup.test = "vitest")
    <3>1. PICK run \in Results("coverage", setup.covered, form) :
            /\ check' = [check EXCEPT
                 !.shared = run, !.proof = VitestProof(run),
                 !.phase = SharedVerdict(run).phase, !.unit = SharedVerdict(run).unit,
                 !.vacuous = SharedVerdict(run).vacuous]
            /\ ran' = ran \cup {run}
      BY <1>9 DEF RunShared
    <3>2. run \in RunResult /\ run.by = "coverage" /\ run # NoRun
      BY ResultsTyped
    <3> QED  BY <3>1, <3>2
  <2>5. /\ check'.shared = run /\ check'.own = NoRun
        /\ check'.coverage = "unrun" /\ check'.strict = check.strict
        /\ check'.phase = verdict.phase /\ check'.unit = verdict.unit
        /\ check'.vacuous = verdict.vacuous
    BY <2>1, <2>2, <2>4 DEF CheckRecord
  <2>6. Mine' = {run}
    BY <2>2, <2>4 DEF Mine
  <2>7. UNCHANGED setup
    BY <1>9 DEF RunShared, Reported, Proceeds, Falters
  <2>8. Remembered'
    BY <2>4, <2>5, <2>6, SharedTyped DEF Remembered, SharedVerdict
  <2>9. UnitIsTrue'
    BY <2>4, <2>5, <2>6, <2>7 DEF UnitIsTrue, SharedVerdict, Hollow
  <2> QED  BY <2>4, <2>5, <2>6, <2>8, <2>9
           DEF StageInv, CoverageIsTrue, OneRunServesBoth
<1>10. CASE RunOwn
  <2>1. check \in CheckRecord /\ check # NoCheck /\ check.phase \in {"own", "unit"}
    BY <1>10, InCheck DEF RunOwn, In
  <2>2. /\ check.unit = "unrun" /\ check.coverage = "unrun"
        /\ check.shared = NoRun \/ ~check.shared.green
        /\ check.shared # NoRun => check.shared \in Mine /\ check.shared.by = "coverage"
    BY <2>1 DEF StageInv, Remembered
  <2>4. PICK run \in RunResult :
          /\ run.by = "test" /\ run # NoRun
          /\ check' = [check EXCEPT !.own = run, !.phase = "captured"]
          /\ ran' = ran \cup {run}
    BY <1>10, ResultsTyped DEF RunOwn
  <2>5. /\ check'.shared = check.shared /\ check'.own = run
        /\ check'.coverage = "unrun" /\ check'.unit = "unrun"
        /\ check'.phase = "captured"
    BY <2>1, <2>2, <2>4 DEF CheckRecord
  <2>6. Mine' = Mine \cup {run}
    BY <2>4 DEF Mine
  <2>7. Remembered'
    BY <2>2, <2>4, <2>5, <2>6 DEF Remembered
  <2> QED  BY <2>2, <2>5, <2>7
           DEF StageInv, UnitIsTrue, CoverageIsTrue, OneRunServesBoth
<1>11. CASE RunCoverage
  <2>1. /\ check \in CheckRecord /\ check # NoCheck /\ check.phase = "coverage"
        /\ check.shared = NoRun /\ UNCHANGED setup
    BY <1>11, InCheck DEF RunCoverage, In, Reported, Proceeds, Falters
  <2>2. /\ Remembered /\ UnitIsTrue
    BY <2>1 DEF StageInv
  <2>3. PICK run, graded :
          /\ run \in RunResult
          /\ run.by = "coverage" /\ graded = Graded(run)
          /\ check' = [check EXCEPT !.phase = "oracle", !.coverage = graded]
          /\ ran' = ran \cup {run}
    BY <1>11, ResultsTyped DEF RunCoverage
  <2>4. Mine' = Mine \cup {run}
    BY <2>3 DEF Mine
  <2>5. Untouched /\ check'.coverage = graded /\ check'.unit = check.unit
        /\ check'.vacuous = check.vacuous /\ check'.phase = "oracle"
    BY <2>1, <2>3 DEF CheckRecord, Untouched
  <2>6. CoverageIsTrue'
    BY <2>3, <2>4, <2>5 DEF CoverageIsTrue, Graded
  <2>7. Remembered' /\ OneRunServesBoth'
    BY <2>1, <2>2, <2>4, <2>5 DEF Remembered, OneRunServesBoth, Untouched
  <2>8. UnitIsTrue'
    BY <2>1, <2>2, <2>4, <2>5 DEF UnitIsTrue, Untouched
  <2> QED  BY <2>6, <2>7, <2>8 DEF StageInv
<1>12. ASSUME NEW c \in Criterion, NEW file \in TestFile, EditTests(c, file)
       PROVE  StageInv'
  BY <1>3, <1>12 DEF EditTests, Mine
<1>13. CASE UNCHANGED evidenceVars
  BY <1>3, <1>13 DEF evidenceVars, Mine
<1>14. CASE Leave \/ Kill \/ (SomeoneRuns /\ check = NoCheck)
  BY <1>1, <1>14 DEF Leave, Kill, SomeoneRuns
<1>15. CASE DriftReads \/ NoRunner \/ UnitAnswers \/ FoldShared \/ NoCoverage
            \/ NoOracles \/ KeepReport \/ RunOracles \/ RestoreReport \/ Conclude
  <2>1. check \in CheckRecord
    BY <1>15, InCheck DEF DriftReads, NoRunner, UnitAnswers, FoldShared, NoCoverage,
       NoOracles, KeepReport, RunOracles, RestoreReport, Conclude
  <2>2. UNCHANGED <<setup, ran>>
    BY <1>15 DEF DriftReads, NoRunner, UnitAnswers, FoldShared, NoCoverage,
       NoOracles, KeepReport, RunOracles, RestoreReport, Restored, Unrestored,
       Conclude, Proceeds, Falters
  <2> QED  BY <1>5, <1>6, <1>7, <1>8, <1>15, <1>16, <2>1, <2>2
<1> QED  BY <1>2, <1>4, <1>9, <1>10, <1>11, <1>12, <1>13, <1>14, <1>15 DEF EvidenceNext

\* What the unit and the coverage stage say of a check follows from the runs
\* of the suite made in it, whatever projects, edits and other processes.
THEOREM StagesAreTrue == EvidenceSpec => []StagesTellTheirRuns
<1>1. EvidenceInit => StageInv
  BY DEF EvidenceInit, StageInv
<1>2. StageInv => StagesTellTheirRuns
  BY DEF StageInv, StagesTellTheirRuns
<1> QED  BY <1>1, <1>2, StageStep, EvidenceTypeCorrect, PTL DEF EvidenceSpec
-----------------------------------------------------------------------------
(* The proof of a check                                                    *)

LEMMA ProofKept ==
  ASSUME check \in CheckRecord,
         DriftReads \/ RunOwn \/ NoRunner \/ FoldShared \/ NoCoverage
           \/ RunCoverage \/ NoOracles \/ KeepReport \/ RunOracles \/ RestoreReport \/ Conclude
  PROVE  check'.proof = check.proof /\ check'.sealed = check.sealed
         /\ check'.found = check.found
<1> USE DEF CheckRecord
<1>1. CASE DriftReads
  <2>1. PICK f : check' = [check EXCEPT !.phase = "unit", !.flagged = f]
    BY <1>1 DEF DriftReads
  <2> QED  BY <2>1
<1>2. CASE RunOwn
  <2>1. PICK run : check' = [check EXCEPT !.own = run, !.phase = "captured"]
    BY <1>2 DEF RunOwn
  <2> QED  BY <2>1
<1>3. CASE NoRunner
  BY <1>3 DEF NoRunner
<1>4. CASE FoldShared \/ NoCoverage \/ RunCoverage
  <2>1. PICK a : check' = [check EXCEPT !.phase = "oracle", !.coverage = a]
    BY <1>4 DEF FoldShared, NoCoverage, RunCoverage
  <2> QED  BY <2>1
<1>6. CASE NoOracles
  BY <1>6 DEF NoOracles
<1>7. CASE KeepReport
  BY <1>7 DEF KeepReport
<1>8. CASE RunOracles
  <2>1. PICK o : check' = [check EXCEPT !.phase = "restoring", !.oracle = o]
    BY <1>8 DEF RunOracles
  <2> QED  BY <2>1
<1>5. CASE RestoreReport \/ Conclude
  <2>1. PICK says : check' = [check EXCEPT !.phase = "closing"]
                 \/ check' = [check EXCEPT !.phase = "closing", !.oracle = "fail"]
                 \/ check' = [check EXCEPT !.phase = "concluded", !.says = says]
    BY <1>5 DEF RestoreReport, Restored, Unrestored, Conclude
  <2> QED  BY <2>1
<1> QED  BY <1>1, <1>2, <1>3, <1>4, <1>5, <1>6, <1>7, <1>8

\* The report is what the check found until one of the runs since replaces it,
\* up to the point where a report is taken for proof; the proof is the report
\* of a run that took place since, of the shared one until the stage's own run
\* is judged, and of the deciding one then, if that left any; and what is
\* concluded is what its cases say.
ReportIsAccounted ==
  check.phase \in {"drift", "unit", "own", "captured"} =>
    report = check.found \/ \E run \in ran : run.told = report

ProofIsOfARun ==
  /\ check.phase \in {"drift", "unit"} => check.proof = NoProof
  /\ check.proof # NoProof =>
       /\ check.sealed
       /\ \E run \in ran :
            /\ run.told = check.proof.cases
            /\ setup.test = "vitest" =>
                 \/ check.phase # "captured" /\ run = Deciding
                 \/ /\ run = check.shared
                    /\ check.phase = "captured" \/ Deciding.told = NoReport

SaysWhatItSaw ==
  check.phase = "concluded" =>
    \A c \in Criterion : check.says[c] = "verified" =>
      /\ check.proof # NoProof
      /\ \E t \in check.proof.cases[c] :
           Selector \in {t.name, t.title} /\ t.status = "pass"
      /\ \A t \in check.proof.cases[c] : t.name = Selector => t.status # "fail"

ProofInv ==
  check # NoCheck =>
    ReportIsAccounted /\ ProofIsOfARun /\ SaysWhatItSaw

LEMMA LeavesAccounted ==
  ASSUME ReportIsAccounted, check.phase \in {"drift", "unit", "own", "captured"},
         NEW run, NEW form, Leaves(run, form), ran' = ran \cup {run},
         check'.found = check.found
  PROVE  ReportIsAccounted'
BY DEF ReportIsAccounted, Leaves

LEMMA ObservedMeans ==
  ASSUME NEW proof, NEW c, Observed(proof, c) = "verified"
  PROVE  /\ \E t \in proof.cases[c] :
              Selector \in {t.name, t.title} /\ t.status = "pass"
         /\ \A t \in proof.cases[c] : t.name = Selector => t.status # "fail"
<1>1. /\ \E t \in Matches(proof, c) : t.status = "pass"
      /\ \A t \in Matches(proof, c) : t.status # "fail"
  BY DEF Observed
<1>2. \A t \in Matches(proof, c) : t \in proof.cases[c] /\ Selector \in {t.name, t.title}
  BY DEF Matches
<1>3. ASSUME NEW t \in proof.cases[c], t.name = Selector
      PROVE  t \in Matches(proof, c) \/ proof.cases[c] = Unlisted
  BY <1>3 DEF Matches
<1>4. proof.cases[c] # Unlisted
  BY <1>1 DEF Matches
<1> QED  BY <1>1, <1>2, <1>3, <1>4

LEMMA ProofStep ==
  ASSUME EvidenceTypeOK, OwnHasRun, StageInv, ProofInv,
         [EvidenceNext]_evidenceVars
  PROVE  ProofInv'
<1>1. CASE check' = NoCheck
  BY <1>1 DEF ProofInv
<1>2. CASE Prime
  <2>1. /\ check'.phase = "drift" /\ check'.found = report /\ report' = report
        /\ check'.proof = NoProof /\ ran' = {}
    BY <1>2 DEF Prime
  <2> QED  BY <2>1 DEF ProofInv, ReportIsAccounted, ProofIsOfARun, SaysWhatItSaw
<1>3. ASSUME UNCHANGED <<check, setup, ran, report>> PROVE ProofInv'
  BY <1>3 DEF ProofInv, ReportIsAccounted, ProofIsOfARun, SaysWhatItSaw, Deciding
<1>4. CASE SomeoneRuns /\ check # NoCheck
  <2>1. PICK run \in RunResult :
          report' = run.told /\ ran' = ran \cup {run}
    BY <1>4, SomeoneTyped
  <2>2. UNCHANGED <<check, setup>>
    BY <1>4 DEF SomeoneRuns
  <2> QED  BY <1>4, <2>1, <2>2 DEF ProofInv, ReportIsAccounted, ProofIsOfARun,
                                   SaysWhatItSaw, Deciding
<1>5. ASSUME check \in CheckRecord, check # NoCheck, UNCHANGED <<setup, ran>>,
             check'.proof = check.proof, check'.sealed = check.sealed,
             Untouched, check'.phase \notin {"own", "captured", "concluded"},
             check.phase # "captured", ReportIsAccounted',
             check'.phase \in {"drift", "unit"} => check.phase \in {"drift", "unit"}
      PROVE  ProofInv'
  BY <1>5 DEF ProofInv, ProofIsOfARun, SaysWhatItSaw, Deciding, Untouched
<1>6. CASE DriftReads \/ NoRunner \/ FoldShared \/ NoCoverage \/ NoOracles
           \/ KeepReport \/ RunOracles \/ RestoreReport
  <2>1. /\ check \in CheckRecord /\ check # NoCheck /\ UNCHANGED <<setup, ran>>
        /\ check.phase # "captured"
    BY <1>6, InCheck DEF DriftReads, NoRunner, FoldShared, NoCoverage, NoOracles,
       KeepReport, RunOracles, RestoreReport, Restored, Unrestored, Proceeds,
       Falters, In
  <2>2. /\ check'.proof = check.proof /\ check'.sealed = check.sealed
        /\ check'.found = check.found
    BY <1>6, <2>1, ProofKept
  <2>3. Untouched
    BY <1>6, <2>1, StepsOfStages
  <2>4. CASE DriftReads
    <3>1. check.phase = "drift" /\ check'.phase = "unit" /\ report' = report
      BY <2>1, <2>4, StepsOfStages DEF DriftReads, In
    <3>2. ReportIsAccounted'
      BY <2>1, <2>2, <3>1 DEF ProofInv, ReportIsAccounted
    <3> QED  BY <1>5, <2>1, <2>2, <2>3, <3>1, <3>2
  <2>5. CASE ~DriftReads
    <3>1. check'.phase \in {"coverage", "oracle", "closing", "partial", "restoring"}
      <4>1. CASE NoRunner \/ FoldShared \/ NoCoverage
        BY <2>1, <4>1, StepsOfStages
      <4>2. CASE NoOracles
        BY <2>1, <4>2 DEF NoOracles, CheckRecord
      <4>3. CASE KeepReport
        BY <2>1, <4>3 DEF KeepReport, CheckRecord
      <4>4. CASE RunOracles
        <5>1. PICK o : check' = [check EXCEPT !.phase = "restoring", !.oracle = o]
          BY <4>4 DEF RunOracles
        <5> QED  BY <2>1, <5>1 DEF CheckRecord
      <4>5. CASE RestoreReport
        BY <2>1, <4>5 DEF RestoreReport, Restored, Unrestored, CheckRecord
      <4> QED  BY <1>6, <2>5, <4>1, <4>2, <4>3, <4>4, <4>5
    <3> QED  BY <1>5, <2>1, <2>2, <2>3, <3>1 DEF ReportIsAccounted
  <2> QED  BY <2>4, <2>5
<1>7. CASE RunCoverage
  <2>1. /\ check \in CheckRecord /\ check # NoCheck /\ UNCHANGED setup
        /\ check.phase = "coverage"
    BY <1>7, InCheck DEF RunCoverage, Reported, Proceeds, Falters, In
  <2>2. /\ check'.proof = check.proof /\ check'.sealed = check.sealed
    BY <1>7, <2>1, ProofKept
  <2>3. PICK a : check' = [check EXCEPT !.phase = "oracle", !.coverage = a]
    BY <1>7 DEF RunCoverage
  <2>4. check'.phase = "oracle" /\ check'.own = check.own /\ check'.shared = check.shared
    BY <2>1, <2>3 DEF CheckRecord
  <2>5. ran \subseteq ran'
    BY <1>7 DEF RunCoverage
  <2> QED  BY <2>1, <2>2, <2>4, <2>5
           DEF ProofInv, ReportIsAccounted, ProofIsOfARun, SaysWhatItSaw, Deciding
<1>8. CASE RunShared
  <2>1. check \in CheckRecord /\ check # NoCheck /\ check.phase = "unit"
    BY <1>8, InCheck DEF RunShared, In
  <2>2. check.own = NoRun /\ check.proof = NoProof
    BY <2>1 DEF StageInv, Remembered, ProofInv, ProofIsOfARun
  <2> DEFINE form == Form(setup.test = "vitest")
  <2>3. PICK run, verdict :
          /\ verdict = SharedVerdict(run)
          /\ check' = [check EXCEPT
               !.shared = run, !.proof = VitestProof(run), !.phase = verdict.phase,
               !.unit = verdict.unit, !.vacuous = verdict.vacuous]
          /\ ran' = ran \cup {run} /\ Leaves(run, form) /\ Reported(run, form)
    BY <1>8 DEF RunShared
  <2>4. PICK proof : proof = VitestProof(run)
                     /\ check' = [check EXCEPT
               !.shared = run, !.proof = proof, !.phase = verdict.phase,
               !.unit = verdict.unit, !.vacuous = verdict.vacuous]
    BY <2>3
  <2>5. /\ check'.shared = run /\ check'.own = NoRun /\ check'.proof = proof
        /\ check'.phase = verdict.phase /\ check'.sealed = check.sealed
        /\ check'.found = check.found
    BY <2>1, <2>2, <2>4 DEF CheckRecord
  <2>6. proof # NoProof => check.sealed /\ proof.cases = run.told
    BY <2>2, <2>4 DEF VitestProof, Captures
  <2>7. verdict.phase \in {"own", "coverage"}
    BY <2>3 DEF SharedVerdict
  <2>8. ReportIsAccounted' /\ UNCHANGED setup
    BY <2>1, <2>3, <2>5, LeavesAccounted DEF ProofInv, Reported, Proceeds, Falters
  <2>10. ProofIsOfARun'
    BY <2>3, <2>5, <2>6, <2>7 DEF ProofIsOfARun, Deciding
  <2> QED  BY <2>5, <2>7, <2>8, <2>10 DEF ProofInv, SaysWhatItSaw
<1>9. CASE RunOwn
  <2>1. check \in CheckRecord /\ check # NoCheck /\ check.phase \in {"own", "unit"}
        /\ UNCHANGED setup
    BY <1>9, InCheck DEF RunOwn, In, Reported, Proceeds, Falters
  <2>2. check'.proof = check.proof /\ check'.sealed = check.sealed
        /\ check'.found = check.found
    BY <1>9, <2>1, ProofKept
  <2> DEFINE form == Form(Guarded \/ Captures)
  <2>3. PICK run : /\ check' = [check EXCEPT !.own = run, !.phase = "captured"]
                   /\ ran' = ran \cup {run} /\ Leaves(run, form)
    BY <1>9 DEF RunOwn
  <2>4. check'.phase = "captured" /\ check'.shared = check.shared
    BY <2>1, <2>3 DEF CheckRecord
  <2>5. ReportIsAccounted'
    BY <2>1, <2>2, <2>3, LeavesAccounted DEF ProofInv
  <2>6. ProofIsOfARun'
    <3>1. check.phase = "own" => check.own = NoRun
      BY <2>1 DEF StageInv, Remembered
    <3> QED  BY <2>1, <2>2, <2>3, <2>4, <3>1 DEF ProofInv, ProofIsOfARun, Deciding
  <2> QED  BY <2>4, <2>5, <2>6 DEF ProofInv, SaysWhatItSaw
<1>10. CASE UnitAnswers
  <2>1. /\ check \in CheckRecord /\ check # NoCheck /\ check.phase = "captured"
        /\ UNCHANGED <<setup, ran, report>> /\ check.own # NoRun
    BY <1>10, InCheck DEF UnitAnswers, In, Proceeds, OwnHasRun
  <2>2. /\ check.own \in ran
        /\ ReportIsAccounted /\ ProofIsOfARun
    BY <2>1 DEF StageInv, Remembered, Mine, ProofInv
  <2>3. Untouched /\ check'.phase = "coverage"
    BY <1>10, <2>1, StepsOfStages
  <2>4. check'.proof = IF setup.test = "vitest" THEN VitestProof(check.own)
                       ELSE JUnitProof
    <3>1. PICK u, v, p :
            /\ check' = [check EXCEPT !.phase = "coverage", !.proof = p,
                                      !.vacuous = v, !.unit = u]
            /\ p = IF setup.test = "vitest" THEN VitestProof(check.own)
                   ELSE JUnitProof
      BY <1>10 DEF UnitAnswers
    <3>2. check'.proof = p
      BY <2>1, <3>1 DEF CheckRecord
    <3> QED  BY <3>1, <3>2
  <2>5. Deciding' = check.own
    BY <2>1, <2>3 DEF Deciding, Untouched
  <2>6. CASE setup.test = "vitest"
    <3>1. CASE ~Captures \/ check.own.told = NoReport
      <4>1. check'.proof = check.proof
        BY <2>4, <2>6, <3>1 DEF VitestProof
      <4>2. check.proof # NoProof => check.own.told = NoReport
        BY <2>2, <2>6, <3>1 DEF ProofIsOfARun, Captures
      <4>3. ProofIsOfARun'
        BY <2>1, <2>2, <2>3, <2>5, <2>6, <4>1, <4>2 DEF ProofIsOfARun, Untouched
      <4> QED  BY <2>3, <4>3 DEF ProofInv, ReportIsAccounted, SaysWhatItSaw
    <3>2. CASE Captures /\ check.own.told # NoReport
      <4>1. check'.proof.cases = check.own.told /\ check.sealed
        BY <2>4, <2>6, <3>2 DEF VitestProof, Captures
      <4> QED  BY <2>2, <2>1, <2>3, <2>5, <3>2, <4>1
               DEF ProofInv, ReportIsAccounted, ProofIsOfARun,
                   SaysWhatItSaw, Untouched
    <3> QED  BY <3>1, <3>2
  <2>7. CASE setup.test # "vitest"
    <3>1. CASE check'.proof = check.proof
      BY <2>2, <2>1, <2>3, <2>7, <3>1
      DEF ProofInv, ReportIsAccounted, ProofIsOfARun, SaysWhatItSaw,
          Untouched
    <3>2. CASE /\ check.sealed /\ report # check.found
               /\ check'.proof.cases = report
      <4>1. PICK run \in ran : run.told = report
        BY <2>1, <2>2, <3>2 DEF ReportIsAccounted
      <4> QED  BY <2>2, <2>1, <2>3, <2>7, <3>2, <4>1
               DEF ProofInv, ReportIsAccounted, ProofIsOfARun,
                   SaysWhatItSaw, Untouched
    <3> QED  BY <2>4, <2>7, <3>1, <3>2 DEF JUnitProof
  <2> QED  BY <2>6, <2>7
<1>11. CASE Conclude
  <2>1. /\ check \in CheckRecord /\ check # NoCheck /\ check.phase = "closing"
        /\ UNCHANGED <<setup, ran>>
    BY <1>11, InCheck DEF Conclude, In, Proceeds
  <2>2. check'.proof = check.proof /\ check'.sealed = check.sealed
    BY <1>11, <2>1, ProofKept
  <2>3. Untouched
    BY <1>11, <2>1, StepsOfStages
  <2>4. PICK says :
          /\ says = [c \in Criterion |->
                       IF check.proof # NoProof /\ c \in Bound
                       THEN Observed(check.proof, c) ELSE "unverified"]
          /\ check' = [check EXCEPT !.phase = "concluded", !.says = says]
    BY <1>11 DEF Conclude
  <2>5. check'.phase = "concluded" /\ check'.says = says
    BY <2>1, <2>4 DEF CheckRecord
  <2>6. SaysWhatItSaw'
    <3> SUFFICES ASSUME NEW c \in Criterion, says[c] = "verified"
                 PROVE  /\ check.proof # NoProof
                        /\ \E t \in check.proof.cases[c] :
                             Selector \in {t.name, t.title} /\ t.status = "pass"
                        /\ \A t \in check.proof.cases[c] :
                             t.name = Selector => t.status # "fail"
      BY <2>2, <2>5 DEF SaysWhatItSaw
    <3>1. check.proof # NoProof /\ Observed(check.proof, c) = "verified"
      BY <2>4
    <3> QED  BY <3>1, ObservedMeans
  <2>7. ReportIsAccounted' /\ ProofIsOfARun'
    BY <2>1, <2>2, <2>3, <2>5
    DEF ProofInv, ReportIsAccounted, ProofIsOfARun, Deciding, Untouched
  <2> QED  BY <2>6, <2>7 DEF ProofInv
<1>12. ASSUME NEW c \in Criterion, NEW file \in TestFile, EditTests(c, file)
       PROVE  ProofInv'
  BY <1>3, <1>12 DEF EditTests
<1>13. CASE UNCHANGED evidenceVars
  BY <1>3, <1>13 DEF evidenceVars
<1>14. CASE Leave \/ Kill \/ (SomeoneRuns /\ check = NoCheck)
  BY <1>1, <1>14 DEF Leave, Kill, SomeoneRuns
<1> QED  BY <1>2, <1>4, <1>6, <1>7, <1>8, <1>9, <1>10, <1>11, <1>12, <1>13, <1>14
         DEF EvidenceNext

\* A criterion is verified only on the word of a run of the suite since the
\* check began, with Vitest of the very run on which the unit stage decided.
THEOREM ProofIsOfThisCheck == EvidenceSpec => []VerifiedWasRun
<1>1. EvidenceInit => StageInv /\ ProofInv
  BY DEF EvidenceInit, StageInv, ProofInv
<1>2. ProofInv => VerifiedWasRun
  BY DEF ProofInv, ProofIsOfARun, SaysWhatItSaw, VerifiedWasRun, In
<1> QED  BY <1>1, <1>2, StageStep, ProofStep, EvidenceTypeCorrect, PTL
         DEF EvidenceSpec
-----------------------------------------------------------------------------
(* The report of the suite                                                 *)

\* Where a step leads: it neither renames the check nor forgets the report
\* that it keeps.
Leads(phases) ==
  /\ check \in CheckRecord /\ check # NoCheck
  /\ check'.phase \in phases /\ check'.no = check.no /\ check'.kept = check.kept

LEMMA FlagsTheReport ==
  ASSUME EvidenceTypeOK, DriftReads
  PROVE  Leads({"unit"}) /\ check'.flagged \subseteq Flagged
<1> DEFINE f == IF check.sealed THEN {} ELSE Flagged
<1>1. /\ check' = [check EXCEPT !.phase = "unit", !.flagged = f]
      /\ check \in CheckRecord /\ check # NoCheck
  BY InCheck DEF DriftReads, In
<1>2. f \subseteq Flagged
  OBVIOUS
<1> HIDE DEF f
<1> QED BY <1>1, <1>2 DEF Leads, CheckRecord

LEMMA WhereStepsLead ==
  ASSUME EvidenceTypeOK
  PROVE  /\ NoRunner \/ UnitAnswers => Leads({"coverage"})
         /\ RunOwn => Leads({"captured"})
         /\ FoldShared \/ NoCoverage \/ RunCoverage => Leads({"oracle"})
         /\ NoOracles \/ RestoreReport => Leads({"closing"})
         /\ RunOracles => Leads({"restoring"})
         /\ Conclude => Leads({"concluded"})
<1> USE DEF Leads, CheckRecord
<1>0. DriftReads \/ NoRunner \/ UnitAnswers \/ RunOwn \/ FoldShared
        \/ NoCoverage \/ RunCoverage \/ NoOracles \/ RestoreReport \/ RunOracles \/ Conclude
      => check \in CheckRecord /\ check # NoCheck
  BY InCheck DEF DriftReads, NoRunner, UnitAnswers, RunOwn, FoldShared, NoCoverage,
     RunCoverage, NoOracles, RestoreReport, RunOracles, Conclude, In
<1>1. ASSUME NoRunner PROVE Leads({"coverage"})
  BY <1>0, <1>1 DEF NoRunner
<1>2. ASSUME UnitAnswers PROVE Leads({"coverage"})
  <2>1. PICK proof, vacuous, unit :
          check' = [check EXCEPT !.phase = "coverage", !.proof = proof,
                                 !.vacuous = vacuous, !.unit = unit]
    BY <1>2 DEF UnitAnswers
  <2> QED BY <1>0, <1>2, <2>1
<1>3. ASSUME RunOwn PROVE Leads({"captured"})
  <2>1. PICK run : check' = [check EXCEPT !.own = run, !.phase = "captured"]
    BY <1>3 DEF RunOwn
  <2> QED BY <1>0, <1>3, <2>1
<1>4. ASSUME FoldShared \/ NoCoverage \/ RunCoverage PROVE Leads({"oracle"})
  <2>1. PICK a : check' = [check EXCEPT !.phase = "oracle", !.coverage = a]
    BY <1>4 DEF FoldShared, NoCoverage, RunCoverage
  <2> QED BY <1>0, <1>4, <2>1
<1>5. ASSUME NoOracles PROVE Leads({"closing"})
  BY <1>0, <1>5 DEF NoOracles
<1>6. ASSUME RestoreReport PROVE Leads({"closing"})
  BY <1>0, <1>6 DEF RestoreReport, Restored, Unrestored
<1>7. ASSUME RunOracles PROVE Leads({"restoring"})
  <2>1. PICK o : check' = [check EXCEPT !.phase = "restoring", !.oracle = o]
    BY <1>7 DEF RunOracles
  <2> QED BY <1>0, <1>7, <2>1
<1>8. ASSUME Conclude PROVE Leads({"concluded"})
  <2>1. PICK says : check' = [check EXCEPT !.phase = "concluded", !.says = says]
    BY <1>8 DEF Conclude
  <2> QED BY <1>0, <1>8, <2>1
<1> QED BY <1>1, <1>2, <1>3, <1>4, <1>5, <1>6, <1>7, <1>8

LEMMA SharedLeads ==
  ASSUME EvidenceTypeOK, RunShared
  PROVE  /\ Leads({"own", "coverage"})
         /\ temps' \subseteq temps \cup {<<check.no, "shared">>}
         /\ UNCHANGED <<report, full, hurt>> \/ report' = full'
         /\ UNCHANGED <<setup, killed>>
<1> DEFINE form == Form(setup.test = "vitest")
<1>1. PICK run :
        /\ check' = [check EXCEPT
             !.shared = run, !.proof = VitestProof(run),
             !.phase = SharedVerdict(run).phase, !.unit = SharedVerdict(run).unit,
             !.vacuous = SharedVerdict(run).vacuous]
        /\ Leaves(run, form) /\ Reported(run, form)
        /\ temps' = temps \cup Temporary(run, form, "shared")
  BY DEF RunShared
<1> DEFINE proof == VitestProof(run)
           verdict == SharedVerdict(run)
<1>2. verdict.phase \in {"own", "coverage"}
  BY DEF SharedVerdict
<1>3. check' = [check EXCEPT !.shared = run, !.proof = proof, !.phase = verdict.phase,
                             !.unit = verdict.unit, !.vacuous = verdict.vacuous]
  BY <1>1
<1> HIDE DEF proof, verdict, form
<1>4. check \in CheckRecord /\ check # NoCheck
  BY InCheck DEF RunShared, In
<1>5. Leads({"own", "coverage"})
  BY <1>2, <1>3, <1>4 DEF Leads, CheckRecord
<1> QED BY <1>1, <1>5 DEF Leaves, Temporary, Reported, Proceeds, Falters,
                          evidenceCounters

\* Until the oracle run the report is the suite's; in it the suite's is kept.
\* The report of the stage's own run is there only until it is judged.
TempsOf(stage, no) ==
  IF stage = "concluded" THEN {}
  ELSE {<<no, "shared">>} \cup IF stage = "captured" THEN {<<no, "own">>} ELSE {}

ReportInv ==
  /\ ~hurt => /\ ~In("restoring") => report = full
              /\ In("partial") \/ In("restoring") => check.kept = full
  /\ ~killed => temps \subseteq IF check = NoCheck THEN {} ELSE TempsOf(check.phase, check.no)

\* A step of a check that leads out of the oracle run's phases.
LEMMA StageKeepsReport ==
  ASSUME ReportInv, check' # NoCheck, NEW phases, Leads(phases),
         phases \cap {"partial", "restoring"} = {}, killed' = killed,
         check.phase # "restoring",
         UNCHANGED <<report, full, hurt>> \/ report' = full',
         \/ /\ temps' \subseteq temps \cup {<<check.no, "shared">>}
            /\ check.phase # "captured" /\ "concluded" \notin phases
         \/ temps' = temps \ {<<check.no, "own">>} /\ "concluded" \notin phases
         \/ temps' \subseteq temps \cup {<<check.no, "own">>} /\ phases = {"captured"}
         \/ temps' = temps \ {<<check.no, "shared">>} /\ check.phase = "closing"
  PROVE  ReportInv'
<1>1. report = full \/ hurt
  BY DEF ReportInv, Leads, In
<1>2. ~killed => temps \subseteq TempsOf(check.phase, check.no)
  BY DEF ReportInv, Leads
<1>3. ~killed => temps' \subseteq TempsOf(check'.phase, check'.no)
  BY <1>2 DEF TempsOf, Leads
<1> QED BY <1>1, <1>3 DEF ReportInv, Leads, In

LEMMA ReportStep ==
  ASSUME EvidenceTypeOK, OwnHasRun, ReportInv, [EvidenceNext]_evidenceVars
  PROVE  ReportInv'
<1>0. Advances => check' # NoCheck
  BY EvidenceTypeStep, CheckAssumption
<1> USE DEF Advances
<1>1. CASE DriftReads
  BY <1>0, <1>1, FlagsTheReport, StageKeepsReport
  DEF DriftReads, Proceeds, evidenceCounters, In
<1>2. CASE NoRunner
  BY <1>0, <1>2, WhereStepsLead, StageKeepsReport
  DEF NoRunner, Proceeds, evidenceCounters, In
<1>3. CASE RunShared
  BY <1>0, <1>3, SharedLeads, StageKeepsReport DEF RunShared, In
<1>4. CASE RunOwn
  <2> DEFINE form == Form(Guarded \/ Captures)
  <2>1. PICK run :
          /\ Leaves(run, form) /\ Reported(run, form)
          /\ temps' = temps \cup Temporary(run, form, "own")
    BY <1>4 DEF RunOwn
  <2>2. /\ UNCHANGED <<report, full, hurt>> \/ report' = full'
        /\ temps' \subseteq temps \cup {<<check.no, "own">>} /\ killed' = killed
    BY <2>1 DEF Leaves, Temporary, Reported, Proceeds, Falters, evidenceCounters
  <2> QED BY <1>0, <1>4, <2>2, WhereStepsLead, StageKeepsReport DEF RunOwn, In
<1>5. CASE UnitAnswers
  BY <1>0, <1>5, WhereStepsLead, StageKeepsReport
  DEF UnitAnswers, Proceeds, evidenceCounters, In
<1>6. CASE FoldShared \/ NoCoverage
  BY <1>0, <1>6, WhereStepsLead, StageKeepsReport
  DEF FoldShared, NoCoverage, Proceeds, evidenceCounters, In
<1>7. CASE RunCoverage
  <2> DEFINE form == Form(FALSE)
  <2>1. PICK run : Leaves(run, form) /\ Reported(run, form)
    BY <1>7 DEF RunCoverage
  <2>2. UNCHANGED <<report, full, hurt>> \/ report' = full'
    BY <2>1 DEF Leaves
  <2>3. killed' = killed
    BY <2>1 DEF Reported, Proceeds, Falters, evidenceCounters
  <2> QED BY <1>0, <1>7, <2>2, <2>3, WhereStepsLead, StageKeepsReport
          DEF RunCoverage, In
<1>8. CASE NoOracles
  BY <1>0, <1>8, WhereStepsLead, StageKeepsReport
  DEF NoOracles, Proceeds, evidenceCounters, In
<1>9. CASE Conclude
  BY <1>0, <1>9, WhereStepsLead, StageKeepsReport
  DEF Conclude, Proceeds, evidenceCounters, In
<1>10. CASE KeepReport
  <2>1. /\ check \in CheckRecord /\ check.phase = "oracle" /\ check # NoCheck
        /\ UNCHANGED <<report, temps, full, hurt, killed>>
    BY <1>10, InCheck DEF KeepReport, In, Proceeds, Falters, evidenceCounters
  <2>2. /\ check'.no = check.no
        /\ \/ check'.phase = "partial" /\ check'.kept = report
           \/ check'.phase = "closing"
    BY <1>10, <2>1 DEF KeepReport, CheckRecord
  <2> QED BY <1>0, <1>10, <2>1, <2>2 DEF ReportInv, In, TempsOf
<1>11. CASE RunOracles
  <2>1. Leads({"restoring"}) /\ check.phase = "partial"
        /\ UNCHANGED <<temps, full, hurt, killed>>
    BY <1>11, WhereStepsLead DEF RunOracles, In, Proceeds, evidenceCounters
  <2> QED BY <1>0, <1>11, <2>1 DEF ReportInv, In, TempsOf, Leads
<1>12. CASE RestoreReport
  <2>1. /\ Leads({"closing"}) /\ check.phase = "restoring"
        /\ UNCHANGED <<temps, full, killed>>
        /\ \/ hurt' = TRUE
           \/ report' = check.kept /\ hurt' = hurt
    BY <1>12, WhereStepsLead
    DEF RestoreReport, Restored, Unrestored, In, Proceeds, Falters, evidenceCounters
  <2> QED BY <1>0, <1>12, <2>1 DEF ReportInv, In, TempsOf, Leads
<1>13. CASE Prime
  <2>1. /\ check = NoCheck /\ check'.phase = "drift"
        /\ UNCHANGED <<report, temps, full, hurt, killed>>
    BY <1>13 DEF Prime
  <2> QED BY <2>1 DEF ReportInv, In, TempsOf
<1>14. CASE SomeoneRuns
  <2>1. /\ report' = full' /\ hurt' = (In("partial") \/ In("restoring"))
        /\ UNCHANGED <<check, temps, killed>>
    BY <1>14 DEF SomeoneRuns
  <2> QED BY <2>1 DEF ReportInv, In
<1>15. CASE Kill
  <2>1. /\ hurt' = (hurt \/ In("restoring")) /\ check' = NoCheck /\ killed' = TRUE
        /\ UNCHANGED <<report, full>>
    BY <1>15 DEF Kill
  <2> QED BY <2>1 DEF ReportInv, In
<1>16. CASE Leave
  BY <1>16 DEF Leave, ReportInv, In, TempsOf, Proceeds, evidenceCounters
<1>17. ASSUME NEW c \in Criterion, NEW f \in TestFile, EditTests(c, f)
       PROVE  ReportInv'
  BY <1>17 DEF EditTests, ReportInv, In
<1>18. CASE UNCHANGED evidenceVars
  BY <1>18 DEF evidenceVars, ReportInv, In
<1> QED BY <1>1, <1>2, <1>3, <1>4, <1>5, <1>6, <1>7, <1>8, <1>9, <1>10, <1>11, <1>12,
     <1>13, <1>14, <1>15, <1>16, <1>17, <1>18 DEF EvidenceNext

\* The partial run of the oracles leaves neither its report, unless its stage
\* says so, nor a temporary file behind, and what schema 0.1 flags is what the
\* last full run saw.
THEOREM ReportSurvives == EvidenceSpec => SuiteReportSurvives
<1> DEFINE Outlives ==
      /\ ReportIsOfTheSuite'
      /\ RestoreReport /\ ~hurt /\ report' # full' => check'.oracle = "fail"
      /\ DriftReads /\ ~hurt =>
           \A c \in check'.flagged :
             /\ full # NoReport
             /\ \/ full[c] = Unlisted
                \/ \E t \in full[c] : t.status = "fail"
                \/ \A t \in full[c] : t.status = "skip"
<1>1. EvidenceInit => ReportInv
  BY DEF EvidenceInit, ReportInv, In
<1>2. ASSUME ReportInv PROVE ReportIsOfTheSuite
  BY <1>2 DEF ReportInv, ReportIsOfTheSuite, TempsOf, In
<1>3. ASSUME EvidenceTypeOK, ReportInv, DriftReads, ~hurt, NEW c \in check'.flagged
      PROVE  /\ full # NoReport
             /\ \/ full[c] = Unlisted
                \/ \E t \in full[c] : t.status = "fail"
                \/ \A t \in full[c] : t.status = "skip"
  <2>1. report = full
    BY <1>3 DEF ReportInv, DriftReads, In
  <2>2. c \in Flagged
    BY <1>3, FlagsTheReport
  <2> QED BY <2>1, <2>2 DEF Flagged
<1>6. ASSUME EvidenceTypeOK, ReportInv, RestoreReport, ~hurt, report' # full'
      PROVE  check'.oracle = "fail"
  <2>1. check \in CheckRecord /\ check.kept = full /\ full' = full
    BY <1>6, InCheck DEF ReportInv, RestoreReport, In
  <2>2. ~Restored
    BY <1>6, <2>1 DEF Restored
  <2> QED  BY <1>6, <2>1, <2>2 DEF RestoreReport, Unrestored, CheckRecord
<1>4. ASSUME EvidenceTypeOK, ReportInv, ReportIsOfTheSuite' PROVE Outlives
  BY <1>3, <1>4, <1>6
<1> HIDE DEF Outlives
<1>5. [][Outlives]_evidenceVars => SuiteReportSurvives
  BY PTL DEF SuiteReportSurvives, Outlives
<1> QED BY <1>1, <1>2, <1>4, <1>5, ReportStep, EvidenceTypeCorrect, PTL DEF EvidenceSpec
=============================================================================
