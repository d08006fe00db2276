------------------------------ MODULE GateRun ------------------------------
(***************************************************************************)
(* A run of `clad check`, or of the gate inside `clad done`, on schema 0.2 *)
(* while people and agents go on editing: the plan sealed before the       *)
(* stages, the stages one after the other, the strict skip policy, the     *)
(* exemption of stale attestations, the reduction by the kernel, and the   *)
(* attestation rows written, retained or dropped.                          *)
(*                                                                         *)
(* What a stage finds is arbitrary, except that the drift stage does tell  *)
(* stale attestations.  One gate runs at a time.  A content stands for     *)
(* everything a feature's seals cover, proof receipts included.            *)
(***************************************************************************)
EXTENDS AssuranceKernel

CONSTANTS Content,    \* what the files of a feature can contain
          Absent,     \* they are missing
          NoTarget,   \* the run is not a completion
          NoRow,      \* the feature has no attestation
          Linked,     \* features that depend on each other or share a file
          Outcome,    \* what the runner of each stage can report
          Request,    \* the runs that are asked for
          FirstState, \* contents, done features, rows and counters at first
          MaxRuns, MaxEdits  \* bounds

VARIABLES code,  \* contents of each feature
          done,  \* the features whose shard says done
          rows,  \* the attestation of each feature
          file,  \* whether the attestation file exists
          run,   \* the gate that is running
          changes,     \* history: edits of each feature during the run
          runs, edits  \* counters for the bounds

gateVars == <<code, done, rows, file, run, changes, runs, edits>>

NoRun == [phase |-> "none"]
ProofChannel == {"test", "blind", "audit", "uat"}
Proof == {"verified", "failed", "unverified"}
NoProof == [c \in ProofChannel |-> [f \in Subject |-> "unverified"]]
NoChanges == [f \in Subject |-> 0]

\* What a row is sealed to: the contents of a scope, and what was done in it.
InputSet == [profile : Profile,
             facts : UNION {[S -> (Content \cup {Absent}) \X BOOLEAN] :
                              S \in SUBSET Subject}]
Row == [profile : Authoritative, inputs : InputSet, seal : Content \cup {Absent}]

ASSUME GateAssumption ==
  /\ Absent \notin Content
  /\ NoTarget \notin Subject
  /\ NoRow \notin Row
  /\ Linked \subseteq Subject \X Subject
  /\ "drift" \in Registry
  /\ Outcome \in [Registry -> SUBSET GateStatus]
  /\ MaxRuns \in Nat /\ MaxEdits \in Nat

ASSUME EnvironmentAssumption ==
  /\ Request \subseteq [profile : Profile, target : Subject \cup {NoTarget},
                         strict : BOOLEAN, silent : BOOLEAN]
  /\ \A r \in Request : r.profile = "completion" <=> r.target # NoTarget
  /\ FirstState \subseteq
       [code : [Subject -> Content \cup {Absent}], done : SUBSET Subject,
        rows : [Subject -> Row \cup {NoRow}], file : BOOLEAN,
        runs : 0..MaxRuns, edits : 0..MaxEdits]
-----------------------------------------------------------------------------
(* The plan: scope, whether its closure is known, and its inputs           *)

\* effectiveFeatureScope: the features reached from a set over links.
Closure(S) ==
  {f \in Subject : \A T \in SUBSET Subject :
     /\ S \subseteq T
     /\ \A link \in Linked : link[1] \in T <=> link[2] \in T
     => f \in T}

RequestedScope(profile, target) ==
  IF profile = "completion" THEN Closure({target}) ELSE Subject

\* A done feature whose files are missing has no closure: the run widens to
\* the whole repository and cannot be complete.
Unknown(scope, view) == {f \in scope \cap view : code[f] = Absent}

Inputs(profile, scope, view) ==
  [profile |-> profile,
   facts |-> [f \in scope |-> <<code[f], f \in view>>]]

Plan(profile, target, view) ==
  LET requested == RequestedScope(profile, target)
      complete == Unknown(requested, view) = {}
      scope == IF complete THEN requested ELSE Subject
  IN [scope |-> scope, complete |-> complete,
      inputs |-> Inputs(profile, scope, view)]

\* The gate of a completion sees its target as done already.
DoneView(target) == done \cup ({target} \ {NoTarget})
-----------------------------------------------------------------------------
(* Attestation rows                                                        *)

\* STALE_ATTESTATION: done features whose row is missing or does not match.
Stale(view) ==
  IF ~file THEN {}
  ELSE {f \in view : rows[f] = NoRow \/ rows[f].seal # code[f]}

RowFor(f) == [profile |-> run.profile, inputs |-> run.plan.inputs,
              seal |-> code[f]]

\* mergeCurrentV3: a row this gate did not earn may stay if its own profile,
\* evaluated now, covers the same scope and the same inputs.
Retained(f, view) ==
  /\ f \in view
  /\ rows[f] # NoRow
  /\ LET scope == RequestedScope(rows[f].profile, f) IN
     /\ Unknown(scope, view) = {}
     /\ rows[f].inputs = Inputs(rows[f].profile, scope, view)
     /\ rows[f].seal = code[f]

Merged(entries, view) ==
  [f \in Subject |-> IF f \in entries THEN RowFor(f)
                     ELSE IF Retained(f, view) THEN rows[f] ELSE NoRow]
-----------------------------------------------------------------------------
GateInit ==
  /\ \E first \in FirstState :
       /\ code = first.code /\ done = first.done
       /\ rows = first.rows /\ file = first.file
       /\ runs = first.runs /\ edits = first.edits
  /\ run = NoRun
  /\ changes = NoChanges

\* runCheckStages: the plan is sealed before any stage runs.
Start ==
  /\ runs < MaxRuns
  /\ run = NoRun
  /\ \E r \in Request :
       /\ r.target \notin done
       /\ run' = [phase |-> "stages", profile |-> r.profile,
                  target |-> r.target, strict |-> r.strict,
                  silent |-> r.silent, done |-> done,
                  plan |-> Plan(r.profile, r.target, DoneView(r.target)),
                  status |-> [s \in Obligations(r.profile) |-> "unrun"],
                  saw |-> [s \in Obligations(r.profile) |-> code],
                  proof |-> NoProof, stale |-> {}, other |-> FALSE,
                  exempted |-> FALSE, verdict |-> "none", failed |-> FALSE,
                  entries |-> {}]
  /\ changes' = NoChanges /\ runs' = runs + 1
  /\ UNCHANGED <<code, done, rows, file, edits>>

Pending == {s \in DOMAIN run.status : run.status[s] = "unrun"}
IsNext(s) == s \in Pending /\ \A t \in Pending : Order[s] <= Order[t]

\* Warn-class findings block a profile that claims something, or a strict run.
WarnBlocks == run.strict \/ run.profile \in Authoritative

Drift ==
  /\ run.phase = "stages" /\ "drift" \in Pending /\ IsNext("drift")
  /\ \E other \in BOOLEAN :
       LET stale == Stale(DoneView(run.target)) IN
       run' = [run EXCEPT !.stale = stale, !.other = other,
                 !.saw["drift"] = code,
                 !.status["drift"] =
                    IF other \/ (stale # {} /\ WarnBlocks)
                    THEN "fail" ELSE "pass"]
  /\ UNCHANGED <<code, done, rows, file, changes, runs, edits>>

\* Architecture and secrets are what drift's detectors published in the
\* cache of the run, where drift ran; they do not look again.
Reuse(s) ==
  /\ run.phase = "stages" /\ s \in {"arch", "secret"} /\ IsNext(s)
  /\ \E status \in Outcome[s] :
       run' = [run EXCEPT !.status[s] = status,
                 !.saw[s] = IF "drift" \in DOMAIN run.saw
                            THEN run.saw["drift"] ELSE code]
  /\ UNCHANGED <<code, done, rows, file, changes, runs, edits>>

Execute(s) ==
  /\ run.phase = "stages" /\ s \notin {"drift", "arch", "secret"} /\ IsNext(s)
  /\ \E status \in Outcome[s] :
       run' = [run EXCEPT !.status[s] = status, !.saw[s] = code]
  /\ UNCHANGED <<code, done, rows, file, changes, runs, edits>>

\* strictSkipViolations: what the done features demand may not be skipped.
Demanded(s) ==
  LET view == DoneView(run.target) IN
  \/ s = "type" /\ view # {}
  \/ s = "unit" /\ view \cap Tested # {}
  \/ s = "conformance" /\ view \cap OracleDemanded # {}

AfterSkipPolicy ==
  [s \in DOMAIN run.status |->
     IF run.strict /\ run.status[s] = "skip" /\ Demanded(s) THEN "fail"
     ELSE run.status[s]]

\* exemptSolelyStaleAttestation: this run is the cure of what it found.
Exempts(status) ==
  /\ run.profile \in Authoritative
  /\ "drift" \in DOMAIN status /\ status["drift"] = "fail"
  /\ run.stale # {} /\ ~run.other
  /\ \A s \in DOMAIN status \ {"drift"} : ~IsBlocking(status[s])

\* The criteria whose proof a stage of this run reads, by channel.
Asked ==
  LET scoped == [scope |-> run.plan.scope, done |-> DoneView(run.target)]
      of == [test |-> Criteria(scoped), blind |-> OracleCriteria(scoped),
             audit |-> Criteria(scoped), uat |-> Criteria(scoped)]
  IN {ask \in {<<Channel[s], f>> : s \in DOMAIN run.status \cap ProofStage,
                                   f \in Subject} : ask[2] \in of[ask[1]]}

\* What the report of this run's tests and the receipts say of them.
Evidence ==
  {[c \in ProofChannel |-> [f \in Subject |->
      IF <<c, f>> \in Asked THEN says[<<c, f>>] ELSE "unverified"]] :
     says \in [Asked -> Proof]}

View(status, proof, stable) ==
  [profile |-> run.profile, complete |-> stable, scope |-> run.plan.scope,
   done |-> DoneView(run.target), status |-> status, proof |-> proof]

\* Mutant: only features that have a row are attested again.
Renewals(replaced) == {f \in replaced : rows[f] # NoRow}

\* createWorkspaceAttestations: of the features whose rows the run may
\* replace, those that are done.
Owed(replaced) == replaced \cap DoneView(run.target)

Replaced == IF run.profile = "completion" THEN {run.target} ELSE run.plan.scope

Judge ==
  /\ run.phase = "stages" /\ Pending = {}
  /\ LET demanded == AfterSkipPolicy
         exempts == Exempts(demanded)
         status == IF exempts THEN [demanded EXCEPT !["drift"] = "pass"]
                   ELSE demanded
         now == Plan(run.profile, run.target, DoneView(run.target))
         stable == run.plan.complete /\ now.complete /\ now.inputs = run.plan.inputs
     IN \E proof \in Evidence :
          LET view == View(status, proof, stable)
              verdict == State(view) IN
          run' = [run EXCEPT !.phase = "judged",
                    !.status = status, !.proof = proof, !.exempted = exempts,
                    !.verdict = verdict,
                    !.failed =
                       \/ \E s \in DOMAIN status : IsBlocking(status[s])
                       \/ run.profile # "feedback" /\ verdict # "green",
                    !.entries = IF verdict = "green" /\ HasAuthority(view) THEN Owed(Replaced) ELSE {}]
  /\ UNCHANGED <<code, done, rows, file, changes, runs, edits>>

Stamps == run.entries # {} /\ ~run.failed /\ ~run.silent

\* The run ends without a record: failed, a silent poll, nothing owed, or a
\* git operation in progress.
Finish ==
  /\ run.phase = "judged"
  /\ run' = NoRun /\ changes' = NoChanges
  /\ UNCHANGED <<code, done, rows, file, runs, edits>>

\* Mutant: the writer trusts what the gate captured.
TrustsTheGate == TRUE

\* The writer, under the workspace lock, sees the sources and the closure
\* the gate started from.
SnapshotMatches ==
  /\ done = run.done
  /\ LET now == Plan(run.profile, run.target, DoneView(run.target)) IN
     now.complete /\ now.inputs = run.plan.inputs

\* writeAttestation; a completion publishes its status along with its row.
Stamp ==
  /\ run.phase = "judged"
  /\ Stamps /\ SnapshotMatches
  /\ rows' = Merged(run.entries, DoneView(run.target))
  /\ file' = TRUE
  /\ done' = DoneView(run.target)
  /\ run' = NoRun /\ changes' = NoChanges
  /\ UNCHANGED <<code, runs, edits>>
-----------------------------------------------------------------------------
(* Everybody else                                                          *)

EditCode(f, content) ==
  /\ edits < MaxEdits
  /\ content # code[f]
  /\ code' = [code EXCEPT ![f] = content]
  /\ changes' = IF run = NoRun THEN NoChanges ELSE [changes EXCEPT ![f] = @ + 1]
  /\ edits' = edits + 1
  /\ UNCHANGED <<done, rows, file, run, runs>>

\* feature.begin on a done feature; its row stays behind.
Reopen(f) ==
  /\ edits < MaxEdits
  /\ f \in done
  /\ done' = done \ {f}
  /\ edits' = edits + 1
  /\ UNCHANGED <<code, rows, file, run, changes, runs>>

GateNext ==
  \/ Start \/ Drift
  \/ \E s \in Registry : Reuse(s) \/ Execute(s)
  \/ Judge \/ Finish \/ Stamp
  \/ \E f \in Subject :
       Reopen(f) \/ \E content \in Content \cup {Absent} : EditCode(f, content)

GateSpec == GateInit /\ [][GateNext]_gateVars
-----------------------------------------------------------------------------
RunRecord ==
  [phase : {"stages", "judged"}, profile : Profile,
   target : Subject \cup {NoTarget}, strict : BOOLEAN, silent : BOOLEAN,
   done : SUBSET Subject,
   plan : [scope : SUBSET Subject, complete : BOOLEAN, inputs : InputSet],
   status : UNION {[S -> GateStatus \cup {"unrun"}] : S \in SUBSET Registry},
   saw : UNION {[S -> [Subject -> Content \cup {Absent}]] : S \in SUBSET Registry},
   proof : [ProofChannel -> [Subject -> Proof]],
   stale : SUBSET Subject, other : BOOLEAN, exempted : BOOLEAN,
   verdict : {"none", "red", "unresolved", "green"}, failed : BOOLEAN,
   entries : SUBSET Subject]

GateTypeOK ==
  /\ code \in [Subject -> Content \cup {Absent}]
  /\ done \subseteq Subject
  /\ rows \in [Subject -> Row \cup {NoRow}]
  /\ file \in BOOLEAN
  /\ changes \in [Subject -> Nat]
  /\ runs \in 0..MaxRuns /\ edits \in 0..MaxEdits
  /\ run \in RunRecord \cup {NoRun}
  /\ run # NoRun =>
       /\ DOMAIN run.status = Obligations(run.profile)
       /\ DOMAIN run.saw = Obligations(run.profile)

\* The features a run answered for: done when it began, or its target.
Claimed == run.plan.scope \cap (run.done \cup ({run.target} \ {NoTarget}))

\* A green verdict means that every stage no fact can excuse passed in this
\* run, and that every criterion of every feature the run answers for was
\* proved by a runner that passed, or rests on its migration receipt beside
\* one.  A skipped runner, an unknown closure, a feature reopened or files
\* changed meanwhile never make green.
GreenIsObserved ==
  run.phase = "judged" /\ run.verdict = "green" =>
    /\ \A s \in DOMAIN run.status : Kind[s] = "always" => run.status[s] = "pass"
    /\ \A s \in DOMAIN run.status, f \in Claimed \cap Tested :
         /\ s \in {"unit", "coverage"} =>
              /\ run.status[s] = "pass"
              /\ \/ run.proof["test"][f] = "verified"
                 \/ run.proof["test"][f] = "unverified" /\ f \in Baselined
         /\ s = "conformance" /\ f \in OracleDemanded =>
              run.status[s] = "pass" /\ run.proof["blind"][f] = "verified"

\* A run that is green for a profile that claims something can be recorded:
\* each feature it claims is owed a row and gets it.  A scope in which no
\* done feature has a criterion is left out: unit and coverage then have two
\* rows under one key, and no such run is ever recorded.
NoTestCriteria ==
  /\ Claimed \cap Tested = {}
  /\ {"unit", "coverage"} \cap DOMAIN run.status # {}

GreenIsRecordable ==
  /\ run.phase = "judged" /\ run.verdict = "green"
  /\ run.profile \in Authoritative
  /\ ~NoTestCriteria
  => Claimed \cap Replaced \subseteq run.entries

\* Green is neither a guess nor an empty word: it was observed, and it can be
\* recorded.
GreenStands == GreenIsObserved /\ GreenIsRecordable

\* Whenever rows are written, every row in the file, new or retained, is of
\* a done feature and describes the contents of its whole scope as they are
\* now; and the stages behind a new one, those that reused findings too, saw
\* these contents, unless a feature was changed twice meanwhile, so that its
\* contents can have come back.
RowsDescribeTheCode ==
  [][rows' # rows =>
       \A f \in Subject : rows'[f] # NoRow =>
         /\ f \in done' /\ rows'[f].seal = code'[f]
         /\ LET facts == rows'[f].inputs.facts IN
            \A g \in DOMAIN facts :
              /\ facts[g] = <<code'[g], g \in done'>>
              /\ f \in run.entries /\ changes[g] < 2 =>
                   \A s \in DOMAIN run.saw : run.saw[s][g] = code'[g]]_gateVars

\* The exemption keeps its promise: a repository-wide run that ignored
\* stale attestations as its own to renew, and records, leaves no done
\* feature without an attestation of its present contents.
ExemptionReattests ==
  [][Stamp /\ run.exempted /\ run.profile \in {"push", "release"} =>
       \A f \in done' : rows'[f] # NoRow /\ rows'[f].seal = code'[f]]_gateVars
=============================================================================
