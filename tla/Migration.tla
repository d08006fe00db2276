------------------------------ MODULE Migration ------------------------------
(***************************************************************************)
(* clad migrate: a workspace of schema 0.1 is converted to 0.2 in one      *)
(* journal, from decisions that an operator took over a preview.  The      *)
(* decisions are bound to the preview; the conversion reads the sources    *)
(* again.  Beside it people edit shards and tests without a lock, commit   *)
(* to git, and schema-0.1 completions write `done` before it is earned.    *)
(*                                                                         *)
(* A feature has one criterion.  Its shard is a status, a wording and the  *)
(* rest; a strict one has a kind and no longer the exemption of legacy     *)
(* wordings.  Capabilities, scenarios and architecture are left out: they  *)
(* are decided, converted and compared the same way.                       *)
(***************************************************************************)
EXTENDS FiniteSets, Functions, Naturals

CONSTANTS Legacy,    \* the features
          Operator,  \* people who run clad migrate
          Wording,   \* what criteria say
          Unclear,   \* wordings that need a decision
          Rest,      \* the other fields of a shard
          Historic,  \* features whose criterion names a test file
          Pinned,    \* and names a test in it
          Blind,     \* features with evidence a `require` policy would lose
          FirstShards, \* the shards to begin with
          NoReview, NoTrial, NoApply, NoBaseline,
          MaxAlone   \* bound: steps of people with an editor

VARIABLES schema,
          shard,    \* the feature shards on disk
          head,     \* and in git's last commit
          repo,     \* whether there is a git repository
          carried,  \* features whose criterion is in the title of a test
          trial,    \* the schema-0.1 completion of each feature
          baseline, \* the migration baseline
          review,   \* what each operator has seen and decided
          apply,    \* the migration that holds the lock
          earned,   \* history: features whose `done` had passed a gate
          agreed,   \* history: the wordings accepted for the L2 baseline
          doubtful, \* history: features with a trial when it was accepted
          returned, \* history: changed while it is converted, and back again
          alone     \* counter for the bound

migrationVars == <<schema, shard, head, repo, carried, trial, baseline, review,
                   apply, earned, agreed, doubtful, returned, alone>>

ShardStatus == {"in_progress", "done"}
FeatureShard == [status : ShardStatus, wording : Wording, strict : BOOLEAN, rest : Rest]

\* What is known of some of the features.
Partly(S) == UNION {[D -> S] : D \in SUBSET Legacy}

Trials == [before : ShardStatus, marked : FeatureShard]
Baselines == [legacy : [Legacy -> Wording], retained : Partly(Wording),
              authorized : Partly([wording : Wording, strict : BOOLEAN])]

ASSUME MigrationAssumption ==
  /\ Unclear \subseteq Wording
  /\ Pinned \subseteq Historic /\ Historic \subseteq Legacy
  /\ Blind \subseteq Legacy
  /\ FirstShards \subseteq [Legacy -> {s \in FeatureShard : ~s.strict}]
  /\ NoTrial \notin Trials
  /\ NoBaseline \notin Baselines
  /\ MaxAlone \in Nat

DoneIn(view) == {f \in Legacy : view[f].status = "done"}

\* Criteria whose text conflicts with their EARS fields, or is missing.
Undecided(view) == {f \in Legacy : view[f].wording \in Unclear}

\* A strict wording for each of them, and whether to keep its historic test.
Resolutions(view) ==
  [Undecided(view) -> [wording : Wording \ Unclear, retain : BOOLEAN]]
-----------------------------------------------------------------------------
MigrationInit ==
  /\ schema = "0.1"
  /\ shard \in FirstShards
  /\ head = shard
  /\ repo \in BOOLEAN
  /\ carried \in SUBSET Legacy
  /\ trial = [f \in Legacy |-> NoTrial]
  /\ baseline = NoBaseline
  /\ review = [o \in Operator |-> NoReview]
  /\ apply = NoApply
  /\ earned = DoneIn(shard)
  /\ agreed = {} /\ doubtful = {} /\ returned = {} /\ alone = 0
-----------------------------------------------------------------------------
(* What a criterion rests on                                               *)

Strictly(f) == [wording |-> shard[f].wording, strict |-> shard[f].strict]

\* legacyExemptionMatches and legacyIntentMatches
StillLegacy(f) == ~shard[f].strict /\ shard[f].wording = baseline.legacy[f]

\* reviewedCarryForwardMatches
StillReviewed(f) ==
  /\ f \in DOMAIN baseline.retained
  /\ shard[f].strict /\ shard[f].wording = baseline.retained[f]

\* selectCriterionTestBindings: where the tests of a criterion come from.
Selected(f) ==
  IF f \in carried THEN "live"
  ELSE IF baseline = NoBaseline THEN "none"
  ELSE IF StillReviewed(f) THEN "reviewed"
  ELSE IF f \in Historic /\ StillLegacy(f) THEN "legacy"
  ELSE "none"

\* Mutant: what the criterion says today is not compared.
StandsInForAny(f) ==
  /\ baseline # NoBaseline
  /\ f \in DOMAIN baseline.authorized
  /\ f \notin carried

\* migrationBaselineCandidatesFromWorkspace: the receipt of the migration
\* stands in for what an L2 project asks of a completed criterion, unless
\* there is a mechanism to observe.
StandsIn(f) ==
  /\ baseline # NoBaseline
  /\ f \in DOMAIN baseline.authorized
  /\ baseline.authorized[f] = Strictly(f)
  /\ f \notin carried
  /\ ~(f \in Pinned /\ (StillReviewed(f) \/ StillLegacy(f)))
-----------------------------------------------------------------------------
(* The operator                                                            *)

\* previewSchema02Migration reads until two manifests agree, so that a preview
\* is of one state; the operator then decides everything it leaves open.
Preview(o) ==
  /\ schema = "0.1" /\ review[o] = NoReview
  /\ \E accept \in BOOLEAN, resolved \in Resolutions(shard) :
       review' = [review EXCEPT ![o] =
                    [view |-> shard, accept |-> accept, resolved |-> resolved]]
  /\ UNCHANGED <<schema, shard, head, repo, carried, trial, baseline, apply,
                 earned, agreed, doubtful, returned, alone>>

\* Completed criteria that give up their historic test.
Dropping(r) ==
  {f \in Historic \cap DoneIn(r.view) \cap DOMAIN r.resolved :
     ~r.resolved[f].retain}

\* applyMigration up to the conversion: the digest of the preview under the
\* lock is that of the decisions, and whatever drops its test is carried.
Begin(o) ==
  /\ apply = NoApply /\ schema = "0.1" /\ review[o] # NoReview
  /\ shard = review[o].view
  /\ DoneIn(shard) \cap Blind = {}
  /\ Dropping(review[o]) \subseteq carried
  /\ apply' = [by |-> o, source |-> <<>>, original |-> <<>>, live |-> carried,
               checked |-> FALSE]
  /\ UNCHANGED <<schema, shard, head, repo, carried, trial, baseline, review,
                 earned, agreed, doubtful, returned, alone>>

Converting == apply # NoApply /\ ~apply.checked

\* The conversion reads each shard once for its fields ...
ReadSource(f) ==
  /\ Converting /\ f \notin DOMAIN apply.source
  /\ DOMAIN apply.source = DOMAIN apply.original
  /\ apply' = [apply EXCEPT !.source =
                 [g \in DOMAIN @ \cup {f} |-> IF g = f THEN shard[f] ELSE @[g]]]
  /\ UNCHANGED <<schema, shard, head, repo, carried, trial, baseline, review,
                 earned, agreed, doubtful, returned, alone>>

\* ... and once more for the bytes that the journal will expect.
ReadOriginal(f) ==
  /\ Converting /\ f \in DOMAIN apply.source \ DOMAIN apply.original
  /\ apply' = [apply EXCEPT !.original =
                 [g \in DOMAIN @ \cup {f} |-> IF g = f THEN shard[f] ELSE @[g]]]
  /\ UNCHANGED <<schema, shard, head, repo, carried, trial, baseline, review,
                 earned, agreed, doubtful, returned, alone>>

\* Mutant: the preview is not taken a second time.
SamePreviewAsBegun(r) == DoneIn(apply.source) = DoneIn(r.view)

\* The census of completed criteria, then the whole preview again.
SamePreview(r) == DoneIn(apply.source) = DoneIn(r.view) /\ shard = r.view

Recheck ==
  /\ Converting /\ DOMAIN apply.original = Legacy
  /\ SamePreview(review[apply.by])
  /\ apply' = [apply EXCEPT !.checked = TRUE]
  /\ UNCHANGED <<schema, shard, head, repo, carried, trial, baseline, review,
                 earned, agreed, doubtful, returned, alone>>

\* The wording was previewed or decided; the other fields are read again.
Converted(r, source) ==
  [f \in Legacy |->
     [status |-> source[f].status, rest |-> source[f].rest,
      strict |-> f \in DOMAIN r.resolved,
      wording |-> IF f \in DOMAIN r.resolved THEN r.resolved[f].wording
                  ELSE r.view[f].wording]]

Receipt(r, source) ==
  LET intent == Converted(r, source)
      kept == {f \in Historic \cap DOMAIN r.resolved : r.resolved[f].retain}
  IN [legacy |-> [f \in Legacy |-> r.view[f].wording],
      retained |-> [f \in kept |-> intent[f].wording],
      authorized |->
        [f \in IF r.accept THEN DoneIn(source) ELSE {} |->
           [wording |-> intent[f].wording, strict |-> intent[f].strict]]]

\* Mutant: the tests are not read again before the publication.
ProofAsBegun(r) == TRUE

\* migrationLiveProofCensusMatches, if anything is dropped.
ProofUnmoved(r) == Dropping(r) # {} => carried = apply.live

\* Clean in git, the same tests, and in every file the bytes the journal
\* expects: everything is replaced in one transaction.
Migrate ==
  /\ apply # NoApply /\ apply.checked
  /\ repo => shard = head
  /\ LET r == review[apply.by] IN
     /\ ProofUnmoved(r)
     /\ shard = apply.original
     /\ shard' = Converted(r, apply.source)
     /\ baseline' = Receipt(r, apply.source)
     /\ agreed' = IF ~r.accept THEN {}
                  ELSE {<<f, Converted(r, r.view)[f].wording>> : f \in Legacy}
  /\ doubtful' = {f \in Legacy : trial[f] # NoTrial}
  /\ schema' = "0.2"
  /\ apply' = NoApply /\ returned' = {}
  /\ review' = [review EXCEPT ![apply.by] = NoReview]
  /\ UNCHANGED <<head, repo, carried, trial, earned, alone>>

\* Any refusal or the death of the process, which has written nothing; a new
\* attempt is over a new preview, or over the same one if it still holds.
GiveUp(o) ==
  /\ review[o] # NoReview
  /\ IF apply # NoApply /\ apply.by = o THEN apply' = NoApply /\ returned' = {}
     ELSE UNCHANGED <<apply, returned>>
  /\ review' = [review EXCEPT ![o] = NoReview]
  /\ UNCHANGED <<schema, shard, head, repo, carried, trial, baseline, earned,
                 agreed, doubtful, alone>>
-----------------------------------------------------------------------------
(* Beside it                                                               *)

WithStatus(f, status) == shard' = [shard EXCEPT ![f].status = status]

\* markFeatureDoneForGate under schema 0.1; its process may also die here.
\* Overlapping attempts are LegacyDoneGate's.
MarkDone(f) ==
  /\ apply = NoApply /\ schema = "0.1" /\ trial[f] = NoTrial
  /\ WithStatus(f, "done")
  /\ trial' = [trial EXCEPT ![f] = [before |-> shard[f].status,
                                      marked |-> shard'[f]]]
  /\ UNCHANGED <<schema, head, repo, carried, baseline, review, apply, earned,
                 agreed, doubtful, returned, alone>>

\* finalizeFeatureDoneForGate keeps the bytes its gate has passed, and
\* nothing that has been converted since.
Pass(f) ==
  /\ apply = NoApply /\ trial[f] # NoTrial /\ shard[f] = trial[f].marked
  /\ schema = "0.1"
  /\ earned' = earned \cup {f}
  /\ trial' = [trial EXCEPT ![f] = NoTrial]
  /\ UNCHANGED <<schema, shard, head, repo, carried, baseline, review, apply,
                 agreed, doubtful, returned, alone>>

\* It, or restoreFailedDoneForGate, takes the status back from anything else.
TakeBack(f) ==
  /\ apply = NoApply /\ trial[f] # NoTrial
  /\ IF shard[f].status = "done" THEN WithStatus(f, trial[f].before)
     ELSE UNCHANGED shard
  /\ trial' = [trial EXCEPT ![f] = NoTrial]
  /\ UNCHANGED <<schema, head, repo, carried, baseline, review, apply, earned,
                 agreed, doubtful, returned, alone>>

\* A completion under schema 0.2: something was observed, or is stood in for.
CompleteUnder02(f) ==
  /\ apply = NoApply /\ schema = "0.2" /\ shard[f].status # "done"
  /\ Selected(f) # "none" \/ StandsIn(f)
  /\ WithStatus(f, "done")
  /\ UNCHANGED <<schema, head, repo, carried, trial, baseline, review, apply,
                 earned, agreed, doubtful, returned, alone>>

\* A person changes one thing in a shard, but does not claim it is done.
Touch(f) ==
  /\ alone < MaxAlone /\ alone' = alone + 1
  /\ \/ \E w \in Wording : shard' = [shard EXCEPT ![f].wording = w]
     \/ \E r \in Rest : shard' = [shard EXCEPT ![f].rest = r]
     \/ WithStatus(f, "in_progress")
  /\ shard' # shard
  /\ earned' = IF schema = "0.1" THEN earned \cap DoneIn(shard') ELSE earned
  /\ returned' = IF apply # NoApply /\ shard'[f] = review[apply.by].view[f]
                 THEN returned \cup {f} ELSE returned
  /\ UNCHANGED <<schema, head, repo, carried, trial, baseline, review, apply,
                 agreed, doubtful>>

\* A test gets or loses the title that names the criterion.
Retitle(f) ==
  /\ alone < MaxAlone /\ alone' = alone + 1
  /\ carried' = IF f \in carried THEN carried \ {f} ELSE carried \cup {f}
  /\ UNCHANGED <<schema, shard, head, repo, trial, baseline, review, apply,
                 earned, agreed, doubtful, returned>>

GitCommit ==
  /\ repo /\ head # shard
  /\ alone < MaxAlone /\ alone' = alone + 1
  /\ head' = shard
  /\ UNCHANGED <<schema, shard, repo, carried, trial, baseline, review, apply,
                 earned, agreed, doubtful, returned>>

MigrationNext ==
  \/ \E o \in Operator : Preview(o) \/ Begin(o) \/ GiveUp(o)
  \/ \E f \in Legacy :
       \/ ReadSource(f) \/ ReadOriginal(f)
       \/ MarkDone(f) \/ Pass(f) \/ TakeBack(f) \/ CompleteUnder02(f)
       \/ Touch(f) \/ Retitle(f)
  \/ Recheck \/ Migrate \/ GitCommit

MigrationSpec == MigrationInit /\ [][MigrationNext]_migrationVars
-----------------------------------------------------------------------------
\* The specification that a migration writes is the operator's: each shard is
\* what its preview showed, converted as decided, whatever has happened to the
\* files since.  The exception is a shard whose bytes changed while it was
\* converted and came back before they were compared.
ConvertsWhatWasReviewed ==
  [][schema' # schema =>
       \A f \in Legacy :
         \/ shard'[f] = Converted(review[apply.by], review[apply.by].view)[f]
         \/ f \in returned]_migrationVars

\* No completed criterion loses its historic test in the migration without
\* another one that takes its place.
DoneKeepsItsProof ==
  [][schema' # schema =>
       \A f \in Historic \cap DoneIn(shard') :
         Selected(f)' # "none"]_migrationVars

\* The receipt stands in only for a criterion that says what the operator
\* accepted, of a feature that had passed a gate before the migration; unless
\* a schema-0.1 completion was under way, or had died, when it was converted.
\* Its `done` was provisional; a red gate takes it back, but not the receipt.
StandsInForTheEarned ==
  \A f \in Legacy : StandsIn(f) =>
    /\ <<f, shard[f].wording>> \in agreed
    /\ f \in earned \cup doubtful
=============================================================================
