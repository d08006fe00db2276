# TLA+ models of cladding's workspace protocols

cladding keeps a project's specification (`spec.yaml` and the shards under
`spec/`), an attestation of what has been verified, and an event log as files in
the project's own directory.  Command-line runs, host hooks and servers are
separate processes that work on those files at the same time, next to people,
agents and git, which do not ask anybody.  This project models the protocols
that keep the files true: the workspace lock, the journalled transaction, the
reader that takes no lock, the two gates that let a feature say `done`, and the
event log with the stop gate that reads and feeds it; then the programs that
stand on them: typed edits of the specification, the check run with its reducers
and the attestation it stamps, the small unlocked files of the host hooks, the
wiring of the engine into a project and its hosts, initialisation through the
server, onboarding, the migration between schemas, and the receipts people sign.

Paths are relative to the repository; its own source is under `src/src/` here.

| file | what it is |
| --- | --- |
| `OwnedLock`, `AtomicStore` | what the lock and the transaction promise |
| `WorkspaceLock` | the two lock files, call by call |
| `SpecTransaction` | commit, error path and recovery of the journal |
| `StableSnapshot` | the lock-free reader beside the transactions |
| `CompletionGate` | `clad done` under schema 0.2 |
| `LegacyDoneGate` | `clad done` under schema 0.1 |
| `TestEvidence` | the test runs of a check, their reports, and what they prove |
| `EventLog` | the event log, gate runs, and the stop gate of the hooks |
| `SpecEdit` | typed edits: batches, revisions, locked validation, projections |
| `AssuranceKernel` | proof obligations and their reduction, as operators |
| `GateRun` | one `clad check`: stages, snapshot, verdict, attestation |
| `PushLedger` | the governor of the cards a hook pushes after an edit |
| `LockDirectory` | who creates `.cladding`, and who may take it away |
| `HostSetup` | `clad setup` and `clad update`: launcher, entries, skills, sections |
| `ServerInit` | initialisation through the server: prepare, approve, apply, roll back |
| `Onboarding` | the session from `clad init` to its last answer or review |
| `Migration` | `clad migrate`: preview, decisions, conversion, receipt |
| `SignOff` | audits and acceptances that people sign, and what a gate makes of them |
| `MC*.tla`, `*.cfg` | instances for TLC |
| `*Proofs.tla` | theorems, checked by TLAPS |
| `PROJECT.json` | components, runs, mutants, the map to the source, hazards, theorems |

## 1. Inventory

### Components with a protocol of their own

**Workspace lock** (`spec/transaction.ts`, copied in `events/log.ts`).
State: `.cladding/spec-transaction.lock`, published by hard-linking a complete
owner record; `.reclaim`, an `O_EXCL` guard under which one contender at a time
retires the lock file of a dead owner; per process, what it has read.
Operations: acquire (retry every 25 ms for five seconds), release, reclaim,
retire an expired guard.  Hard: every check is one system call and every removal
another; any process may die between the two.  Correct if one process at a time
is inside, only a dead owner loses the lock, and a dead owner does lose it.

**Spec transaction** (`spec/transaction.ts`).  State: managed files, replacement
temps, the journal.  Operations: plan, publish, replace one file after the
other, unlink the journal; roll back on an error; recover under the lock before
anything else.  Hard: a crash or an I/O error at every point, crashes during
recovery, and edits by processes that take no lock.  Correct if the files change
by whole transactions, a pending journal can always be resolved, and bytes of an
outsider are not overwritten.

**Stable snapshot** (`withStableSpecWorkspaceSnapshot`).  State of a call: two
fingerprints (bytes and transaction markers) around the caller's work.  Hard:
none of its steps is atomic and no lock is held.  Correct if what it publishes
was one committed state, and reading commits nothing.

**Schema-0.2 completion gate** (`cli/done.ts`, `cli/clad.ts`, `spec/edit.ts`,
`spec/attestation.ts`).  State: the feature's shard, the attestation, the
ledger; in memory, the prepared mark, the writer epoch of the process and the
GREEN callback.  Operations: mark, begin an epoch, capture inputs, run stages,
answer, consume the writer, commit status, event and receipt in one journal.
Hard: minutes pass between check and use; attempts overlap within and across
processes; other commands rewrite the same files meanwhile.  Correct if a feature
turns `done` only over what its gate passed, status, ledger and receipt agree,
and a retired attempt publishes nothing.

**Schema-0.1 done gate** (same files).  State: the shard and, per attempt, the
bytes it found.  Operations: flip to `done`, run the gate, keep or take back.
Hard: the claim is on the disk before it is earned; overlapping attempts and
editors change what is to be taken back; the process may die.  Correct if no
unearned `done` stays and nobody else's work is undone.

**Event log** (`events/log.ts`).  State: live log and one rolled generation.
Operations: append, roll, record a gate run unless it repeats the last one.  All
under the same lock, all best-effort: an event is dropped while the lock is busy
or a journal is pending.  Hard: processes race to record the same run, the roll
takes away what a run is compared with, and completions replace the log as part of
their transaction.  Correct if only repetitions are left out, a blocked stop that
a later gate confirms counts as confirmed, and no append stands in the way of a
recovery.

**Typed edits** (`spec/edit.ts`).  State: the authored shards, the two catalogs,
the generated inventory and index; per client, a batch and the revisions it read.
Operations: a batch of typed operations, applied in order to a candidate under
the lock, validated as a whole, written in one journal with the projections it
makes stale.  Hard: a revision is compared per region while validation and
projections are about the whole; an operation of a batch may undo another; people
edit the same shards by hand.  Correct if no accepted batch overwrites what its
client has not seen, what is committed is coherent, and the projections follow.

**Check run** (`cli/clad.ts`, `stages/`).  State of a run: plan, snapshot of the
specification and code, stage results, verdict; on disk, one attestation row per
feature.  Operations: select stages by profile and target, run them one by one,
prime and clear caches, reduce, exempt a stale attestation this run is about to
renew, stamp.  Hard: minutes pass between the snapshot and the stamp while other
processes edit and stamp; one skip may mean "not applicable" or "not looked at".
Correct if GREEN was observed, what GREEN promises can be recorded, and a row
describes the code its run saw.

**Assurance kernel** (`assurance/`).  Pure: obligations from the plan, their
reduction to a verdict, and the run authority that lets one run stamp.

**Agent host hooks** (`cli/hook.ts`).  State: the stop-block marker and the
session ledger, both unlocked files.  Operations: stop gate, tool-use decisions,
push cards.  Hard: hosts run hooks in parallel and kill slow ones, and a write that
fails is swallowed.

**Run-scoped caches** (`stages/test-run-cache.ts`,
`stages/detector-result-cache.ts`).  In memory, between prime and clear; part of
the check run.

**Test runs and their reports** (`stages/unit.ts`, `stages/cov.ts`,
`stages/spec-conformance.ts`, `stages/test-run-cache.ts`, `proof/bindings.ts`,
`proof/current-bindings.ts`).  State: the report in the workspace, temporary reports,
and in memory one shared run and the captured proof.  Operations: share one coverage
run between two stages, guard against tests that never ran, capture the output of this
check, run the oracles without disturbing the report, reduce cases to criteria.  Hard:
three stages and other processes write one report file, a run may fail for a reason
that is another stage's, a reporter may leave no report, and the check may be killed, or
fail to restore, while the report is aside.  Correct if
every stage tells what was run, a criterion is verified only by a case that passed in
this check, and the suite's report outlives the oracle run.

**Host setup** (`init/host-setup.ts`, `init/host-instructions.ts`, `init/agents-md.ts`,
`cli/update.ts`).  State: the launcher `.cladding/host/serve.cjs`, an entry per host in
files that belong to the user, copied skills, managed sections, and in the home
directory what installers of earlier versions left.  Operations: `clad setup` for some
hosts, with or without force, and `clad update`.  Hard: nothing says whose an entry is
but its look; the engine moves; a run may be stopped between any two writes.  Correct
if every host starts the engine that set it up, and nothing of the user's is lost.

**Initialisation through the server** (`serve/server.ts`, `cli/init.ts`).  State: the
files init writes, the requests that approval phrases were shown for, a consent cache
in two tiers, the copies an apply may put back.  Operations: prepare, stage a draft,
apply, roll back.  Hard: minutes pass between the preview and the approval, servers of
several hosts work in one folder, and an apply is some ten writes any of which may
fail.  Correct if a phrase serves once, for the folder that was shown, and a failure
takes back what was written and nothing else.

**Onboarding** (`cli/init.ts`, `cli/clarify.ts`, `cli/scan/onboarding-state.ts`).
State: `.cladding/onboarding/state.yaml` with questions, answers and proposals; the
design artifacts it writes.  Operations: initialise, ask a model to refine, publish
or propose, review a proposal, close.  Hard: a model takes minutes and a review
days, authors rewrite the artifacts meanwhile, and two commands overwrite each
other's state file as a whole.  Correct if no author's text is overwritten unseen
and a session is done only when its answers are in the design.

**Schema migration** (`cli/migrate.ts`, `spec/edit.ts`, `spec/compiler/migration-*`,
`proof/legacy-bindings.ts`).  State: the shards, the operator's decisions with the
digest of the preview they were made on, the baseline receipt.  Operations:
preview, decide, convert under the lock, write the receipt, and afterwards let the
receipt stand in for tests.  Hard: the conversion re-reads its sources while people
and git act without the lock, and under schema 0.1 a `done` may be on trial.
Correct if what is converted is what was reviewed, no completed criterion loses its
test, and the receipt covers only what had been earned.

**Proof receipts and human sign-off** (`proof/`, `cli/key.ts`,
`assurance/closures.ts`).  State: the registry of keys, the private keys of this
machine, `spec/evidence`, the audit log.  Operations: assert, confirm, sign, file,
register a key, count.  Hard: a person takes minutes, nothing is locked meanwhile,
and a receipt is counted long after it was filed.  Correct if a gate counts a
signature for what its signer saw, and for nothing else.

### Components without one

Spec compiler and identity rules, spec graph, the other detectors and stage adapters,
the other tools of the MCP server, router, verdicts, agents and oracle, optimizer, reports and changelog,
checkpoint and git operations.  They are functions of files, formatters, wrappers or dispatchers;
`PROJECT.json` says of each why it is not modelled.

### How they interact

Every journalled write runs inside `withSpecWorkspaceLock`, which recovers a
pending journal first.  Completions are transactions of several files.  The
snapshot reader takes the lock only to recover.  The event log takes the same
lock, but never touches a journal.  Gates hold no lock: they compare what they
captured with the files when they commit.  Editors, agents and git hold nothing.

So the models form layers, each taking the one below as its abstract promise:

    OwnedLock    <- WorkspaceLock       two files implement one owner
       |
    AtomicStore  <- SpecTransaction     many replacements implement one commit
       |                 |
       |              StableSnapshot    a reader among the replacements
       |
    CompletionGate, LegacyDoneGate, EventLog, SpecEdit, GateRun,
    Onboarding, Migration, SignOff       each commit is one step

`GateRun` extends `AssuranceKernel` and runs it; `LockDirectory` is about the
directory `WorkspaceLock` takes for granted; `PushLedger`, `ServerInit`, `HostSetup`
and `TestEvidence` stand alone, because their files have no lock.  `TestEvidence` opens
the stages that are one value in `GateRun`.  `Onboarding` begins
where an apply of `ServerInit` ends.

## 2. The modules and the code

`PROJECT.json` maps every definition to its lines; this is the short form.

**WorkspaceLock.**  One action per file-system call that another process can
observe.  `Link` is `linkSync` of the owner record; `ReadOwner` is its `EEXIST`
branch; `TakeGuard`, `ProbeOwner`, `MatchLock`, `RenameLock`, `CheckGuard`,
`UnlinkGuard` are `reclaimDeadLock`; `ReadGuard`, `MatchGuard`, `RenameGuard` are
`retireExpiredReclaimerGuard`; `CheckLock`, `UnlinkLock` are `releaseLock`.  The
inode and the nonce that tell two incarnations of a file apart are the flags
`lockFresh[p]` and `guardFresh[p]`.  A rename removes whatever is at the path.

**SpecTransaction.**  Takes the lock from `OwnedLock`, so the owner alone has a
program counter.  `Plan`, `Publish`, `Stage`, `Recheck`,
`Apply`, `Finish` are `commitSpecTransactionFiles` and `replaceOne`; `Verify*` and
the same replacement steps in the modes `recover` and `rollback` are
`recoverSpecTransactionUnderLock`; `ForeignEdit` writes without the lock.

**StableSnapshot.**  Extends SpecTransaction with a reader whose fingerprints and
work read one file per step (`ReadBefore`, `ReadWork`, `ReadAfter`), its two
markers (`MarkJournal`, `MarkLock`, `CompareJournal`, `CompareLock`) and its state
probes.  It joins the writers' steps when it recovers a journal of a dead owner.

**CompletionGate.**  `Prepare` is `markFeatureDoneForGate`, `Begin` the prepared
event and `beginPreparedSchema02DoneGate`, `Capture`/`Observe`/`Green` are
`runCheckStages`, `Consume` is the writer's only use, `Commit` is
`commitGeneratedAttestation` with the receipt of `writeAttestation`; `BeginFeature`,
`BlockFeature`, `EditText` are typed edits, `Restamp` and `Reverify` other gates
that write the attestation.  A specification is a status and a text; the sources
are one value which the stages pass or not.

**LegacyDoneGate.**  `Mark` is the provisional flip, `Inspect` the gate, `Keep` and
`Drop` are `finalizeFeatureDoneForGate`, `Revert` is `restoreFailedDoneForGate`,
`Stuck` a compensation that could not be written.  The derived projections are
written in the same transaction and are functions of the sources, so they are
left out; the best-effort `done_attempted` record is too.

**TestEvidence.**  `Prime` is `primeTestRunCache`.  `RunShared` is
`tryReuseSharedRun` and `tryReuseSharedPytestRun` with the verdict on the shared run,
`RunOwn` and `UnitAnswers` the stage's own command and the guard, `FoldShared` and
`RunCoverage` `runCov`; `NoRunner` and `NoCoverage` are their answers without a run: no
command is registered, or `resolveStageCommand` throws (the runner `"unmapped"`).  A run
says what was run and what its reporter told of it (`told`): nothing, a part, or all.
`KeepReport`, `RunOracles` and `RestoreReport` are the oracle
stage between `snapshotTestReports` and `restoreTestReports`, with the failures of
both (`Unrestored`); `JUnitProof` is
`captureCurrentJUnitProof`, `VitestProof` `captureCurrentVitestProof`, which keeps the
earlier proof if there is no report; `Conclude` takes
the proof and reduces it (`Matches`, `Observed`); `DriftReads` is the detector
UNVERIFIED_AC.  `EditTests`, `SomeoneRuns` and `Kill` are everybody else.  A test file
is a set of cases, a project the runner of each stage and the criteria its commands
select.  Reports are one of the candidate paths.

**EventLog.**  `Write` is `appendEventUnlocked` with its roll-over, `Skip` every way
in which an event is lost; `Repeats` and `RecordGate` are
`recordGateRunUnderEventLock`; `RunGate` is a gate whose findings are a set of
failures (`gateStopFingerprint`) and one value for the rest.  `Commit`, `Die` and
`Recover` are a transaction that includes the log, its death and its roll-back, one
step each.  `Inspect`, `Resolve`, `Compare`, `Persist`, `Block` and `Allow` are
`runStopGate`, one step for each access to the marker file; `Observed` is
`summarizeStopOutcomes`.  What a block says of its prior gate (`introduced`,
`preexisting`) is left out.

**SpecEdit.**  `Prepare` is `prepareSpecEdit`, which hands out revisions; `Commit` and
`Reject` are `editSpec` under the lock, and `Reject` also stands for its attempt before the
lock.  `RegionsForOperations` is what a batch must name, `Operate` one operation on
the candidate, `Candidates` the candidate after each operation of the batch, `AcceptedUnderLock` the locked
validation, `Derive` the projections written with the commit, `Refresh` their repair.
`GateDone` is the completion gate, `HandEdit` a person with an editor.  Of a
feature's criteria the rules they refer to are kept, of its prose one text.

**AssuranceKernel.**  `Obligations` is the plan (`registry.ts`, `workspace.ts`), `Rows`
the observations a plan asks for, `StageObservation` and `ProofObservation` the adapters,
`Reduced` to `HasAuthority` the reducer of `kernel.ts` and the run authority.

**GateRun.**  `Start` plans and takes the snapshot in one step; `Drift`, `Reuse` and
`Execute` are the stages, `Reuse` those that read the detector cache of the run; `Judge` is
everything from the skip policy to the verdict; `Stamp` compares with the
snapshot under the lock and writes the rows; `Finish` is every other end of a run: a
failed, silent or deferred one, or a refused write.  `EditCode` and `Reopen` are
anybody else.  One criterion per feature; `Tested` and `OracleDemanded` also stand for
the references a criterion declares.

**PushLedger.**  `Load`, `Open` and `Save` are the accesses of `emitGovernedPushCard` to
its file: the write truncates before it writes.  `Unopened` and `Unwritten` are the
failures that `writePushLedger` swallows, before and after it has truncated the file:
the card is shown all the same.  `Kill` is the host's time limit.  The histories `shown`
and `slips` count a session's cards, and how often its ledger was late or lost.

**LockDirectory.**  One action per call: `Peek` is the check of the caller, `Look` to
`DropTemp` are `acquireLock` and the directory it makes, `Provide` the recursive
`mkdirSync` with which `writeDurable` makes it again, `MakeForGuard` to `Unguard`
the reclaimer's guard in it; `Recover` and `Work` are what runs under the lock, `Unlink`
the release, `Match` and `Rmdir` `removeOwnedEmptyLockDirectory`, and `Clear` is
`removeEmptyTransactionStateDirectory` after a recovery.

**HostSetup.**  A run is the row of places that `runHostSetup` and `runUpdate` visit,
one write per step; a place is nothing, the user's, damaged, a start of the launcher,
of `clad`, or of an engine by its directory.  `Merge` is `mergeJsonMcp` and
`mergeCodexMcp`, `CopySkill` `copyManagedSkill`, `Bridge` `wireAntigravityGlobal`,
`RemoveEntry` and `RemoveLink` the removal of earlier installations by `isKnownLaunch`
and `knownRoots`; `VisitNext` also has `writeClaudeMdSection`.  `StopSetup`,
`MoveEngine`, `UserEdits` and `WriteUnder` are everybody else.

**ServerInit.**  `PrepareInit`, `StageInit` and `BeginInit` are the three tools up to
their first await; `WriteNext` is one write of `runInit`, in its order, by the rule of
its kind (`WriteInitArtifact`, `AppendBlock`, `UpsertBlock`, `SaveDigests`); `FailInit` is
`restoreOnboardingRollback`, which removes the roots and writes the copies.  A file is
the author's last edit in it and the apply that generated the rest.  A snapshot is of
sizes and times, so a file that was put back differs from the one that was shown.

**Onboarding.**  `Initialize` (with an intent) and `Scaffold` (without one: the session
that is there stays), `WriteArtifact` and `CaptureFirst` are `runInit`; `Ask`,
`Respond`, `Propose` and `Close` are `refineOnboarding`; `Review` and `Reviewed` are
`resolveOnboardingReview`; `Publish` is the journal of schema 0.1, `PublishTyped` and
`PublishDocument` are `commitSchema02OnboardingArtifacts`; `SaveState` overwrites the
state file; `Rewrite` is an author.  A body is the answers it reflects and the
author's edits it keeps.  Refinement from a host is the case in which nothing
changed since its briefing; `Abort` is a refused typed edit, a stale draft, a crash.

**Migration.**  `Preview` is `previewSchema02Migration`; `Begin`, `ReadSource` and
`ReadOriginal` are `applyMigration`; `Recheck` is the second preview in
`applyParsedSpecEdit`, `Migrate` the checks and the journal; `MarkDone`, `Pass` and
`TakeBack` are a schema-0.1 completion beside it.  `Selected` and `StandsIn` are what
tests and receipt count for afterwards.  A shard is a status, a wording and the rest.

**SignOff.**  The workspace is a function from places (prose, criteria, tests, code,
authors) to values; a digest is the part of it that it is computed from.
`Assertion`, `Confirm`, `Compile`, `Sign` and `Ingest` are `recordVerifiedSignoff`:
the specification is read in one snapshot, tests, code and authors after it.
`Deliver` files a receipt from elsewhere, `Register` is `clad key create`.
`Expected` to `Independent` are what a gate recomputes.  `Change` and `CheckOut`
are people, agents and git.  Keys are not forged and digests do not collide.

Definitions whose comment starts with "Mutant" are not part of any
specification: each is a definition changed the way a plausible bug would change
it, and the property it is listed with fails when it is put in its place.

## 3. What the runs check

| run | question | answer |
| --- | --- | --- |
| `lock_safety` | Do the two files implement an exclusive lock that only the dead lose, when reclaimers may stall? | Yes, as long as no live reclaimer is deprived of its guard. |
| `progress` | Does a dead owner ever block the workspace for good?  Can hooks of several sessions block each other for ever? | No, and no, once the tree is left alone. |
| `lock_retires_live` | Is what is retired always demonstrably dead, as the comment says? | No: see the findings. |
| `txn_crash` | Do files change by whole transactions under crashes and I/O errors, and is every journal resolved, until somebody edits behind the lock? | Yes. |
| `shared_store` | What does a reader without the lock publish, and what do edits without the lock break? | One committed store, unless its first fingerprint saw a journal or a file's bytes came back; its recovery commits nothing.  Edits may wedge a journal, which fails closed; bytes noticed in time are kept, every other file stays recoverable, no temp is left. |
| `snap_torn` | Is it always coherent, as the comment says? | No: see the findings. |
| `records` | Do overlapping schema-0.2 completions keep status, ledger and receipt true, and what do the dedupe, the roll-over and a pending journal do to the log? | They do; an edit undone before the commit is the one thing no comparison sees.  Only repetitions are left out, none hides a block from the summary, and no append disturbs a recovery. |
| `checks` | Is a provisional `done` always earned or taken back?  Do the test stages tell what was run, and what survives of the report? | Yes, unless the process dies or its last write fails; then a later red attempt restores the `done` it found.  Stages and proof are of runs of this check; see below for the report. |
| `subsystems` | What do typed edits, check runs, the card governor, the lock's directory and sign-off keep true? | See below. |
| `adoption` | What do host setup, the server's initialisation, onboarding and migration keep true? | See below. |
| `setup_upgrade` | Does every host start the upgraded engine after setup, as its specification says? | No: see the findings. |
| `init_rollback` | Does a failed initialisation restore all onboarding files, as its answer says? | No: see the findings. |

Six runs put components that share no state side by side: the initial state picks
the scene, only its component moves, and the states add up.  `progress` has the lock
and the stop gate, `shared_store` a reader and foreign edits, `records` completions
and the log, `checks` the schema-0.1 gate and the test stages; `subsystems` and
`adoption` have those named below.  What they show beyond a yes:

- *test stages*: the unit stage passes only on a green run of this check, and fails
  only on its own command, for one that cannot be resolved, or for tests that never
  ran, never because of coverage.  A
  shared run may select fewer files than the unit command, and Unit then passes on
  those; and a green run that left no report is not guarded.  A criterion is verified by
  a case of a run since the check began; with JUnit
  that may be another process's run, because the report is compared with the one found
  at the start (`test-run-cache.ts:155`; the comment above it speaks of the unit run).
  With Vitest it is the run that decided the unit stage; but if that run left no report,
  the proof of the shared run before it stays, because the error is caught and nothing
  forgotten (`test-run-cache.ts:143`).
  After the oracle stage the report is that of the last full run, unless the process
  was killed before it restored, which leaves the partial report, another process
  ran the suite meanwhile, whose report the restoration overwrites, or the report could
  not be restored (`hurt`), and then the stage has failed.

- *edit*: an accepted batch overwrites nothing its client has not read, leaves a
  coherent specification, and equals its operations one by one, but for a scenario
  removed and rewritten in one batch, which is validated as present and deleted.
  The projections are current unless somebody has edited by hand.
- *gate*: a GREEN run has observed what it claims; what it claims can be recorded,
  unless nothing in its scope has a criterion to test (`NoTestCriteria`): the unit and
  coverage rows of the scope then collide, and `clad done` refuses every such run
  (`done.ts:372`).  A row describes the code its run saw, unless bytes came back
  meanwhile; a stale row is exempted only by a run that renews it, which under
  a completion is its target's alone.
- *ledger*: one card, one reminder and one notice per session, and one ceiling of
  tokens, as long as its hooks take turns and their writes succeed.  Overlapping hooks
  lose entries, a session that comes back after
  another one starts over (`hook.ts:707`), and one whose ledger cannot be written is
  shown the same card again; each time costs at most one more of everything.
- *directory*: one with a lock, a guard or a file in it stays.  So does a directory that
  was there first, until a journal is recovered: then whoever holds the lock removes the
  directory if it is empty.  Where there was none, or after a recovery, the loser of
  a race fails with `ENOENT` instead of waiting, and an empty directory may be left
  behind.
- *hosts*: when a run has finished and nothing changed since, every host it was asked
  for starts the engine that ran it, after upgrades and stopped runs too; but for
  entries that are the user's, files that do not parse, and Antigravity's machine-wide
  entry.  Without force nothing of the user's goes, except what he wrote under the
  heading of the section in `CLAUDE.md` when that section is stale.
- *server*: an approval phrase whose apply succeeded never begins another, whatever
  tokens the host kept, because the folder and the session have changed.  The exception
  is a phrase shown for a folder with none of the files that are put back: an overlapped
  apply that fails removes what the first one had written (`clobbered`), and the folder
  is again the one that was shown.  The phrase alone serves once per staging, because it
  is removed before the apply begins.  What the author wrote changes by the author's
  hand or returns to what it was when a failed apply began: edits during an apply that
  fails are lost, and so are those of another apply.  Proposals and drafts are written
  anew by each apply.  A failure that nothing disturbed leaves every file but
  `.gitattributes` as it was.  A killed server takes nothing back.
- *onboarding*: no artifact is overwritten with text that an author's edit is not part
  of, but for the cases that `late` records.  Under schema 0.2 the revisions of a typed
  publication are read after the decision to publish (`clarify.ts:491`), so an edit of
  a catalog in between is lost; so is a catalog that did not exist when the design was
  last accepted and that its author creates while the model is asked, because
  `artifactsAreUntouched` compares recorded digests only.  When commands overlap, a
  review may find the bases of one beside the proposals of another; and an init without
  an intent keeps the session and its bases (`init.ts:482`) but replaces the proposals
  (`init.ts:939`), so that a review finds the target as recorded and puts a draft in the
  place of the author's text, with nothing overlapping (`Foreign`).  A session that is
  done has its answers in the design, while its commands do not overlap (overlapping
  ones lose each other's state) and no answer went `unheard`: a model may leave the
  document out, the footnote written without a model keeps the last answer only, a
  proposal may be reviewed that is older than an answer, and a refinement with no
  question pending ends a session that awaits a review.
- *migration*: what is converted is what was previewed and decided, file by file,
  unless bytes changed and came back during the conversion.  No completed criterion
  gives up its historic test without a live one.  The receipt stands in only for
  accepted wordings of features that had passed a gate, unless a schema-0.1
  completion was on trial when it was written: its red gate takes back the status, but
  the receipt keeps what it said.
- *sign-off*: an audit, an acceptance or the independence label counts if and only if
  somebody with a registered key confirmed it over what is there now, and nobody
  failed the same contents.  What is signed is what the workspace holds at the
  signature, so all of it has the proviso `moved`: an edit between confirmation and
  signature is signed unseen.  Filing another receipt makes none stale; a commit by
  somebody else does, and so may another clone, because the local audit log outranks
  the git author.  The label can hold although another check of the same audit failed.

### Bounds, and why they are enough

- `lock_safety`, `lock_retires_live`: four processes.  The worst case needs a
  dead owner, a dead or stalled reclaimer, and two contenders that act on the
  same observation; symmetry makes four affordable.  Two crashes: owner and
  reclaimer.  `progress` drops symmetry, which is unsound for liveness, and
  one process; its hooks have two sessions and two changes between three states of the
  tree, so that one acts on what is long gone.
- `txn_crash` and the edits of `shared_store`: two files are the least with a state between two replacements; two
  contents (absent and another) show every mix of before and after, and a foreign
  edit that hits one of the images; the three of `shared_store` tell before, after and foreign apart.  Two
  transactions let one find the remains of the other; two crashes let recovery
  die; three foreign edits hit a file before, during and after a pass.
- the reader of `shared_store`: one reader and one writer with two transactions, so that the
  reader can span the end of one and the start of the next; a crash leaves
  the reader a journal to recover.  I/O errors are left to `txn_crash` and to the
  theorem, which holds with them.
- completions in `records`: three attempts, two in one process (epochs) and one in
  another (comparison under the lock); three edits allow a change, its undoing
  and one more.
- `checks`: two attempts overlap in every order; three edits.  The test stages: two
  checks, so that one finds the report of the other, and two disturbances (an edit and
  its undoing, an edit and a run, a run during a run, a fault of a reporter or of the
  report's file, which counts as one); two criteria, one of which may be
  left out of a run; eight projects: shared and separate runners, with and without the
  report, with and without oracles, missing tools, commands of different scope, commands
  that cannot be resolved.
- the log in `records`: a log that is rolled after two events, and four events, so that a
  gate, a block and the gates after it fall on either side of the roll; two gates
  race; one fault is a failed roll, a failed marker or a dead writer.  Gates,
  sessions and failures are symmetric.
- `subsystems`, *edit*: two clients, two commits and one edit by hand, so that a batch
  can meet a commit and an edit since its reading; the batches are chosen for the
  rules between operations (cycles, dangling references, removal and rewriting of
  one shard).  *gate*: two features, four stages of different kinds, two runs with one
  edit or one with two, and five kinds of request.  *ledger*: two hooks, four calls,
  a session with a name and windows without; a budget that two cards exceed.
  *directory*: three users, three takes, and two inodes: one makes or removes the directory
  beside two others, who take or wait for the lock; with or without a directory and a
  journal at first.
  *sign-off*: two signers, two requests and two
  disturbances; a feature with two criteria and one it depends on, two issuers, three
  keys.
- `adoption`, *hosts*: two directories for the engine, two runs, a move and an edit
  between or during them, and two homes: one with the remains of every earlier layout,
  one with a user's own things in every place; two hosts, one with an entry for the
  launcher, as the others have, and Antigravity.  *server*: four folders (empty, empty
  but for `.gitattributes`, with the author's files, in use), one phrase, two calls, and
  three applies and edits, so that one apply can begin during another, fail, and leave a
  folder for a third; more phrases add no kind of token.
  *onboarding*: two commands of which at most four begin, or two while they overlap (four
  are needed for a catalog that is created while the model is asked), two author edits, two artifacts, two questions.  *migration*: one operator, two
  features, one with a pinned historic test and one whose evidence a policy would
  lose, and two steps of people.  Clients and signers, and commands and calls, are the
  same two symmetric values.

The theorems hold for every value of these constants.  Runs that check for no
deadlock say so because the modelled activity may be over: readers settle,
attempts end, processes die.

### Fairness

`progress`, the lock: a running process executes its next call, a waiting one comes
back, and thirty seconds pass for a guard; calls are synchronous and the code
waits with a fixed pause, nothing blocks.  No fairness is assumed of crashes or
of giving up.  It is checked with `Suspends = FALSE`: a reclaimer holds its guard
for a handful of calls.

`txn_crash`: the owner runs on until it dies, the lock of a dead owner is
retired (`progress`), and somebody enters the workspace again.

`checks`: a command of `clad done` runs on to its end unless its process dies; gates are
synchronous.

`progress`, the stop gate: a hook that has begun runs to its answer.  Nobody has to begin one,
and nothing is assumed of the sessions between two hooks.  A marker that can never
be written is outside the promise (the code then blocks each time, and the host's
`stop_hook_active` lets the session go): failures are bounded by `MaxFaults`.

## 4. What is proved

All safety properties of the passing runs are theorems,
for any number of processes, files, contents, attempts and for any bound.

- **WorkspaceLockProofs.**  The inductive invariant is `TypeOK`, `FreshInv` (a
  fresh observation still describes the file) and, unless a live reclaimer has
  lost its guard, `GuardInv` (whoever is inside the guard owns it and condemns
  only the dead; a matched lock file is still the one read) and `HoldInv` (a
  holder's file is in place).  Mutual exclusion alone is not inductive: the
  danger comes from a reclaimer several steps before its rename.
  `LockImplementsOwnedLock` maps every step to the abstract lock.
- **SpecTransactionProofs.**  `IInv` says where a transaction can be in each step
  of the owner (`ControlInv`, `TxnInv`), where temps lie (`TempInv`), which bytes
  are foreign and whether they are still to be noticed (`AlienInv`, `NoticeInv`),
  and, without foreign edits, that a pass has done what it passed
  (`ProgressInv`).  `TransactionsAreAtomic` maps every step up to the first
  foreign edit to a step of `AtomicStore`.
  Of the reader: if its first fingerprint saw no journal, it
  is a committed store or some file it has still to confirm has moved for good
  (`MarkInv`); its work agrees with the fingerprint but for such files
  (`ViewInv`).  A second fingerprint that agrees leaves no such file.  That its
  recovery commits nothing (`ReaderWritesNothing`) holds because its passes
  only recover.
- **CompletionGateProofs.**  The ledger invariant ties each mark to the last
  event; `RetiredInv` keeps a retired attempt out of its epoch; `Watched` says
  that what an attempt captured is what its stages saw, until something comes
  back.
- **ChecksProofs.**  Of `DoneStands`, `NoUnearnedDone` is inductive as it stands: an
  attempt leaves the status to another that answers for it, takes it back, or
  has it earned; `Watched` is the invariant behind `KeptWasInspected`.
  `StagesTellTheirRuns` and `VerifiedWasRun` follow from `StageInv`, which adds what
  a check remembers of its runs in each phase, and `ProofInv`, which says that a
  captured proof is the output of a run since the check was primed: a report that
  differs from the one found was written by such a run, and a proof that stayed is the
  shared run's.  `ReportSurvives` follows the
  report through the oracle run, while the suite's is aside.
- **EventLogProofs.**  `LogSteps` says where a log can go in one step; the three
  safety properties follow from it with `TypeOK`.  `GatesDoNotRepeat`, a part of
  `OnlyRepetitionsAreLeftOut`, is inductive:
  an equal run further back has, by the invariant itself, something between it
  and the one that the new run was compared with.

- **GateRunProofs.**  The inductive invariant is `RunKeepsItsPlan`: the plan and what
  each stage saw describe the code, feature by feature, until the history of
  changes says otherwise; scope and target belong to the profile; and the entries of
  a run are what it owes.  Both GREEN properties, the rows and the exemption follow.
- **SubsystemProofs.**  Five components in one module.  `DirInv` says that every
  temporary file, the lock and the guard belong to somebody who needs the directory,
  and that, before a recovery, nobody has created one that was there first; `WrittenIsCoherent` that a validated
  candidate has no dangling reference and no cycle (`RankingsAreAcyclic`);
  `LedgerInv` that what a session was shown is accounted for by the ledger, and by what
  each running hook has loaded, plus one measure for each slip.
  `MigrationInv` says that a `done` under schema 0.1 is earned or on trial
  (`ProvisionalInv`), what the conversion has read against its preview and the disk
  (`ConversionInv`), and what the receipt holds (`ReceiptInv`).  `SignInv` says that
  every receipt is backed by a world that looked like what its signer confirmed;
  `ExpectedShowsSeen` and `SeenShowsExpected` show that the four digests and what a
  signer relies on determine each other.
  For the typed edits, what a batch of any length does is an induction along its
  operations, written out with the least operation at which a claim fails: the candidate
  stays a workspace, differs from the disk only in the regions the batch names
  (`NothingUnseenIsOverwritten`), makes the projections stale only where it says so
  (`ProjectionsFollow`), and is, operation by operation, what separate submissions would
  have left (`BatchesAreSerial`).
- **AdoptionProofs.**  *Hosts*: what is still to be visited is a set of positions, and
  `RunInv` says of a run that nothing disturbs that the places behind it are wired;
  `SetupWiresItsHosts` reads it when nothing is left.  *Server*: the generation an apply gives to what it writes is new, and
  `ReplayInv` says that the folder, and the copies an undisturbed apply may put back,
  differ from what any phrase was shown for whose apply has begun to write.  *Onboarding*: `TextInv`, which holds however commands overlap,
  says that every text kept anywhere (digests, bases, proposals, bodies in hand) has only
  edits that the design still has; a publication bound to its base then loses none.
  `AloneInv` and `AnswerInv` say of commands that take turns that a proposal under review
  was made from its bases or is the draft of an init (`Made`), and that the accepted answers are in the document or in the
  proposal for it.

Assumptions: only those on the constants (`LockAssumption`,
`TransactionAssumption`, `ReaderAssumption`, `CompletionAssumption`,
`NoneAssumption`, `LegacyAssumption`, `EventAssumption`, `EditAssumption`,
`KernelAssumption`, `GateAssumption`, `EnvironmentAssumption`, `LedgerAssumption`,
`DirectoryAssumption`, `OnboardingAssumption`, `MigrationAssumption`,
`SignOffAssumption`, `EvidenceAssumption`, `CheckAssumption`, `SetupAssumption`,
`ServerInitAssumption`), which the runs evaluate.  The last ones say that a
value standing for nothing is none of the values it stands beside, that batches consist
of operations and drafts of questions, and what folders and places hold at the beginning.

Some proofs failed because the statement did, and it was corrected:
`ReplaysDoNotWrite` (a folder that an overlapped apply has emptied again),
`NothingIsLost` (proposals and drafts), `AuthorIsNotOverwritten` (a catalog created while
the model is asked, a review among overlapping commands) and `DoneReflectsAnswers` (a
proposal older than an answer).  The bounds of `adoption` were raised so that it reaches
all of these but two: the review takes three overlapping commands, and the older
proposal seven commands in a row.  TLC finds both on a larger instance of `Onboarding`
when the exception is left out; within the bounds of the run they do not occur, and only
the theorems speak about them.

Model-checked only: `DeadOwnerRetired`, `PendingResolved`, `ProvisionalSettles`
and `NobodyIsTrapped`, which are liveness under fairness and out of the prover's
reach; and the four runs that show a violation.  Type invariants are theorems or parts
of inductive invariants, not runs.

## 5. Findings

1. **A live owner's lock can be retired** (`lock_retires_live`).  Two contenders
   match the same expired guard; the second rename removes the fresh guard of a
   third process.  Its comparison of the lock file is then unprotected, and the
   file it renames may be that of a live holder.
   `src/src/events/log.ts:295` says "Retires only a demonstrably dead
   event/transaction owner."
2. **A torn snapshot can be published** (`snap_torn`).  A reader that probes before
   the writer's lock appears and takes both fingerprints between two renames of
   that writer finds them equal, and the writer is gone at the last probe.
   `src/src/spec/transaction.ts:119` says that readers never publish a result
   from a moving epoch.

3. **A failed initialisation leaves `.gitattributes`** (`init_rollback`).  `runInit`
   writes it (`init.ts:591`); the list of what is copied and put back
   (`server.ts:658`) does not name it.  The answer says that "all onboarding files
   were restored" (`server.ts:1002`).
4. **Antigravity stays on the old engine after an upgrade** (`setup_upgrade`).  Its
   machine-wide entry names the engine by its directory and carries no description;
   setup recognises its own entries without any root (`host-setup.ts:434`), takes this
   one for the user's and keeps it.  `spec/features/setup-command-80d19d.yaml:34`:
   "so host channels launch the upgraded engine without manual cleanup".

Without a run of its own: `test-run-cache.ts:144` says that a missing or malformed
reporter leaves the proof unresolved "instead of borrowing an older report".  Within one
check the proof of the shared run is an older report, and it stays; `VerifiedWasRun`
states it as its exception.

The first needs a reclaimer that died, and contenders at the wrong calls; the
second a reader that gets through its work before the writer's next rename.  The
proviso `guardLost` and the property `CoherentUnlessEpochHidden` state what holds
otherwise.

## 6. Not modelled

Within the modelled parts:

- Lock and transaction: target directories, owner records that cannot be parsed, reuse
  of process ids, hostile journals and symbolic links.  A directory that cannot be
  synced is no error to the code, and none here; what a power failure would make of it
  is left out.  `LockDirectory` has no process that dies, nor I/O errors of the lock's
  files.
- Test stages: temporary reports are removed whenever they should be; JSON that is cut is
  read as nothing, JUnit that is cut at whole files; the candidate paths of a report
  are one; `reportsZeroExecutedTests` knows no summary of Vitest.
- Gates: what a stage looks at, but for the tests in `TestEvidence` (which has one
  binding per criterion and one report path); schema-0.1 tiers; static criterion rules.
- Typed edits: the design-impact review and the rendering of YAML.
- Host setup: the Gemini policy, Cursor's permissions and bootstrap rule, the status
  file, `.git/info/exclude`, the uninstallation of the Claude user plugin; an unfinished
  skill directory.
- Server: `--schema 0.1`, git hooks and CI workflows of `clad init`; a rollback that is
  itself interrupted; tokens that do not decode.
- Hooks: tool-use decisions, the session card and the shell lane.
- Onboarding: what the scan reads, scenario drafts and the architecture as artifacts of
  their own, and unreadable catalogs.
- Migration: the decisions about capabilities, scenarios and architecture, which are
  made and compared in the same way; the proof of identity; unsafe test trees; two
  overlapping schema-0.1 attempts, which are `LegacyDoneGate`'s.
- Sign-off: receipts of independent oracles, which no command can produce; an unsafe
  file in `spec/evidence`, which leaves all receipts unresolved; missing modules,
  which are sealed as such.

Everything else listed in section 1 as a component without a protocol.

## 7. Plan

What would add most, in this order:

1. Selections under a budget (`optimizer/`) and impact queries (`graph/`) as
   operators, against a reference definition.
2. What the liveness properties rest on, as theorems about single steps: that each fair
   action brings its measure down, which is as far as the prover goes.
