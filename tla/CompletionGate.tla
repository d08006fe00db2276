---------------------------- MODULE CompletionGate ----------------------------
(***************************************************************************)
(* Completion of one feature under schema 0.2 (clad done), beside the typed *)
(* edits and the other writers it races with.                              *)
(*                                                                         *)
(* An attempt marks the bytes it starts from, opens a writer epoch in its  *)
(* process, loads a done-aware view of the specification, captures its     *)
(* inputs, runs the gate, and on GREEN publishes the status, the receipt   *)
(* and the event in one journal, if everything is still as it was.  Each   *)
(* journalled write is one step here: SpecTransaction says why.  A process *)
(* runs one gate or one commit at a time, but a GREEN callback can be kept *)
(* while the same process starts another attempt.                          *)
(***************************************************************************)
EXTENDS FiniteSets, Naturals, Sequences

CONSTANTS Attempt,    \* attempts to complete the feature
          NoAttempt,
          None,       \* no receipt; nothing in hand
          Process,
          ProcessOf,  \* the process of each attempt
          Text,       \* what the feature says besides its status; stands for
                      \* spec.yaml too, which is compared wherever it is
          Code,       \* contents of the sources the gate verifies
          GoodCode,   \* those its stages pass
          MaxEdits,   \* bound on edits by others
          MaxCrashes  \* bound on crashed processes

ASSUME CompletionAssumption ==
  /\ NoAttempt \notin Attempt
  /\ ProcessOf \in [Attempt -> Process]
  /\ GoodCode \subseteq Code
  /\ MaxEdits \in Nat /\ MaxCrashes \in Nat

VARIABLES shard,      \* the feature: its status and the rest
          code,       \* the sources
          receipt,    \* inputs sealed in the attestation, or None
          ledger,     \* lifecycle events: feature_checkpoint, done_attempted
          phase,      \* of each attempt
          run,        \* what each attempt has in hand:
                      \*   mark      shard and receipt when it was prepared
                      \*   loaded    the specification it evaluates
                      \*   captured  the inputs its receipt will seal
                      \*   observed  the sources its stages have read
          current,    \* the open writer epoch of each process
          edits, crashes,  \* counters for the bounds
          retired,    \* history: attempts followed by a newer gate
          returned    \* history: attempts whose captured inputs came back

disk == <<shard, code, receipt, ledger>>
counters == <<edits, crashes>>
vars == <<disk, phase, run, current, counters, retired, returned>>

Status == {"planned", "in_progress", "blocked", "done"}
Shard == [status : Status, text : Text]
Inputs == [shard : Shard, code : Code]
Seals == Inputs \cup {None}
ASSUME NoneAssumption == None \notin Inputs
Phase == {"idle", "prepared", "loaded", "gating", "green", "consumed",
          "kept", "refused", "crashed"}

\* A process is inside checkStages, or between the two halves of a commit.
Running == {"loaded", "gating", "consumed"}
Over == {"kept", "refused", "crashed"}

\* The sealed view has the feature done: the receipt's own target.
Done(s) == [s EXCEPT !.status = "done"]
Tree == [shard |-> shard, code |-> code]

Nothing == [mark |-> None, loaded |-> None, captured |-> None,
            observed |-> {}]
Registers == [mark : [shard : Shard, receipt : Seals] \cup {None},
              loaded : Shard \cup {None}, captured : Inputs \cup {None},
              observed : SUBSET Code]

\* A process lists a writer from the start of its gate to its first use; one of
\* a refused gate stays listed.
EpochsAreOpen ==
  \A p \in Process :
    current[p] # NoAttempt =>
      /\ ProcessOf[current[p]] = p
      /\ phase[current[p]] \in {"loaded", "gating", "green", "refused"}

TypeOK ==
  /\ shard \in Shard /\ code \in Code
  /\ receipt \in Seals
  /\ ledger \in Seq({"begin", "done"})
  /\ phase \in [Attempt -> Phase]
  /\ run \in [Attempt -> Registers]
  /\ current \in [Process -> Attempt \cup {NoAttempt}]
  /\ EpochsAreOpen
  /\ edits \in Nat /\ crashes \in Nat
  /\ retired \in SUBSET Attempt /\ returned \in SUBSET Attempt

Init ==
  /\ shard \in Shard /\ shard.status = "planned"
  /\ code \in Code
  /\ receipt = None
  /\ ledger = <<>>
  /\ phase = [a \in Attempt |-> "idle"]
  /\ run = [a \in Attempt |-> Nothing]
  /\ current = [p \in Process |-> NoAttempt]
  /\ edits = 0 /\ crashes = 0
  /\ retired = {} /\ returned = {}

Goto(a, from, to) == phase[a] = from /\ phase' = [phase EXCEPT ![a] = to]

\* An attempt ends: what it had in hand is gone.
End(a, from, how) == Goto(a, from, how) /\ run' = [run EXCEPT ![a] = Nothing]

\* Attempts whose inputs had been changed and are now as captured again: what
\* they read in between no comparison can tell.
CameBack ==
  {a \in Attempt : run[a].captured # Tree /\ run[a].captured = Tree'}

\* Attempts of the same process.
Peers(a) == {b \in Attempt : ProcessOf[b] = ProcessOf[a]}

\* The process is free to execute a's next call.
Free(a) == \A b \in Peers(a) \ {a} : phase[b] \notin Running
-----------------------------------------------------------------------------
(* runDone and the gate                                                    *)

\* markFeatureDoneForGate: only a feature in progress, and nothing is written.
Prepare(a) ==
  /\ Free(a)
  /\ shard.status = "in_progress"
  /\ Goto(a, "idle", "prepared")
  /\ run' = [run EXCEPT ![a].mark = [shard |-> shard, receipt |-> receipt]]
  /\ UNCHANGED <<disk, current, counters, retired, returned>>

\* beginPreparedSchema02DoneGate: the mark is consumed and its writer replaces
\* the one of an earlier gate; then the specification is loaded.
Begin(a) ==
  /\ Free(a)
  /\ Goto(a, "prepared", "loaded")
  /\ current' = [current EXCEPT ![ProcessOf[a]] = a]
  /\ run' = [run EXCEPT ![a].loaded = shard]
  /\ retired' = retired \cup
       {b \in Peers(a) \ {a} : phase[b] \notin {"idle", "prepared"} \cup Over}
  /\ UNCHANGED <<disk, counters, returned>>

\* The assurance plan and captureAttestationInputSnapshot.
Capture(a) ==
  /\ Goto(a, "loaded", "gating")
  /\ run' = [run EXCEPT ![a].captured = Tree]
  /\ UNCHANGED <<disk, current, counters, retired, returned>>

\* A stage reads the sources while the gate runs.
Observe(a) ==
  /\ phase[a] = "gating"
  /\ run' = [run EXCEPT ![a].observed = @ \cup {code}]
  /\ UNCHANGED <<disk, phase, current, counters, retired, returned>>

\* The assurance plan, computed again after the stages, covers what the captured
\* one does.  Both see the feature done, so its status is not compared.
ClosureStable(a) ==
  /\ run[a].captured.code = code
  /\ Done(run[a].captured.shard) = Done(shard)

\* GREEN over a closed scope, with a receipt to commit.
Green(a) ==
  /\ Goto(a, "gating", "green")
  /\ ClosureStable(a)
  /\ run[a].observed # {} /\ run[a].observed \subseteq GoodCode
  /\ UNCHANGED <<disk, run, current, counters, retired, returned>>

\* RED, a stage that throws, a missing receipt, or the review policy: refused,
\* with the epoch left open.
Refuse(a) ==
  /\ \E from \in {"prepared", "loaded", "gating", "green"} :
       End(a, from, "refused")
  /\ Free(a)
  /\ UNCHANGED <<disk, current, counters, retired, returned>>
-----------------------------------------------------------------------------
(* The GREEN callback                                                      *)

\* Mutant: any GREEN callback may consume its writer.
ConsumeAnyEpoch(a) ==
  /\ Free(a)
  /\ Goto(a, "green", "consumed")
  /\ current' = [current EXCEPT ![ProcessOf[a]] = NoAttempt]
  /\ UNCHANGED <<disk, run, counters, retired, returned>>

\* consumePreparedSchema02DoneWriter: once, and only in the current epoch.
Consume(a) ==
  /\ Free(a)
  /\ current[ProcessOf[a]] = a
  /\ Goto(a, "green", "consumed")
  /\ current' = [current EXCEPT ![ProcessOf[a]] = NoAttempt]
  /\ UNCHANGED <<disk, run, counters, retired, returned>>

\* A callback of an older epoch throws.
ConsumeRetired(a) ==
  /\ Free(a)
  /\ current[ProcessOf[a]] # a
  /\ End(a, "green", "refused")
  /\ UNCHANGED <<disk, current, counters, retired, returned>>

\* Mutant: the preimages are not compared.
UntouchedAlways(a) == TRUE

\* commitGeneratedAttestation: the preimages are the marked ones.
Untouched(a) ==
  run[a].mark = [shard |-> shard, receipt |-> receipt]

\* Mutant: the captured inputs are not compared.
SealedAlways(a) == TRUE

\* attestationInputSnapshotMatches and sameSpecSnapshot, under the lock.
Sealed(a) == run[a].captured = Tree /\ run[a].loaded = shard

\* Mutant: the receipt is rendered from the live sources and not rechecked.
CommitSealsLive(a) ==
  /\ End(a, "consumed", "kept")
  /\ Untouched(a)
  /\ shard' = Done(shard)
  /\ receipt' = [shard |-> Done(shard), code |-> code]
  /\ ledger' = Append(ledger, "done")
  /\ UNCHANGED <<code, current, counters, retired>>
  /\ returned' = returned \cup CameBack

\* Mutant: the event is left to a later append.
CommitWithoutEvent(a) ==
  /\ End(a, "consumed", "kept")
  /\ Untouched(a) /\ Sealed(a)
  /\ shard' = Done(shard)
  /\ receipt' = [run[a].captured EXCEPT !.shard = Done(shard)]
  /\ UNCHANGED <<code, ledger, current, counters, retired>>
  /\ returned' = returned \cup CameBack

\* One journal: the exact done transition, the receipt and the event.
Commit(a) ==
  /\ End(a, "consumed", "kept")
  /\ Untouched(a) /\ Sealed(a)
  /\ shard' = Done(shard)
  /\ receipt' = [run[a].captured EXCEPT !.shard = Done(shard)]
  /\ ledger' = Append(ledger, "done")
  /\ UNCHANGED <<code, current, counters, retired>>
  /\ returned' = returned \cup CameBack

\* STALE_INPUT; BUSY, an I/O error or a git operation refuse as well.
CommitRefused(a) ==
  /\ End(a, "consumed", "refused")
  /\ UNCHANGED <<disk, current, counters, retired, returned>>
-----------------------------------------------------------------------------
(* Everybody else                                                          *)

\* Somebody else changes the disk.
Edit ==
  /\ edits < MaxEdits
  /\ edits' = edits + 1
  /\ returned' = returned \cup CameBack
  /\ UNCHANGED <<phase, run, current, crashes, retired>>

\* feature.begin, alone or with companion edits: one checkpoint in the journal
\* of the change; beginning what is in progress and changing nothing is no write.
BeginFeature(t) ==
  /\ shard' = [status |-> "in_progress", text |-> t]
  /\ shard' # shard
  /\ ledger' = Append(ledger, "begin")
  /\ UNCHANGED <<code, receipt>>
  /\ Edit

\* feature.block: a done feature must be begun first.
BlockFeature ==
  /\ shard.status \in {"planned", "in_progress"}
  /\ shard' = [shard EXCEPT !.status = "blocked"]
  /\ UNCHANGED <<code, receipt, ledger>>
  /\ Edit

\* Any other typed edit of the feature keeps its status.
EditText(t) ==
  /\ t # shard.text
  /\ shard' = [shard EXCEPT !.text = t]
  /\ UNCHANGED <<code, receipt, ledger>>
  /\ Edit

\* Sources are edited without any lock.
EditCode(c) ==
  /\ c # code
  /\ code' = c
  /\ UNCHANGED <<shard, receipt, ledger>>
  /\ Edit

\* A gate for another feature rewrites the attestation: mergeCurrentV3 keeps
\* this feature's row while it is done and its inputs are current.
Restamp ==
  /\ receipt' = IF receipt = Tree /\ shard.status = "done" THEN receipt ELSE None
  /\ receipt' # receipt
  /\ UNCHANGED <<shard, code, ledger>>
  /\ Edit

\* A gate over the done feature re-earns its row.  Such a gate races with edits
\* as a completion does, by the same rechecks; here it is one step.
Reverify ==
  /\ shard.status = "done" /\ code \in GoodCode
  /\ receipt' = Tree
  /\ receipt' # receipt
  /\ UNCHANGED <<shard, code, ledger>>
  /\ Edit

\* A process dies: its capabilities were in memory.
Crash(p) ==
  /\ crashes < MaxCrashes
  /\ crashes' = crashes + 1
  /\ phase' = [a \in Attempt |->
                 IF ProcessOf[a] = p /\ phase[a] \notin {"idle"} \cup Over
                 THEN "crashed" ELSE phase[a]]
  /\ phase' # phase
  /\ current' = [current EXCEPT ![p] = NoAttempt]
  /\ run' = [a \in Attempt |-> IF phase'[a] = "crashed" THEN Nothing ELSE run[a]]
  /\ UNCHANGED <<disk, edits, retired, returned>>
-----------------------------------------------------------------------------
Others ==
  \/ BlockFeature \/ Restamp \/ Reverify
  \/ \E t \in Text : BeginFeature(t) \/ EditText(t)
  \/ \E c \in Code : EditCode(c)

Next ==
  \/ \E a \in Attempt :
       \/ Prepare(a) \/ Begin(a) \/ Capture(a) \/ Observe(a) \/ Green(a)
       \/ Refuse(a) \/ Consume(a) \/ ConsumeRetired(a) \/ Commit(a)
       \/ CommitRefused(a)
  \/ Others
  \/ \E p \in Process : Crash(p)

Spec == Init /\ [][Next]_vars
-----------------------------------------------------------------------------
(* Properties                                                              *)

\* A receipt that matches the tree was earned by it: the gate passed these
\* sources, whatever was edited while it ran (writeAttestation's rechecks),
\* unless the inputs left the captured ones and came back.
ReceiptIsTrue ==
  receipt = Tree => \/ code \in GoodCode
                    \/ \E a \in returned : phase[a] = "kept"

\* A feature turns done over sources its own gate has passed, under the same
\* proviso: what is edited between GREEN and the journal refuses the completion.
DoneOnGreen ==
  [][\A a \in Attempt :
       phase[a] = "consumed" /\ phase'[a] = "kept"
         => code \in GoodCode \/ a \in returned]_vars

\* The status never runs ahead of the ledger, nor the ledger of the status
\* (one journal, design D12): a feature is done exactly while its last
\* lifecycle event is a completion.
LedgerExplainsStatus ==
  shard.status = "done" <=> Len(ledger) > 0 /\ ledger[Len(ledger)] = "done"

\* Two attempts, in whatever processes, never complete the same start: each
\* completion answers a feature.begin of its own.
CompletionsAnswerBegins ==
  \A i \in 1..Len(ledger) :
    ledger[i] = "done" => i > 1 /\ ledger[i - 1] = "begin"

\* "Starting a newer gate must retire an older GREEN callback even if the newer
\* run later fails" (CURRENT_SCHEMA02_DONE_WRITERS).
RetiredNeverCompletes ==
  [][\A a \in retired : phase'[a] = "kept" => phase[a] = "kept"]_vars

\* A feature's last event and its status tell the same story, and every
\* completion in it answers a start of its own.
StatusIsEarned == LedgerExplainsStatus /\ CompletionsAnswerBegins

\* A completion is written by a gate that passed these sources and that no
\* newer gate has replaced.
CompletesOnItsGate == DoneOnGreen /\ RetiredNeverCompletes
=============================================================================
