------------------------------ MODULE EventLog ------------------------------
(***************************************************************************)
(* The event log, the gate runs it records, and the stop gate of the host  *)
(* hooks, which blocks the end of a session once for each set of failures. *)
(*                                                                         *)
(* An append holds the workspace lock and is one step (WorkspaceLock).  It *)
(* is best-effort: the event is lost while the lock is busy, or while the  *)
(* journal of a dead writer, whose transaction includes the log, waits for *)
(* its recovery (SpecTransaction).  The marker of the stop gate is a file  *)
(* without a lock, shared by the hooks of all sessions.                    *)
(*                                                                         *)
(* A set of failures, in the code its fingerprint, is a value; Clean is    *)
(* the empty one.  What else a gate run says of itself (head, tier,        *)
(* strict, worst, blockers) is one value.  Of the stages of a gate and of  *)
(* a hook only what they find is kept.                                     *)
(***************************************************************************)
EXTENDS Naturals, Sequences

CONSTANTS Gate,       \* processes that run the gate
          Session,    \* host sessions; each fires its stop hook at will
          Failure,    \* sets of failures the stop gate can find
          Clean,      \* no failures; no marker
          Evidence,   \* what else a gate run says of itself
          RotateAt,   \* events a live log holds before it is rolled
          MaxEvents,  \* bound on recorded events
          MaxChanges, \* bound on changes of what is failing
          MaxFaults   \* bound on failed rolls, failed markers and crashes

ASSUME EventAssumption ==
  /\ Clean \notin Failure
  /\ RotateAt \in Nat \ {0}
  /\ MaxEvents \in Nat /\ MaxChanges \in Nat /\ MaxFaults \in Nat

VARIABLES live,      \* events.log.jsonl
          rolled,    \* events.log.1.jsonl
          pending,   \* a dead writer's journal is on disk
          before,    \* the live log it will be rolled back to
          failing,   \* what the stages find in the tree
          marker,    \* failures the last block has left in stop-block.json
          result,    \* of each gate that has run: what it will record
          hook,      \* where each stop hook stands
          found,     \* what it has found
          recorded, changes, faults  \* counters for the bounds

logs == <<live, rolled, recorded>>
journal == <<pending, before>>
hooks == <<marker, hook, found>>
logVars == <<logs, journal, failing, result, hooks, changes, faults>>

Found == Failure \cup {Clean}
GateRun == [type : {"gate_run"}, failures : Found, evidence : Evidence]
StopEvent == [type : {"stop_blocked", "stop_exit_recorded"}, failures : Failure]
Completion == [type |-> "done_attempted"]
Event == GateRun \cup StopEvent \cup {Completion}
NoResult == [type |-> "none"]

LogInit ==
  /\ live = <<>> /\ rolled = <<>>
  /\ pending = FALSE /\ before = <<>>
  /\ failing \in Found
  /\ marker = Clean
  /\ result = [g \in Gate |-> NoResult]
  /\ hook = [h \in Session |-> "idle"]
  /\ found = [h \in Session |-> Clean]
  /\ recorded = 0 /\ changes = 0 /\ faults = 0

CountEvent == recorded < MaxEvents /\ recorded' = recorded + 1
CountFault == faults < MaxFaults /\ faults' = faults + 1
-----------------------------------------------------------------------------
(* The log                                                                 *)

\* appendEventUnlocked: a full log is rolled first; if that fails, the event
\* goes to the full log all the same.
Write(e) ==
  /\ CountEvent
  /\ \/ /\ Len(live) < RotateAt
        /\ live' = Append(live, e)
        /\ UNCHANGED <<rolled, faults>>
     \/ /\ Len(live) >= RotateAt
        /\ live' = <<e>> /\ rolled' = live
        /\ UNCHANGED faults
     \/ /\ Len(live) >= RotateAt
        /\ CountFault
        /\ live' = Append(live, e)
        /\ UNCHANGED rolled

\* The event is lost, or is not to be recorded.
Skip == UNCHANGED <<logs, faults>>

\* Mutant: a stop that was blocked since does not count.
RepeatsDespiteBlock(e) ==
  \E i \in 1..Len(live) :
    /\ live[i] = e
    /\ \A j \in (i + 1)..Len(live) : live[j].type # "gate_run"

\* Mutant: the last event of any type is compared.
RepeatsLastEvent(e) == Len(live) > 0 /\ live[Len(live)] = e

\* recordGateRunUnderEventLock: the last gate run in the live log says the
\* same as e, and no stop has been blocked since.
Repeats(e) ==
  \E i \in 1..Len(live) :
    /\ live[i] = e
    /\ \A j \in (i + 1)..Len(live) :
         live[j].type \notin {"gate_run", "stop_blocked"}
-----------------------------------------------------------------------------
(* Gate runs and completions                                               *)

\* The stages have run.  A gate that is not strict, or whose tier leaves a
\* stage out, may find nothing where the stop gate finds something.
RunGate(g) ==
  /\ result[g] = NoResult
  /\ \E f \in {failing, Clean}, v \in Evidence :
       result' = [result EXCEPT ![g] =
         [type |-> "gate_run", failures |-> f, evidence |-> v]]
  /\ UNCHANGED <<logs, journal, failing, hooks, changes, faults>>

Recorded(g) == result' = [result EXCEPT ![g] = NoResult]

\* Mutant: a pending journal does not defer the event.
RecordGateAnyway(g) ==
  /\ result[g] # NoResult
  /\ IF Repeats(result[g]) THEN Skip ELSE Write(result[g])
  /\ Recorded(g)
  /\ UNCHANGED <<journal, failing, hooks, changes>>

\* recordEvent of a gate_run: read, compared and written under one lock.
RecordGate(g) ==
  /\ result[g] # NoResult
  /\ ~pending
  /\ IF Repeats(result[g]) THEN Skip ELSE Write(result[g])
  /\ Recorded(g)
  /\ UNCHANGED <<journal, failing, hooks, changes>>

LoseGate(g) ==
  /\ result[g] # NoResult
  /\ Skip
  /\ Recorded(g)
  /\ UNCHANGED <<journal, failing, hooks, changes>>

\* A transaction whose companion event is appended by replacing the log.
CommitCompletion ==
  /\ ~pending
  /\ CountEvent
  /\ live' = Append(live, Completion)
  /\ UNCHANGED <<rolled, journal, failing, result, hooks, changes, faults>>

\* Its writer dies, with the log replaced or not yet.
Die ==
  /\ ~pending
  /\ CountFault
  /\ pending' = TRUE /\ before' = live
  /\ live' \in {live, Append(live, Completion)}
  /\ UNCHANGED <<rolled, recorded, failing, result, hooks, changes>>

\* The next writer rolls back, if the log is one of the two it knows.
Recover ==
  /\ pending /\ live \in {before, Append(before, Completion)}
  /\ live' = before
  /\ pending' = FALSE /\ before' = <<>>
  /\ UNCHANGED <<rolled, recorded, failing, result, hooks, changes, faults>>
-----------------------------------------------------------------------------
(* runStopGate                                                             *)

GotoHook(h, from, to) == hook[h] = from /\ hook' = [hook EXCEPT ![h] = to]

\* The drift, arch and secret stages.  A hook that is called again because it
\* has just blocked (stop_hook_active) answers at once and is left out.
Inspect(h) ==
  /\ GotoHook(h, "idle", IF failing = Clean THEN "clean" ELSE "failing")
  /\ found' = [found EXCEPT ![h] = failing]
  /\ UNCHANGED <<logs, journal, failing, marker, result, changes, faults>>

\* Nothing fails: the block is resolved and the session may end.
Resolve(h) ==
  /\ GotoHook(h, "clean", "idle")
  /\ marker' = Clean
  /\ UNCHANGED <<logs, journal, failing, found, result, changes, faults>>

\* The marker is read: are these the failures that were blocked last?
Compare(h) ==
  /\ GotoHook(h, "failing", IF marker = found[h] THEN "known" ELSE "fresh")
  /\ UNCHANGED <<logs, journal, failing, marker, found, result, changes, faults>>

\* Mutant: a marker that is already there is kept.
PersistFirst(h) ==
  /\ GotoHook(h, "fresh", "blocking")
  /\ marker' = IF marker = Clean THEN found[h] ELSE marker
  /\ UNCHANGED <<logs, journal, failing, found, result, changes, faults>>

\* The marker is written, if the state directory is writable.
Persist(h) ==
  /\ GotoHook(h, "fresh", "blocking")
  /\ \/ marker' = found[h] /\ UNCHANGED faults
     \/ CountFault /\ UNCHANGED marker
  /\ UNCHANGED <<logs, journal, failing, found, result, changes>>

\* The outcome is recorded or lost, and the hook answers.
Answer(h, from, type) ==
  /\ GotoHook(h, from, "idle")
  /\ \/ ~pending /\ Write([type |-> type, failures |-> found[h]])
     \/ Skip
  /\ found' = [found EXCEPT ![h] = Clean]
  /\ UNCHANGED <<journal, failing, marker, result, changes>>

Block(h) == Answer(h, "blocking", "stop_blocked")
Allow(h) == Answer(h, "known", "stop_exit_recorded")
-----------------------------------------------------------------------------
\* Somebody edits the tree.
Change(f) ==
  /\ changes < MaxChanges /\ changes' = changes + 1
  /\ f # failing /\ failing' = f
  /\ UNCHANGED <<logs, journal, result, hooks, faults>>

HookRuns(h) == Resolve(h) \/ Compare(h) \/ Persist(h) \/ Block(h) \/ Allow(h)

LogNext ==
  \/ \E g \in Gate : RunGate(g) \/ RecordGate(g) \/ LoseGate(g)
  \/ \E h \in Session : Inspect(h) \/ HookRuns(h)
  \/ \E f \in Found : Change(f)
  \/ CommitCompletion \/ Die \/ Recover

LogSpec == LogInit /\ [][LogNext]_logVars

\* A hook that has begun runs to its answer.
FairLogSpec == LogSpec /\ \A h \in Session : WF_logVars(HookRuns(h))
-----------------------------------------------------------------------------
(* Properties                                                              *)

\* Types, and a hook that remembers failures exactly while it deals with them.
LogTypeOK ==
  /\ live \in Seq(Event) /\ rolled \in Seq(Event)
  /\ pending \in BOOLEAN /\ before \in Seq(Event)
  /\ failing \in Found /\ marker \in Found
  /\ result \in [Gate -> GateRun \cup {NoResult}]
  /\ hook \in [Session -> {"idle", "clean", "failing", "fresh", "blocking",
                           "known"}]
  /\ found \in [Session -> Found]
  /\ \A h \in Session : hook[h] \in {"idle", "clean"} <=> found[h] = Clean
  /\ recorded \in Nat /\ changes \in Nat /\ faults \in Nat

\* summarizeStopOutcomes: the block at i counts as observed by a later gate.
Observed(log, i) ==
  \E j \in (i + 1)..Len(log) :
    log[j].type = "gate_run" /\ log[j].failures = log[i].failures

\* Once a gate run has been recorded, or recognised as a repetition, every
\* block of what that gate found counts as observed by a later gate, across
\* the roll too: leaving repetitions out never makes a block look unobserved.
BlocksAreObserved ==
  [][\A g \in Gate : RecordGate(g) =>
       LET log == rolled' \o live'
       IN \A i \in 1..Len(log) :
            log[i].type = "stop_blocked"
              /\ log[i].failures = result[g].failures => Observed(log, i)]_logVars

\* Two gate runs that say the same, whatever processes recorded them, have
\* between them a blocked stop or a gate run that says something else: nothing
\* other than these makes the log grow by repetitions.
GatesDoNotRepeat ==
  \A i, j \in 1..Len(live) :
    i < j /\ live[i] = live[j] /\ live[i].type = "gate_run" =>
      \E k \in (i + 1)..(j - 1) :
        \/ live[k].type = "stop_blocked"
        \/ live[k].type = "gate_run" /\ live[k] # live[i]

\* Leaving gate runs out: all repetitions are, and no block seems unobserved
\* for it.
OnlyRepetitionsAreLeftOut == []GatesDoNotRepeat /\ BlocksAreObserved

\* Observers never put a log of their own beside the two images of a pending
\* journal: its recovery is not stopped by telemetry, and discards none.
JournalStaysRecoverable ==
  pending => live \in {before, Append(before, Completion)}

\* A failure that cannot be mended does not trap the user: once the tree no
\* longer changes, no hook blocks any more from some time on, also when hooks
\* of other sessions left the marker of failures that are gone.
NobodyIsTrapped ==
  <>[](\A h \in Session : hook[h] \notin {"fresh", "blocking"})
=============================================================================
