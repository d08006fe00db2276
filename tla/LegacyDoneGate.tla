--------------------------- MODULE LegacyDoneGate ---------------------------
(***************************************************************************)
(* Completion of one feature under schema 0.1 (clad done): the status is   *)
(* set to done first, the gate runs on what it then finds, and the status  *)
(* is kept or restored when the gate has answered.                         *)
(*                                                                         *)
(* Each of the three writes holds the workspace lock and is one journalled *)
(* transaction, hence one step (SpecTransaction); the projections it       *)
(* rewrites with the feature are functions of it and left out.  Nothing is *)
(* held while the gate runs: other attempts and other writers come between.*)
(***************************************************************************)
EXTENDS Naturals

CONSTANTS Attempt,    \* attempts to complete the feature, each in a process
          Status,     \* its statuses
          Text,       \* what it says besides its status
          None,       \* nothing remembered, nothing inspected
          MaxEdits,   \* bound on edits by others
          MaxFaults   \* bound on crashes and on compensations that fail

ASSUME LegacyAssumption ==
  /\ "done" \in Status
  /\ None \notin [status : Status, text : Text]
  /\ MaxEdits \in Nat /\ MaxFaults \in Nat

VARIABLES shard,     \* the feature: its status and the rest
          phase,     \* of each attempt
          before,    \* the feature each attempt found: its rollback
          seen,      \* history: the feature its gate inspected
          earned,    \* history: a gate was GREEN since it last turned done
          returned,  \* history: attempts whose target changed and came back
          edits, faults  \* counters for the bounds

counters == <<edits, faults>>
history == <<earned, returned>>
vars == <<shard, phase, before, seen, history, counters>>

Shard == [status : Status, text : Text]
Waiting == {"gating", "green", "red"}
Phase == {"idle", "refused", "kept", "stale", "reverted", "stuck", "crashed"}
           \cup Waiting

\* The feature as a's mark left it.
Target(a) == [before[a] EXCEPT !.status = "done"]

\* What an attempt remembers in each phase.
Remembers ==
  \A a \in Attempt :
    /\ phase[a] \in {"idle", "refused"} <=> before[a] = None
    /\ phase[a] \in {"green", "red", "kept", "stale", "reverted", "stuck"} =>
         seen[a] # None

TypeOK ==
  /\ shard \in Shard
  /\ phase \in [Attempt -> Phase]
  /\ before \in [Attempt -> Shard \cup {None}]
  /\ seen \in [Attempt -> Shard \cup {None}]
  /\ Remembers
  /\ earned \in BOOLEAN
  /\ returned \in SUBSET Attempt
  /\ edits \in Nat /\ faults \in Nat

Init ==
  /\ shard \in Shard /\ shard.status # "done"
  /\ phase = [a \in Attempt |-> "idle"]
  /\ before = [a \in Attempt |-> None]
  /\ seen = [a \in Attempt |-> None]
  /\ earned = FALSE
  /\ returned = {}
  /\ edits = 0 /\ faults = 0

Goto(a, from, to) == phase[a] = from /\ phase' = [phase EXCEPT ![a] = to]

\* Attempts that will find their target again, after it had been something else.
CameBack == {a \in Attempt :
  phase[a] \in Waiting /\ shard # Target(a) /\ shard' = Target(a)}

\* Every write of the feature.
Write(s) == shard' = s /\ returned' = returned \cup CameBack
-----------------------------------------------------------------------------
(* runDone, schema 0.1                                                     *)

\* markFeatureDoneForGate: the provisional flip, whatever the status was.
Mark(a) ==
  /\ Goto(a, "idle", "gating")
  /\ before' = [before EXCEPT ![a] = shard]
  /\ Write([shard EXCEPT !.status = "done"])
  /\ earned' = (earned /\ shard.status = "done")
  /\ UNCHANGED <<seen, counters>>

\* No such feature, a design impact to review, or the lock is busy.
MarkRefused(a) ==
  /\ Goto(a, "idle", "refused")
  /\ UNCHANGED <<shard, before, seen, history, counters>>

\* The gate inspects the feature as it is by now.  A gate that throws, and a
\* GREEN one that the independence policy does not accept, count as red.
Inspect(a) ==
  /\ \/ Goto(a, "gating", "green")
     \/ Goto(a, "gating", "red")
  /\ seen' = [seen EXCEPT ![a] = shard]
  /\ UNCHANGED <<shard, before, history, counters>>

\* Mutant: a check of the status in place of the exact target.
KeepIfDone(a) ==
  /\ Goto(a, "green", "kept")
  /\ shard.status = "done"
  /\ earned' = TRUE
  /\ UNCHANGED <<shard, before, seen, returned, counters>>

\* finalizeFeatureDoneForGate: the exact target is still there.
Keep(a) ==
  /\ Goto(a, "green", "kept")
  /\ shard = Target(a)
  /\ earned' = TRUE
  /\ UNCHANGED <<shard, before, seen, returned, counters>>

\* restoreTopLevelStatus, for a feature that is still done.
StatusRestored(a) ==
  IF shard.status = "done"
  THEN [shard EXCEPT !.status = before[a].status] ELSE shard

\* Mutant: a stale answer that leaves the feature as it is.
DropLeaves(a) ==
  /\ Goto(a, "green", "stale")
  /\ shard # Target(a)
  /\ UNCHANGED <<shard, before, seen, history, counters>>

\* It is not: the GREEN answer is stale, and only the status is taken back.
Drop(a) ==
  /\ Goto(a, "green", "stale")
  /\ shard # Target(a)
  /\ Write(StatusRestored(a))
  /\ UNCHANGED <<before, seen, earned, counters>>

\* Mutants: a rollback of its own bytes only, and one of whatever there is.
RevertExactOnly(a) ==
  /\ Goto(a, "red", "reverted")
  /\ Write(IF shard = Target(a) THEN before[a] ELSE shard)
  /\ UNCHANGED <<before, seen, earned, counters>>
RevertBytes(a) ==
  /\ Goto(a, "red", "reverted")
  /\ Write(before[a])
  /\ UNCHANGED <<before, seen, earned, counters>>

\* restoreFailedDoneForGate: the remembered bytes if nobody has touched them.
Revert(a) ==
  /\ Goto(a, "red", "reverted")
  /\ Write(IF shard = Target(a) THEN before[a] ELSE StatusRestored(a))
  /\ UNCHANGED <<before, seen, earned, counters>>

\* The lock is busy for five seconds, or the transaction fails: the command
\* reports it and ends.
Stuck(a) ==
  /\ faults < MaxFaults /\ faults' = faults + 1
  /\ \/ Goto(a, "green", "stuck")
     \/ Goto(a, "red", "stuck")
  /\ UNCHANGED <<shard, before, seen, history, edits>>
-----------------------------------------------------------------------------
(* The environment                                                         *)

\* Other writers change the text and the status.  One that writes done by hand
\* bypasses the command and is left out.
Edit(s) ==
  /\ edits < MaxEdits /\ edits' = edits + 1
  /\ s # shard
  /\ s.status = "done" => shard.status = "done"
  /\ Write(s)
  /\ UNCHANGED <<phase, before, seen, earned, faults>>

Crash(a) ==
  /\ faults < MaxFaults /\ faults' = faults + 1
  /\ phase[a] \in Waiting
  /\ phase' = [phase EXCEPT ![a] = "crashed"]
  /\ UNCHANGED <<shard, before, seen, history, edits>>

Finalize(a) == Keep(a) \/ Drop(a)
AttemptStep(a) ==
  Mark(a) \/ MarkRefused(a) \/ Inspect(a) \/ Finalize(a) \/ Revert(a) \/ Stuck(a)
Next == \/ \E a \in Attempt : AttemptStep(a) \/ Crash(a)
        \/ \E s \in Shard : Edit(s)

Spec == Init /\ [][Next]_vars

\* A command runs on to its end unless its process dies.
Fairness == \A a \in Attempt :
  WF_vars(Mark(a) \/ MarkRefused(a) \/ Inspect(a) \/ Finalize(a) \/ Revert(a))
FairSpec == Spec /\ Fairness
-----------------------------------------------------------------------------
(* Properties                                                              *)

\* The attempts that found the feature not done.
Flipper(a) == before[a] # None /\ before[a].status # "done"

\* A feature that says done without a GREEN gate since it last turned done has
\* an attempt to answer for it: one that flipped the status itself and is still
\* under way, or died or failed before it could take it back.  Attempts that
\* overlap restore what another one wrote, each from its own memory.
NoUnearnedDone ==
  shard.status = "done" /\ ~earned =>
    \E a \in Attempt :
      Flipper(a) /\ phase[a] \in Waiting \cup {"stuck", "crashed"}

\* What a GREEN gate keeps is what that gate inspected, unless the feature had
\* changed and come back by the time it was compared.
KeptWasInspected ==
  \A a \in Attempt :
    phase[a] = "kept" /\ a \notin returned => seen[a] = Target(a)

\* Both halves of a completion: a done stands only while somebody answers for
\* it, and what a GREEN gate leaves is what it looked at.
DoneStands == NoUnearnedDone /\ KeptWasInspected

\* A completion never undoes the work of another writer, although its rollback
\* holds whole bytes of an older time: no step of it changes the text, and no
\* answer of a gate changes a status that someone has taken away from done.
OthersWorkSurvives ==
  [][\A a \in Attempt : phase'[a] # phase[a] =>
       /\ shard'.text = shard.text
       /\ phase[a] \in Waiting /\ shard.status # "done" => shard' = shard]_vars

\* A provisional done does not stay: a gate earns it or it is taken back, but
\* for an attempt that died or could not write.
Stranded ==
  \E a \in Attempt : Flipper(a) /\ phase[a] \in {"stuck", "crashed"}
ProvisionalSettles ==
  (shard.status = "done" /\ ~earned) ~>
    (shard.status # "done" \/ earned \/ Stranded)
=============================================================================
