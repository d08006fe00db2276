--------------------------- MODULE SpecTransaction ---------------------------
(***************************************************************************)
(* The write-ahead journal of the specification workspace: a commit of     *)
(* several managed files, the roll-back of an interrupted one, and the     *)
(* lock under which both run (withSpecWorkspaceLock).                      *)
(*                                                                         *)
(* The lock is the abstract one of OwnedLock, so only its owner has a      *)
(* program counter and registers.  A file is a model value with a content; *)
(* Absent is the content of a missing file.  Files are handled in any      *)
(* order: the code sorts their paths and nothing depends on it.  The same  *)
(* disk can be edited by a process that ignores the lock.                  *)
(***************************************************************************)
EXTENDS FiniteSets, Naturals

CONSTANTS Proc, NoProc,
          File,         \* managed files
          Content,      \* what a file can hold
          Absent,       \* the content of a file that is not there
          NoFile,
          MaxPlans,     \* bound on transactions
          MaxCrashes,   \* bound on crashed owners
          MaxErrors,    \* bound on ordinary I/O errors
          MaxForeign    \* bound on edits by processes that ignore the lock

ASSUME TransactionAssumption ==
  /\ NoProc \notin Proc
  /\ NoFile \notin File
  /\ Absent \in Content
  /\ MaxPlans \in Nat /\ MaxCrashes \in Nat
  /\ MaxErrors \in Nat /\ MaxForeign \in Nat

VARIABLES owner, dead,  \* the workspace lock
          disk,         \* content of every managed file
          temps,        \* files with a replacement temp beside them
          draft,        \* an unpublished journal temp is on disk
          txn,          \* the planned transaction; no files if there is none
          published,    \* txn is in the journal file
          step,         \* what the owner does next
          mode,         \* why it replaces files
          todo,         \* files its current pass has still to handle
          target,       \* the file replaceOne is working on, or NoFile
          expected,     \* the content replaceOne requires it to have
          plans, errors, foreign,  \* counters for the bounds
          alien,        \* history: files of txn that hold foreign bytes
          late          \* history: those whose edit nobody can notice in time

lockVars == <<owner, dead>>
counters == <<plans, errors, foreign>>
history == <<alien, late>>
journal == <<draft, txn, published>>
registers == <<step, mode, todo, target, expected>>
vars == <<lockVars, disk, temps, journal, registers, counters, history>>

Lock == INSTANCE OwnedLock

Transaction == [id : Nat, files : SUBSET File,
                before : [File -> Content], after : [File -> Content]]
NoTxn == [id |-> 0, files |-> {},
          before |-> [f \in File |-> Absent], after |-> [f \in File |-> Absent]]

\* The contents the journal accounts for.
Images(f) == {txn.before[f], txn.after[f]}

Undoing == mode \in {"recover", "rollback"}

TypeOK ==
  /\ owner \in Proc \cup {NoProc}
  /\ dead \in SUBSET Proc
  /\ disk \in [File -> Content]
  /\ temps \in SUBSET File
  /\ draft \in BOOLEAN /\ published \in BOOLEAN
  /\ txn \in Transaction
  /\ step \in {"out", "entered", "verify", "replace", "staged", "checked",
               "working", "drafted", "leave"}
  /\ mode \in {"none", "commit", "recover", "rollback"}
  /\ todo \in SUBSET File
  /\ target \in File \cup {NoFile}
  /\ expected \in Content
  /\ plans \in Nat /\ errors \in Nat /\ foreign \in Nat
  /\ alien \in SUBSET File /\ late \in SUBSET File

Init ==
  /\ Lock!Init
  /\ disk \in [File -> Content]
  /\ temps = {}
  /\ draft = FALSE
  /\ txn = NoTxn
  /\ published = FALSE
  /\ step = "out"
  /\ mode = "none"
  /\ todo = {}
  /\ target = NoFile
  /\ expected = Absent
  /\ plans = 0 /\ errors = 0 /\ foreign = 0
  /\ alien = {} /\ late = {}

\* The owner is running and is about to do s.
At(s) == owner \in Proc /\ owner \notin dead /\ step = s

\* The owner's replaceOne registers, once it is done with a file.
NoTarget == target' = NoFile /\ expected' = Absent

\* A transaction that was never published is forgotten with its process.
ForgetUnpublished ==
  /\ txn' = IF published THEN txn ELSE NoTxn
  /\ alien' = IF published THEN alien ELSE {}
  /\ late' = {}

\* Nothing of a finished transaction is foreign any more.
ForgetHistory == alien' = {} /\ late' = {}

StartPass(m) ==
  /\ step' = "verify"
  /\ mode' = m
  /\ todo' = txn.files
  /\ late' = {}
  /\ NoTarget
-----------------------------------------------------------------------------
(* withSpecWorkspaceLock                                                   *)

Enter(p) ==
  /\ step = "out"
  /\ Lock!Acquire(p)
  /\ step' = "entered"
  /\ UNCHANGED <<disk, temps, journal, mode, todo, target, expected, counters,
                 history>>

\* No journal: drafts of journals that were never published are removed.
NothingPending ==
  /\ At("entered")
  /\ ~published
  /\ draft' = FALSE
  /\ step' = "working"
  /\ UNCHANGED <<lockVars, disk, temps, txn, published, mode, todo, target,
                 expected, counters, history>>

\* Mutant: a pending journal is left to somebody else.
FindPendingBusy ==
  /\ At("entered")
  /\ published
  /\ step' = "leave"
  /\ UNCHANGED <<lockVars, disk, temps, journal, mode, todo, target, expected,
                 counters, history>>

\* A journal left by an interrupted transaction is rolled back first.
FindPending ==
  /\ At("entered")
  /\ published
  /\ StartPass("recover")
  /\ UNCHANGED <<lockVars, disk, temps, journal, counters, alien>>

\* The caller finds nothing to write, or refuses.
WorkNothing ==
  /\ At("working")
  /\ step' = "leave"
  /\ UNCHANGED <<lockVars, disk, temps, journal, mode, todo, target, expected,
                 counters, history>>

\* The caller returns or throws; releaseLock.
Leave ==
  /\ At("leave")
  /\ Lock!Release(owner)
  /\ step' = "out"
  /\ mode' = "none"
  /\ todo' = {}
  /\ NoTarget
  /\ ForgetUnpublished
  /\ UNCHANGED <<disk, temps, draft, published, counters>>
-----------------------------------------------------------------------------
(* commitSpecTransactionFiles                                              *)

\* Before-images are read under the lock; the journal is written to a temp.
Plan ==
  /\ At("working")
  /\ plans < MaxPlans
  /\ plans' = plans + 1
  /\ \E files \in (SUBSET File) \ {{}} : \E after \in [files -> Content] :
       txn' = [id     |-> plans + 1,
               files  |-> files,
               before |-> [f \in File |-> IF f \in files THEN disk[f] ELSE Absent],
               after  |-> [f \in File |-> IF f \in files THEN after[f] ELSE Absent]]
  /\ draft' = TRUE
  /\ step' = "drafted"
  /\ UNCHANGED <<lockVars, disk, temps, published, mode, todo, target,
                 expected, errors, foreign, history>>

Publish ==
  /\ At("drafted")
  /\ published' = TRUE
  /\ draft' = FALSE
  /\ step' = "replace"
  /\ mode' = "commit"
  /\ todo' = txn.files
  /\ UNCHANGED <<lockVars, disk, temps, txn, target, expected, counters,
                 history>>

\* An error inside the commit loop rolls the transaction back; an error of the
\* roll-back itself, or of the last unlink, leaves the journal pending.
Abandon ==
  IF mode = "commit" /\ todo # {}
  THEN StartPass("rollback")
  ELSE /\ step' = "leave"
       /\ NoTarget
       /\ UNCHANGED <<mode, todo, late>>

\* Mutant: the journal is unlinked while files are still to be replaced.
FinishEarly ==
  /\ At("replace")
  /\ published' = FALSE
  /\ txn' = NoTxn
  /\ step' = IF mode = "recover" THEN "working" ELSE "leave"
  /\ mode' = "none"
  /\ todo' = {}
  /\ ForgetHistory
  /\ UNCHANGED <<lockVars, disk, temps, draft, target, expected, counters>>

\* Every file has been handled: the journal is unlinked.  After a recovery the
\* caller's own work begins; after a commit or its roll-back it ends.
Finish ==
  /\ At("replace")
  /\ todo = {}
  /\ published' = FALSE
  /\ txn' = NoTxn
  /\ step' = IF mode = "recover" THEN "working" ELSE "leave"
  /\ mode' = "none"
  /\ ForgetHistory
  /\ UNCHANGED <<lockVars, disk, temps, draft, todo, target, expected,
                 counters>>
-----------------------------------------------------------------------------
(* recoverSpecTransactionUnderLock: every file is looked at before any is  *)
(* written.                                                                *)

\* Mutant: the images are not compared with the disk.
VerifyAny(f) ==
  /\ At("verify")
  /\ f \in todo
  /\ todo' = todo \ {f}
  /\ UNCHANGED <<lockVars, disk, temps, journal, step, mode, target, expected,
                 counters, history>>

Verify(f) ==
  /\ At("verify")
  /\ f \in todo
  /\ disk[f] \in Images(f)
  /\ todo' = todo \ {f}
  /\ UNCHANGED <<lockVars, disk, temps, journal, step, mode, target, expected,
                 counters, history>>

\* RECOVERY_FAILED: the journal is kept and nothing is written.
VerifyFails(f) ==
  /\ At("verify")
  /\ f \in todo
  /\ disk[f] \notin Images(f)
  /\ step' = "leave"
  /\ UNCHANGED <<lockVars, disk, temps, journal, mode, todo, target, expected,
                 counters, history>>

VerifyDone ==
  /\ At("verify")
  /\ todo = {}
  /\ step' = "replace"
  /\ todo' = txn.files
  /\ UNCHANGED <<lockVars, disk, temps, journal, mode, target, expected,
                 counters, history>>
-----------------------------------------------------------------------------
(* replaceOne                                                              *)

\* Mutant: an absent before-image is what every roll-back writes.
GoalAbsent(f) == IF mode = "commit" THEN txn.after[f] ELSE Absent

\* What the pass writes.
Goal(f) == IF mode = "commit" THEN txn.after[f] ELSE txn.before[f]

\* Mutant: recovery does not look for the temp of the interrupted replacement.
StageKeepsTemp(f) ==
  /\ At("replace")
  /\ f \in todo
  /\ mode = "commit" => disk[f] = txn.before[f] /\ f \notin temps
  /\ target' = f
  /\ expected' = disk[f]
  /\ temps' = IF Goal(f) = Absent THEN temps ELSE temps \cup {f}
  /\ step' = IF Goal(f) = Absent THEN "checked" ELSE "staged"
  /\ UNCHANGED <<lockVars, disk, journal, mode, todo, counters, history>>

\* The preimage is compared and the replacement written to a temp beside the
\* file; a deletion needs no temp.  A commit requires the before-image; a
\* roll-back first removes the interrupted replacement's temp and then takes
\* whatever it reads as the preimage.
Stage(f) ==
  /\ At("replace")
  /\ f \in todo
  /\ mode = "commit" => disk[f] = txn.before[f] /\ f \notin temps
  /\ target' = f
  /\ expected' = disk[f]
  /\ temps' = IF Goal(f) = Absent THEN temps \ {f} ELSE temps \cup {f}
  /\ step' = IF Goal(f) = Absent THEN "checked" ELSE "staged"
  /\ UNCHANGED <<lockVars, disk, journal, mode, todo, counters, history>>

\* The preimage has changed, or the temp already exists.
StageRefused(f) ==
  /\ At("replace")
  /\ f \in todo
  /\ mode = "commit"
  /\ disk[f] # txn.before[f] \/ f \in temps
  /\ Abandon
  /\ UNCHANGED <<lockVars, disk, temps, journal, counters, alien>>

Recheck ==
  /\ At("staged")
  /\ disk[target] = expected
  /\ step' = "checked"
  /\ UNCHANGED <<lockVars, disk, temps, journal, mode, todo, target, expected,
                 counters, history>>

\* The preimage has changed since: the temp is removed again.
RecheckRefused ==
  /\ At("staged")
  /\ disk[target] # expected
  /\ temps' = temps \ {target}
  /\ Abandon
  /\ UNCHANGED <<lockVars, disk, journal, counters, alien>>

\* renameSync, or unlinkSync for a deletion: the file changes in one step.  A
\* directory that cannot be synced is no error.
Apply ==
  /\ At("checked")
  /\ disk' = [disk EXCEPT ![target] = Goal(target)]
  /\ temps' = IF Goal(target) = Absent THEN temps ELSE temps \ {target}
  /\ alien' = alien \ {target}
  /\ todo' = todo \ {target}
  /\ step' = "replace"
  /\ NoTarget
  /\ late' = late \ {target}
  /\ UNCHANGED <<lockVars, journal, mode, counters>>
-----------------------------------------------------------------------------
(* Failures                                                                *)

\* A file operation fails (disk full, permission): temps stay as they are.
IOError ==
  /\ \E s \in {"verify", "replace", "staged", "checked"} : At(s)
  /\ errors < MaxErrors
  /\ errors' = errors + 1
  /\ Abandon
  /\ UNCHANGED <<lockVars, disk, temps, journal, plans, foreign, alien>>

\* The journal cannot be renamed into place: its draft stays behind, and there
\* is nothing to roll back.
PublishError ==
  /\ At("drafted")
  /\ errors < MaxErrors
  /\ errors' = errors + 1
  /\ step' = "leave"
  /\ UNCHANGED <<lockVars, disk, temps, journal, mode, todo, target, expected,
                 plans, foreign, history>>

\* The owner is interrupted anywhere.  Files, temps and journal stay.
Crash ==
  /\ owner \in Proc
  /\ Cardinality(dead) < MaxCrashes
  /\ Lock!Die(owner)
  /\ step' = "out"
  /\ mode' = "none"
  /\ todo' = {}
  /\ NoTarget
  /\ ForgetUnpublished
  /\ UNCHANGED <<disk, temps, draft, published, counters>>

\* The lock of a dead owner is retired (reclaimDeadLock).
Reclaim ==
  /\ Lock!Reclaim
  /\ UNCHANGED <<disk, temps, journal, registers, counters, history>>

\* An edit of f to c that nobody can notice before f is written: f has been
\* rechecked, or verified and not yet staged, or c is what the recheck expects.
Unnoticed(f, c) ==
  \/ step = "checked" /\ target = f
  \/ step = "staged" /\ target = f /\ c = expected
  \/ Undoing /\ step = "verify" /\ f \notin todo
  \/ /\ Undoing
     /\ step \in {"replace", "staged", "checked"}
     /\ f \in todo /\ target # f

\* A process that ignores the lock writes a managed file.  The edit is alien
\* to a transaction under way unless it equals one of the file's images.
ForeignEdit(f, c) ==
  /\ foreign < MaxForeign
  /\ foreign' = foreign + 1
  /\ disk[f] # c
  /\ disk' = [disk EXCEPT ![f] = c]
  /\ LET strange == f \in txn.files /\ c \notin Images(f)
     IN /\ alien' = IF strange THEN alien \cup {f} ELSE alien \ {f}
        /\ late' = IF strange /\ Unnoticed(f, c) THEN late \cup {f}
                                                 ELSE late \ {f}
  /\ UNCHANGED <<lockVars, temps, journal, registers, plans, errors>>
-----------------------------------------------------------------------------
Work ==
  \/ NothingPending \/ FindPending \/ WorkNothing \/ Leave
  \/ Plan \/ Publish \/ Finish \/ VerifyDone
  \/ Recheck \/ RecheckRefused \/ Apply
  \/ \E f \in File : Verify(f) \/ VerifyFails(f) \/ Stage(f) \/ StageRefused(f)

Next ==
  \/ Work \/ IOError \/ PublishError \/ Crash \/ Reclaim
  \/ \E p \in Proc : Enter(p)
  \/ \E f \in File, c \in Content : ForeignEdit(f, c)

Spec == Init /\ [][Next]_vars

\* The owner keeps running, a dead owner's lock is retired, and the workspace
\* is opened again: any mutation, and any reader, recovers a pending journal.
FairSpec ==
  /\ Spec
  /\ WF_vars(Work)
  /\ WF_vars(Reclaim)
  /\ WF_vars(\E p \in Proc : Enter(p))
-----------------------------------------------------------------------------
(* Properties                                                              *)

\* A pending journal can be rolled back: cooperative steps leave each of its
\* files in one of the two images recoverSpecTransactionUnderLock accepts.
Recoverable ==
  published => \A f \in txn.files \ alien : disk[f] \in Images(f)

\* Temps never outlive the journal that names them (removeTransactionTemp):
\* no later transaction finds one in its way.
TempsOwned == ~published => temps = {}

\* A journal is never the reason that a workspace cannot be written again:
\* it can be rolled back, and it leaves no temp behind.
JournalIsUsable == Recoverable /\ TempsOwned

\* Foreign bytes are never overwritten, except those that land after the last
\* look at the file: preimage mismatches fail closed (design D12).
NoSilentOverwrite ==
  [][\A f \in alien \ late : disk'[f] # disk[f] => foreign' # foreign]_vars

\* A journal left by a crash or an error does not wedge the workspace, as long
\* as nobody edits behind its back.
PendingResolved == published ~> ~published \/ foreign > 0

\* The files outside the transaction, and the before-images inside it.
Store == [f \in File |-> IF published /\ f \in txn.files
                         THEN txn.before[f] ELSE disk[f]]
Open == IF published THEN txn ELSE NoTxn

\* Until somebody edits behind their back, the managed files change by whole
\* transactions, in spite of crashes and errors at any point.
Abstract == INSTANCE AtomicStore WITH store <- Store, open <- Open
ImplementsAtomicStore ==
  /\ Abstract!Init
  /\ [][foreign' = 0 => [Abstract!Next]_(Abstract!vars)]_vars
=============================================================================
