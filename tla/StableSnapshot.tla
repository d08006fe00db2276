---------------------------- MODULE StableSnapshot ----------------------------
(***************************************************************************)
(* A reader of the managed files that takes no lock                        *)
(* (withStableSpecWorkspaceSnapshot) beside the writers of SpecTransaction. *)
(* It checks that nothing is under way, fingerprints the files and the two *)
(* transaction markers, does its work, fingerprints again and checks again;*)
(* it publishes its result when both fingerprints agree.  No read of two   *)
(* files, and no fingerprint, is atomic.  The reader enters the lock only  *)
(* to recover a journal that nobody owns.                                  *)
(***************************************************************************)
EXTENDS SpecTransaction

CONSTANT Reader   \* the process that reads; it writes in recovery only

ASSUME ReaderAssumption == Reader \in Proc

VARIABLES rpc,        \* what the reader does next
          left,       \* files its current pass has still to read
          epoch,      \* contents read by the first fingerprint
          journalMark, \* the journal it saw, by id; 0 if there was none
          lockMark,   \* "none", or the lock it saw is "current" or "gone"
          view,       \* contents its work has read
          same,       \* the second fingerprint agrees so far
          stores,     \* history: the committed stores of this attempt
          held,       \* history: what each file has held in this attempt
          reverted    \* history: a file has returned to an earlier content

readerRegisters == <<left, epoch, journalMark, lockMark, view, same>>
attempt == <<stores, held, reverted>>
snapshotVars == <<vars, rpc, readerRegisters, attempt>>

Settled == {"published", "busy", "failed", "dead"}
Reading == {"before", "markJournal", "markLock", "work", "after",
            "afterJournal", "afterLock", "statePending", "stateLocked"}

\* The journal file, by id.
Journal == IF published THEN txn.id ELSE 0

SnapshotTypeOK ==
  /\ TypeOK
  /\ rpc \in Settled \cup Reading \cup {"pending", "locked", "ownerless", "recover"}
  /\ left \in SUBSET File
  /\ epoch \in [File -> Content]
  /\ journalMark \in Nat
  /\ lockMark \in {"none", "current", "gone"}
  /\ view \in [File -> Content]
  /\ same \in BOOLEAN
  /\ stores \in SUBSET [File -> Content]
  /\ held \in [File -> SUBSET Content]
  /\ reverted \in BOOLEAN

Nothing == [f \in File |-> Absent]

SnapshotInit ==
  /\ Init
  /\ rpc = "pending"
  /\ left = {} /\ epoch = Nothing /\ view = Nothing
  /\ journalMark = 0 /\ lockMark = "none" /\ same = TRUE
  /\ stores = {} /\ held = [f \in File |-> {}] /\ reverted = FALSE
-----------------------------------------------------------------------------
(* The reader's calls                                                      *)

\* The reader executes one call that touches no file.
Call(from, to) == rpc = from /\ rpc' = to /\ UNCHANGED <<vars, attempt>>

\* hasPendingSpecTransaction, then hasSpecWorkspaceLock.
ProbePending ==
  /\ Call("pending", IF published THEN "ownerless" ELSE "locked")
  /\ UNCHANGED readerRegisters

\* waitForSnapshotRetry: the loop starts over with nothing in hand.
StartOver ==
  /\ rpc' = "pending"
  /\ left' = {} /\ epoch' = Nothing /\ view' = Nothing
  /\ journalMark' = 0 /\ lockMark' = "none" /\ same' = TRUE
  /\ stores' = {} /\ held' = [f \in File |-> {}] /\ reverted' = FALSE
  /\ UNCHANGED vars

ProbeLockBusy ==
  /\ rpc = "locked"
  /\ owner # NoProc
  /\ StartOver

\* The workspace is at rest: an attempt starts.
ProbeLockFree ==
  /\ rpc = "locked"
  /\ owner = NoProc
  /\ rpc' = "before"
  /\ left' = File
  /\ stores' = {Store}
  /\ held' = [f \in File |-> {disk[f]}]
  /\ UNCHANGED <<vars, epoch, journalMark, lockMark, view, same, reverted>>

\* Only an ownerless journal is recovered; a writer is waited for.
ProbeOwner ==
  \/ /\ owner = NoProc
     /\ Call("ownerless", "recover")
     /\ UNCHANGED readerRegisters
  \/ rpc = "ownerless" /\ owner # NoProc /\ StartOver

\* managedSpecWorkspaceDigest reads file after file.
ReadBefore(f) ==
  /\ f \in left
  /\ left' = left \ {f}
  /\ epoch' = [epoch EXCEPT ![f] = disk[f]]
  /\ Call("before", IF left = {f} THEN "markJournal" ELSE "before")
  /\ UNCHANGED <<journalMark, lockMark, view, same>>

\* transactionMarker of the journal, then of the lock, whose record is unique
\* to one acquisition.
MarkJournal ==
  /\ Call("markJournal", "markLock")
  /\ journalMark' = Journal
  /\ UNCHANGED <<left, epoch, lockMark, view, same>>

MarkLock ==
  /\ Call("markLock", "work")
  /\ lockMark' = IF owner = NoProc THEN "none" ELSE "current"
  /\ left' = File
  /\ UNCHANGED <<epoch, journalMark, view, same>>

\* The caller's work reads the files on its own.
ReadWork(f) ==
  /\ f \in left
  /\ view' = [view EXCEPT ![f] = disk[f]]
  /\ left' = IF left = {f} THEN File ELSE left \ {f}
  /\ Call("work", IF left = {f} THEN "after" ELSE "work")
  /\ UNCHANGED <<epoch, journalMark, lockMark, same>>

ReadAfter(f) ==
  /\ f \in left
  /\ left' = left \ {f}
  /\ same' = (same /\ disk[f] = epoch[f])
  /\ Call("after", IF left = {f} THEN "afterJournal" ELSE "after")
  /\ UNCHANGED <<epoch, journalMark, lockMark, view>>

CompareJournal ==
  /\ Call("afterJournal", "afterLock")
  /\ same' = (same /\ Journal = journalMark)
  /\ UNCHANGED <<left, epoch, journalMark, lockMark, view>>

CompareLock ==
  /\ Call("afterLock", "statePending")
  /\ same' = (same /\ IF owner = NoProc THEN lockMark = "none"
                                        ELSE lockMark = "current")
  /\ UNCHANGED <<left, epoch, journalMark, lockMark, view>>

\* Mutant: the second fingerprint is not compared with the first.
ProbeAgainOnly ==
  \/ /\ ~published
     /\ Call("statePending", "stateLocked")
     /\ UNCHANGED readerRegisters
  \/ rpc = "statePending" /\ published /\ StartOver

\* The state after the work; a moving epoch is thrown away.
ProbeAgain ==
  \/ /\ same /\ ~published
     /\ Call("statePending", "stateLocked")
     /\ UNCHANGED readerRegisters
  \/ rpc = "statePending" /\ ~(same /\ ~published) /\ StartOver

Publication ==
  \/ /\ owner = NoProc
     /\ Call("stateLocked", "published")
     /\ UNCHANGED readerRegisters
  \/ rpc = "stateLocked" /\ owner # NoProc /\ StartOver

\* A file that was listed is gone when it is read (isTransientSnapshotRace).
Vanished ==
  /\ rpc \in {"before", "after"}
  /\ \E f \in File : Absent \in held[f] /\ held[f] # {Absent}
  /\ StartOver

\* SNAPSHOT_WAIT_MS, or the wait for the lock in recovery, is over: BUSY.
TimeOut ==
  /\ \/ rpc = "pending"
     \/ rpc = "recover" /\ owner # Reader
  /\ Call(rpc, "busy")
  /\ UNCHANGED readerRegisters

ReaderStep ==
  \/ ProbePending \/ ProbeLockBusy \/ ProbeLockFree \/ ProbeOwner
  \/ MarkJournal \/ MarkLock \/ CompareJournal \/ CompareLock
  \/ ProbeAgain \/ Publication \/ Vanished
  \/ \E f \in File : ReadBefore(f) \/ ReadWork(f) \/ ReadAfter(f)
-----------------------------------------------------------------------------
(* The writers, and the reader's recovery                                  *)

\* Mutant: a reader that has recovered goes on to write.
RecoveryStepWrites ==
  /\ owner' = Reader /\ owner # Reader => rpc = "recover"
  /\ rpc' = CASE Reader \in dead' -> "dead"
              [] owner = Reader /\ owner' = NoProc ->
                   IF published THEN "failed" ELSE "pending"
              [] OTHER -> rpc

\* What a step of SpecTransaction means to the reader: it enters the lock to
\* recover only, does no work of its own there, and then starts over; a
\* recovery that fails, or a crash, ends it.
RecoveryStep ==
  /\ owner = Reader => ~Plan
  /\ owner' = Reader /\ owner # Reader => rpc = "recover"
  /\ rpc' = CASE Reader \in dead' -> "dead"
              [] owner = Reader /\ owner' = NoProc ->
                   IF published THEN "failed" ELSE "pending"
              [] OTHER -> rpc

WriterStep ==
  /\ Next
  /\ RecoveryStep
  /\ lockMark' = IF lockMark = "current" /\ owner' # owner THEN "gone" ELSE lockMark
  /\ IF rpc' \in Reading
     THEN /\ stores' = stores \cup {Store'}
          /\ held' = [f \in File |-> held[f] \cup {disk'[f]}]
          /\ reverted' = (reverted \/ \E f \in File : disk'[f] # disk[f]
                                                  /\ disk'[f] \in held[f])
     ELSE UNCHANGED attempt
  /\ UNCHANGED <<left, epoch, journalMark, view, same>>

SnapshotNext == ReaderStep \/ TimeOut \/ WriterStep

SnapshotSpec == SnapshotInit /\ [][SnapshotNext]_snapshotVars
-----------------------------------------------------------------------------
(* Properties                                                              *)

\* What the comment above withStableSpecWorkspaceSnapshot promises: a result
\* that is published was computed from one coherent snapshot, a state of the
\* atomic store during the attempt.
PublishesCoherent == rpc = "published" => view \in stores

\* What the code gives: that is so unless a journal was in the first
\* fingerprint, or a file returned to an earlier content during the attempt.
CoherentUnlessEpochHidden ==
  rpc = "published" => view \in stores \/ journalMark # 0 \/ reverted

\* Reading does not write: while the reader holds the lock, what the store
\* says stays the same, although files are rolled back (recoverSpecTransaction).
ReadingDoesNotWrite ==
  [][owner = Reader /\ foreign' = 0 => Store' = Store]_snapshotVars
=============================================================================
