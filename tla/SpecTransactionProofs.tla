------------------------ MODULE SpecTransactionProofs ------------------------
(***************************************************************************)
(* The journal is always recoverable, its temps never outlive it, foreign  *)
(* bytes are not overwritten unnoticed, and - when nobody ignores the lock *)
(* - the managed files implement an atomic store: for any files, contents, *)
(* processes and bounds.  The second half is about the reader without a    *)
(* lock of StableSnapshot, beside the same writers.                        *)
(***************************************************************************)
EXTENDS StableSnapshot, TLAPS

Replacing == {"replace", "staged", "checked"}
Passing == Replacing \cup {"verify"}

\* Only a running owner has something to do.
ControlInv ==
  /\ step # "out" => owner \in Proc \ dead
  /\ step = "verify" => Undoing
  /\ step \in Replacing => mode # "none"
  /\ step \in Passing => published
  /\ step \in Passing => todo \subseteq txn.files
  /\ step \in {"staged", "checked"} => target \in todo
  /\ step \notin {"staged", "checked"} => target = NoFile
  /\ step = "staged" /\ mode = "commit" => expected = txn.before[target]

\* Where a transaction can be, and what it is.
TxnInv ==
  /\ published => txn.files # {} /\ txn.id # 0
  /\ step = "drafted" => txn.files # {} /\ txn.id # 0 /\ ~published
  /\ ~published /\ step \notin {"drafted", "leave"} => txn = NoTxn
  /\ published => step \notin {"working", "drafted"}

\* Temps lie beside files of the journal that are still to be replaced.
TempInv ==
  /\ published => temps \subseteq txn.files
  /\ step \in Replacing => temps \subseteq todo
  /\ step = "replace" /\ mode = "commit" => temps = {}
  /\ step \in {"staged", "checked"} /\ mode = "commit" => temps \subseteq {target}
  /\ step = "staged" => Goal(target) # Absent
  /\ step = "checked" /\ Goal(target) = Absent => target \notin temps

\* Alien bytes are what the history says they are.
AlienInv ==
  /\ alien \subseteq txn.files
  /\ \A f \in alien : disk[f] \notin Images(f)
  /\ foreign = 0 => alien = {}
  /\ foreign <= MaxForeign

\* An alien edit that was not late is still to be noticed.
NoticeInv ==
  /\ step = "verify" => \A f \in alien \ late : f \in todo
  /\ step \in Replacing /\ Undoing =>
       \A f \in alien \ late : f \notin todo \/ f = target
  /\ step = "staged" /\ target \in alien \ late => disk[target] # expected
  /\ step = "checked" /\ target \in alien => target \in late

\* Without foreign edits a pass has done what it has to do so far.
ProgressInv ==
  foreign = 0 /\ step \in Replacing =>
    \A f \in txn.files \ todo : disk[f] = Goal(f)

\* What has been drafted is what is on the disk.
DraftInv ==
  step = "drafted" =>
    /\ \A f \in txn.files \ alien : disk[f] \in Images(f)
    /\ foreign = 0 => \A f \in txn.files : disk[f] = txn.before[f]

IInv == /\ TypeOK /\ ControlInv /\ TxnInv /\ TempInv /\ TempsOwned
        /\ AlienInv /\ Recoverable /\ NoticeInv /\ ProgressInv /\ DraftInv

LEMMA InitInv == Init => IInv
<1> SUFFICES ASSUME Init PROVE IInv
  OBVIOUS
<1> USE TransactionAssumption DEF Init, Lock!Init
<1>1. NoTxn \in Transaction
  BY DEF NoTxn, Transaction
<1>2. TypeOK
  BY <1>1 DEF TypeOK
<1>3. txn.files = {}
  BY DEF NoTxn
<1> QED
  BY <1>2, <1>3 DEF IInv, ControlInv, TxnInv, TempInv, TempsOwned, AlienInv,
     Recoverable, NoticeInv, ProgressInv, DraftInv, Replacing, Passing, Undoing,
     Goal

-----------------------------------------------------------------------------
(* Each step keeps the invariant, section by section of the specification. *)

\* Taking the lock, finding or not finding a journal, giving the lock back.
LEMMA LockSteps ==
  ASSUME IInv
  PROVE  /\ \A p \in Proc : Enter(p) => IInv'
         /\ NothingPending \/ FindPending \/ WorkNothing \/ Leave => IInv'
<1> USE TransactionAssumption
    DEF IInv, TypeOK, Transaction, NoTxn, ControlInv, TxnInv, TempInv,
        TempsOwned, AlienInv, Recoverable, NoticeInv, ProgressInv, DraftInv,
        Replacing, Passing, Undoing, Images, Goal, At, NoTarget, lockVars,
        journal, registers, counters, history
<1>1. ASSUME NEW p \in Proc, Enter(p) PROVE IInv'
  BY <1>1 DEF Enter, Lock!Acquire
<1>2. CASE NothingPending
  BY <1>2 DEF NothingPending
<1>3. CASE FindPending
  BY <1>3 DEF FindPending, StartPass
<1>4. CASE WorkNothing
  BY <1>4 DEF WorkNothing
<1>5. CASE Leave
  BY <1>5 DEF Leave, Lock!Release, ForgetUnpublished
<1> QED
  <2>1. \A p \in Proc : Enter(p) => IInv'
    BY <1>1
  <2>2. NothingPending \/ FindPending \/ WorkNothing \/ Leave => IInv'
    BY <1>2, <1>3, <1>4, <1>5
  <2> QED BY ONLY <2>1, <2>2

\* The plan that a transaction starts from.
LEMMA PlanStep == ASSUME IInv, Plan PROVE IInv'
<1> USE TransactionAssumption
    DEF IInv, TypeOK, ControlInv, TxnInv, TempInv, TempsOwned, AlienInv,
        Recoverable, NoticeInv, ProgressInv, DraftInv, Replacing, Passing,
        Undoing, Images, At, lockVars, journal, registers, counters, history
<1> DEFINE Planned(files, after) ==
      [id     |-> plans + 1,
       files  |-> files,
       before |-> [f \in File |-> IF f \in files THEN disk[f] ELSE Absent],
       after  |-> [f \in File |-> IF f \in files THEN after[f] ELSE Absent]]
<1>0. PICK files \in (SUBSET File) \ {{}} :
        \E after \in [files -> Content] : txn' = Planned(files, after)
  BY DEF Plan
<1>1. PICK after \in [files -> Content] : txn' = Planned(files, after)
  BY <1>0
<1>2. txn' \in Transaction
  BY <1>1 DEF Transaction
<1>3. txn'.files # {} /\ txn'.id # 0 /\ \A f \in txn'.files : f \in File /\ txn'.before[f] = disk[f]
  BY <1>1
<1>4. alien = {} /\ txn = NoTxn
  BY DEF Plan, NoTxn
<1>5. TypeOK'
  <2>1. UNCHANGED <<lockVars, disk, temps, published, mode, todo, target,
                    expected, errors, foreign, history>>
    BY DEF Plan
  <2>2. draft' = TRUE /\ step' = "drafted" /\ plans' \in Nat
    BY DEF Plan
  <2> QED BY ONLY IInv, <1>2, <2>1, <2>2 DEF IInv, TypeOK, lockVars, history
<1>6. AlienInv' /\ DraftInv' /\ TxnInv'
  BY <1>3, <1>4 DEF Plan
<1>7. ControlInv' /\ TempInv' /\ TempsOwned' /\ Recoverable' /\ NoticeInv' /\ ProgressInv'
  BY <1>4 DEF Plan
<1> QED BY ONLY <1>5, <1>6, <1>7 DEF IInv

\* Publishing the journal, unlinking it, and looking at its files.
LEMMA JournalSteps ==
  ASSUME IInv
  PROVE  /\ Publish \/ Finish \/ VerifyDone => IInv'
         /\ \A f \in File : Verify(f) \/ VerifyFails(f) => IInv'
<1> USE TransactionAssumption
    DEF IInv, TypeOK, Transaction, NoTxn, ControlInv, TxnInv, TempInv,
        TempsOwned, AlienInv, Recoverable, NoticeInv, ProgressInv, DraftInv,
        Replacing, Passing, Undoing, Images, Goal, At, lockVars, journal,
        registers, counters, history
<1>1. CASE Publish
  BY <1>1 DEF Publish
<1>2. CASE Finish
  BY <1>2 DEF Finish, ForgetHistory
<1>3. CASE VerifyDone
  BY <1>3 DEF VerifyDone
<1>4. ASSUME NEW f \in File, Verify(f) PROVE IInv'
  BY <1>4 DEF Verify
<1>5. ASSUME NEW f \in File, VerifyFails(f) PROVE IInv'
  BY <1>5 DEF VerifyFails
<1> QED
  <2>1. Publish \/ Finish \/ VerifyDone => IInv'
    BY <1>1, <1>2, <1>3
  <2>2. \A f \in File : Verify(f) \/ VerifyFails(f) => IInv'
    BY <1>4, <1>5
  <2> QED BY ONLY <2>1, <2>2

\* replaceOne, step by step.
LEMMA ReplaceSteps ==
  ASSUME IInv
  PROVE  /\ \A f \in File : Stage(f) \/ StageRefused(f) => IInv'
         /\ Recheck \/ RecheckRefused \/ Apply => IInv'
<1> USE TransactionAssumption
    DEF IInv, TypeOK, Transaction, NoTxn, ControlInv, TxnInv, TempInv,
        TempsOwned, AlienInv, Recoverable, NoticeInv, ProgressInv, DraftInv,
        Replacing, Passing, Undoing, Images, Goal, At, NoTarget, StartPass,
        Abandon, lockVars, journal, registers, counters, history
<1>1. ASSUME NEW f \in File, Stage(f) PROVE IInv'
  BY <1>1 DEF Stage
<1>2. ASSUME NEW f \in File, StageRefused(f) PROVE IInv'
  BY <1>2 DEF StageRefused
<1>3. CASE Recheck
  BY <1>3 DEF Recheck
<1>4. CASE RecheckRefused
  BY <1>4 DEF RecheckRefused
<1>5. CASE Apply
  BY <1>5 DEF Apply
<1> QED
  <2>1. \A f \in File : Stage(f) \/ StageRefused(f) => IInv'
    BY <1>1, <1>2
  <2>2. Recheck \/ RecheckRefused \/ Apply => IInv'
    BY <1>3, <1>4, <1>5
  <2> QED BY ONLY <2>1, <2>2

\* Errors, crashes, and edits that ignore the lock.
LEMMA FailureSteps ==
  ASSUME IInv
  PROVE  /\ IOError \/ PublishError \/ Crash \/ Reclaim => IInv'
         /\ \A f \in File, c \in Content : ForeignEdit(f, c) => IInv'
<1> USE TransactionAssumption
    DEF IInv, TypeOK, Transaction, NoTxn, ControlInv, TxnInv, TempInv,
        TempsOwned, AlienInv, Recoverable, NoticeInv, ProgressInv, DraftInv,
        Replacing, Passing, Undoing, Images, Goal, At, NoTarget, lockVars,
        journal, registers, counters, history
<1>1. CASE IOError
  BY <1>1 DEF IOError, Abandon, StartPass
<1>2. CASE PublishError
  BY <1>2 DEF PublishError
<1>3. CASE Crash
  BY <1>3 DEF Crash, Lock!Die, ForgetUnpublished
<1>4. CASE Reclaim
  BY <1>4 DEF Reclaim, Lock!Reclaim
<1>5. ASSUME NEW f \in File, NEW c \in Content, ForeignEdit(f, c) PROVE IInv'
  BY <1>5 DEF ForeignEdit, Unnoticed
<1> QED
  <2>1. IOError \/ PublishError \/ Crash \/ Reclaim => IInv'
    BY <1>1, <1>2, <1>3, <1>4
  <2>2. \A f \in File, c \in Content : ForeignEdit(f, c) => IInv'
    BY <1>5
  <2> QED BY ONLY <2>1, <2>2

LEMMA StutterStep == ASSUME IInv, UNCHANGED vars PROVE IInv'
BY DEF IInv, TypeOK, Transaction, NoTxn, ControlInv, TxnInv, TempInv,
   TempsOwned, AlienInv, Recoverable, NoticeInv, ProgressInv, DraftInv,
   Replacing, Passing, Undoing, Images, Goal, vars, lockVars, journal,
   registers, counters, history

LEMMA InvStep == IInv /\ [Next]_vars => IInv'
BY LockSteps, PlanStep, JournalSteps, ReplaceSteps, FailureSteps, StutterStep
   DEF Next, Work

LEMMA Invariant == Spec => []IInv
BY InitInv, InvStep, PTL DEF Spec
-----------------------------------------------------------------------------
\* Type correctness of the disk, the journal and the owner's registers.
THEOREM TypeCorrect == Spec => []TypeOK
<1>1. IInv => TypeOK
  BY DEF IInv
<1> QED BY <1>1, Invariant, PTL

\* Whatever crashes, fails or is edited, a pending journal accounts for every
\* file nobody else has touched, and a transaction that is over leaves no temp.
THEOREM NoJournalWedges == Spec => []JournalIsUsable
<1>1. IInv => JournalIsUsable
  BY DEF IInv, JournalIsUsable
<1> QED BY <1>1, Invariant, PTL

\* Foreign bytes that a check can still notice survive every cooperative step.
THEOREM ForeignBytesSurvive == Spec => NoSilentOverwrite
<1> DEFINE Survives == \A f \in alien \ late :
                          disk'[f] # disk[f] => foreign' # foreign
<1>1. IInv /\ [Next]_vars => [Survives]_vars
  <2> SUFFICES ASSUME IInv, Next, NEW f \in alien \ late,
                      disk'[f] # disk[f], foreign' = foreign
               PROVE  FALSE
    BY DEF NoSilentOverwrite
  <2>1. CASE Apply
    BY <2>1 DEF Apply, At, IInv, TypeOK, AlienInv, NoticeInv
  <2>2. ~\E g \in File, c \in Content : ForeignEdit(g, c)
    BY DEF ForeignEdit, IInv, TypeOK
  <2> QED
    BY <2>1, <2>2 DEF Next, Work, Enter, NothingPending, FindPending,
       WorkNothing, Leave, Plan, Publish, Finish, Verify, VerifyFails,
       VerifyDone, Stage, StageRefused, Recheck, RecheckRefused, IOError,
       PublishError, Crash, Reclaim
<1> QED BY <1>1, Invariant, PTL DEF Spec, NoSilentOverwrite
-----------------------------------------------------------------------------
(* Refinement: Publish opens an abstract transaction, Finish commits or     *)
(* aborts it, every other step stutters.                                    *)

LEMMA InitRefines == Init => Abstract!Init
BY TransactionAssumption DEF Init, Abstract!Init, Store, Open, NoTxn

LEMMA OpenRefines ==
  ASSUME IInv, foreign = 0, Publish
  PROVE  Abstract!Open
BY DEF Publish, At, IInv, TypeOK, TxnInv, DraftInv, Abstract!Open, Store, Open,
   NoTxn, Transaction, lockVars, counters

LEMMA FinishRefines ==
  ASSUME IInv, foreign = 0, Finish PROVE Abstract!Commit \/ Abstract!Abort
<1> USE DEF Finish, At, IInv, TypeOK, TxnInv, ControlInv, ProgressInv,
            Replacing, Passing, Goal, Store, Open, NoTxn, Transaction
<1>1. CASE mode = "commit"
  <2>1. Abstract!Commit
    BY <1>1 DEF Abstract!Commit
  <2> QED BY <2>1
<1>2. CASE mode # "commit"
  <2>1. Abstract!Abort
    BY <1>2 DEF Abstract!Abort
  <2> QED BY <2>1
<1> QED BY <1>1, <1>2

LEMMA ApplyRefines ==
  ASSUME IInv, Apply PROVE UNCHANGED Abstract!vars
BY DEF Apply, At, IInv, TypeOK, ControlInv, Replacing, Passing, Abstract!vars,
   Store, Open, journal

\* The other steps change neither the disk nor the journal file.
LEMMA OthersRefine ==
  ASSUME IInv, [Next]_vars, foreign' = foreign, ~Publish, ~Finish, ~Apply
  PROVE  UNCHANGED Abstract!vars
<1>1. UNCHANGED disk
  BY DEF Next, Work, vars, Enter, NothingPending, FindPending, WorkNothing,
     Leave, Plan, Verify, VerifyFails, VerifyDone, Stage, StageRefused,
     Recheck, RecheckRefused, IOError, PublishError, Crash, Reclaim,
     ForeignEdit, IInv, TypeOK
<1>2. UNCHANGED published
  BY DEF Next, Work, vars, journal, Enter, NothingPending, FindPending,
     WorkNothing, Leave, Plan, Verify, VerifyFails, VerifyDone, Stage,
     StageRefused, Recheck, RecheckRefused, IOError, PublishError, Crash,
     Reclaim, ForeignEdit, At, IInv, TypeOK, TxnInv
<1>3. published /\ published' => UNCHANGED txn
  BY DEF Next, Work, vars, journal, Enter, NothingPending, FindPending,
     WorkNothing, Leave, Plan, Verify, VerifyFails, VerifyDone, Stage,
     StageRefused, Recheck, RecheckRefused, IOError, PublishError, Crash,
     Reclaim, ForeignEdit, ForgetUnpublished, At, IInv, TxnInv
<1> QED BY <1>1, <1>2, <1>3 DEF Abstract!vars, Store, Open

\* The journalled commit is an atomic store, until the first edit by somebody
\* who does not take the lock.
THEOREM TransactionsAreAtomic == Spec => ImplementsAtomicStore
<1>1. IInv /\ IInv' /\ [Next]_vars =>
        (foreign' = 0 => [Abstract!Next]_(Abstract!vars))
  <2> SUFFICES ASSUME IInv, IInv', [Next]_vars, foreign' = 0
               PROVE  Abstract!Next \/ UNCHANGED Abstract!vars
    OBVIOUS
  <2>1. foreign' = foreign \/ foreign' = foreign + 1
    BY DEF Next, Work, vars, counters, Enter, NothingPending, FindPending,
       WorkNothing, Leave, Plan, Publish, Finish, Verify, VerifyFails,
       VerifyDone, Stage, StageRefused, Recheck, RecheckRefused, Apply,
       IOError, PublishError, Crash, Reclaim, ForeignEdit
  <2>2. foreign = 0
    BY <2>1 DEF IInv, TypeOK
  <2> QED
    BY <2>2, OpenRefines, FinishRefines, ApplyRefines, OthersRefine
       DEF Abstract!Next
<1>2. IInv /\ IInv' /\ [Next]_vars =>
        [foreign' = 0 => [Abstract!Next]_(Abstract!vars)]_vars
  BY <1>1
<1> QED
  BY <1>2, InitRefines, Invariant, PTL
     DEF Spec, ImplementsAtomicStore
-----------------------------------------------------------------------------
(* The reader (StableSnapshot).  What it publishes is a state of the atomic *)
(* store, unless its first fingerprint held a journal or a file returned   *)
(* to an earlier content.  The argument is the one of a sequence lock:     *)
(* each file that both fingerprints agree on, and that never returned to   *)
(* an earlier content, was constant from its first reading to its last, so *)
(* all of them held at the moment the journal was found absent.            *)

\* The reader has found the journal marker of its first fingerprint.
Marked == Reading \ {"before", "markJournal"}
Ending == Marked \ {"markLock", "work", "after"}

\* Files the second fingerprint has still to agree on.
Unconfirmed == IF rpc = "after" THEN left ELSE IF rpc \in Ending THEN {} ELSE File

\* f no longer holds what the first fingerprint read, and will not again.
Lost(f) == disk[f] # epoch[f] /\ epoch[f] \in held[f]

HeldInv == rpc \in Reading =>
  Store \in stores /\ \A f \in File : disk[f] \in held[f]

EpochInv == rpc \in Reading =>
  \A f \in File : (rpc = "before" /\ f \in left) \/ epoch[f] \in held[f]

MarkInv == rpc \in Marked /\ same /\ ~reverted /\ journalMark = 0 =>
  epoch \in stores \/ \E f \in Unconfirmed : Lost(f)

ViewInv == rpc \in Marked \ {"markLock"} /\ same /\ ~reverted =>
  \A f \in File : \/ rpc = "work" /\ f \in left
                  \/ view[f] = epoch[f]
                  \/ f \in Unconfirmed /\ Lost(f)

\* Nothing else is left when the reader has compared everything.
SameInv == rpc = "stateLocked" => same

SnapInv == /\ IInv /\ SnapshotTypeOK
           /\ HeldInv /\ EpochInv /\ MarkInv /\ ViewInv /\ SameInv
           /\ CoherentUnlessEpochHidden

LEMMA SnapInit == SnapshotInit => SnapInv
<1> SUFFICES ASSUME SnapshotInit PROVE SnapInv
  OBVIOUS
<1>1. IInv /\ TypeOK
  BY InitInv DEF SnapshotInit, IInv
<1> QED
  BY <1>1, TransactionAssumption DEF SnapInv, SnapshotInit, SnapshotTypeOK,
     HeldInv, EpochInv, MarkInv, ViewInv, SameInv, CoherentUnlessEpochHidden,
     Reading, Marked, Settled, Nothing

-----------------------------------------------------------------------------
(* The reader's calls                                                      *)

\* The reader's calls leave what it reads alone.
LEMMA StoreUnread == UNCHANGED vars => Store' = Store /\ disk' = disk
BY DEF vars, journal, Store

LEMMA StartOverStep == ASSUME SnapInv, StartOver PROVE SnapInv'
<1>1. IInv'
  BY StutterStep DEF SnapInv, StartOver
<1>2. TypeOK'
  BY <1>1 DEF IInv
<1> QED
  BY <1>1, <1>2, TransactionAssumption DEF SnapInv, StartOver, SnapshotTypeOK,
     HeldInv, EpochInv, MarkInv, ViewInv, SameInv, CoherentUnlessEpochHidden,
     Reading, Marked, Settled, Nothing

\* Everything up to the first marker.
LEMMA FirstFingerprint ==
  ASSUME SnapInv,
         ProbePending \/ ProbeLockFree \/ (ProbeOwner /\ ~StartOver)
           \/ MarkJournal \/ MarkLock \/ \E f \in File : ReadBefore(f)
  PROVE  SnapInv'
<1>1. UNCHANGED vars
  BY DEF ProbePending, ProbeLockFree, ProbeOwner, MarkJournal, MarkLock,
     ReadBefore, Call
<1>2. IInv' /\ TypeOK'
  BY <1>1, StutterStep DEF SnapInv, IInv
<1>3. Store' = Store /\ disk' = disk /\ Store \in [File -> Content]
  BY <1>1, StoreUnread DEF SnapInv, IInv, TypeOK, Transaction, Store
<1> USE <1>2, <1>3, TransactionAssumption
    DEF SnapInv, SnapshotTypeOK, HeldInv, EpochInv, MarkInv, ViewInv, SameInv,
        CoherentUnlessEpochHidden, Reading, Marked, Ending, Settled,
        Unconfirmed, Lost, readerRegisters, attempt
<1>4. CASE ProbePending
  BY <1>4 DEF ProbePending, Call
<1>5. CASE ProbeLockFree
  BY <1>5 DEF ProbeLockFree, TypeOK
<1>6. CASE ProbeOwner /\ ~StartOver
  BY <1>6 DEF ProbeOwner, Call
<1>7. CASE MarkJournal
  <2>1. Journal \in Nat
    BY DEF Journal, TypeOK, Transaction
  <2>2. Journal = 0 => Store = disk
    BY DEF Journal, IInv, TypeOK, Transaction, TxnInv, Store
  <2>3. epoch # disk => \E f \in File : disk[f] # epoch[f]
    BY DEF TypeOK
  <2> QED
    BY <1>7, <2>1, <2>2, <2>3 DEF MarkJournal, Call
<1>8. CASE MarkLock
  BY <1>8 DEF MarkLock, Call
<1>9. ASSUME NEW f \in File, ReadBefore(f) PROVE SnapInv'
  BY <1>9 DEF ReadBefore, Call, TypeOK
<1> QED
  BY <1>4, <1>5, <1>6, <1>7, <1>8, <1>9

\* The work, the second fingerprint and the publication.
LEMMA SecondFingerprint ==
  ASSUME SnapInv,
         CompareJournal \/ CompareLock \/ (ProbeAgain /\ ~StartOver)
           \/ (Publication /\ ~StartOver) \/ TimeOut
           \/ \E f \in File : ReadWork(f) \/ ReadAfter(f)
  PROVE  SnapInv'
<1>1. UNCHANGED vars
  BY DEF CompareJournal, CompareLock, ProbeAgain, Publication, TimeOut,
     ReadWork, ReadAfter, Call
<1>2. IInv' /\ TypeOK'
  BY <1>1, StutterStep DEF SnapInv, IInv
<1>3. Store' = Store /\ disk' = disk
  BY <1>1, StoreUnread
<1> USE <1>2, <1>3, TransactionAssumption
    DEF SnapInv, SnapshotTypeOK, HeldInv, EpochInv, MarkInv, ViewInv, SameInv,
        CoherentUnlessEpochHidden, Reading, Marked, Ending, Settled,
        Unconfirmed, Lost, readerRegisters, attempt
<1>4. CASE CompareJournal
  BY <1>4 DEF CompareJournal, Call
<1>5. CASE CompareLock
  BY <1>5 DEF CompareLock, Call
<1>6. CASE ProbeAgain /\ ~StartOver
  BY <1>6 DEF ProbeAgain, Call
<1>7. CASE Publication /\ ~StartOver
  <2>1. (\A f \in File : view[f] = epoch[f]) => view = epoch
    OBVIOUS
  <2> QED BY <1>7, <2>1 DEF Publication, Call
<1>8. CASE TimeOut
  BY <1>8 DEF TimeOut, Call
<1>9. ASSUME NEW f \in File, ReadWork(f) PROVE SnapInv'
  BY <1>9 DEF ReadWork, Call, TypeOK
<1>10. ASSUME NEW f \in File, ReadAfter(f) PROVE SnapInv'
  BY <1>10 DEF ReadAfter, Call
<1> QED
  BY <1>4, <1>5, <1>6, <1>7, <1>8, <1>9, <1>10

-----------------------------------------------------------------------------
(* The writers: what is lost stays lost, unless a file returns.             *)

LEMMA WriterKeeps == ASSUME SnapInv, WriterStep PROVE SnapInv'
<1>1. IInv' /\ TypeOK'
  BY InvStep DEF WriterStep, SnapInv, IInv
<1>2. rpc' \in {"dead", "failed", "pending", rpc}
  BY DEF WriterStep, RecoveryStep
<1>3. Store' \in [File -> Content]
  BY <1>1 DEF TypeOK, Transaction, Store
<1>4. SnapshotTypeOK'
  <2>1. /\ rpc' \in Settled \cup Reading \cup {"pending", "locked", "ownerless", "recover"}
        /\ lockMark' \in {"none", "current", "gone"}
        /\ UNCHANGED <<left, epoch, journalMark, view, same>>
    BY <1>2 DEF SnapInv, SnapshotTypeOK, WriterStep, Settled, Reading
  <2>2. stores' \in SUBSET [File -> Content] /\ reverted' \in BOOLEAN
    BY <1>3 DEF SnapInv, SnapshotTypeOK, WriterStep, attempt
  <2>3. held' \in [File -> SUBSET Content]
    <3>1. \A f \in File : disk'[f] \in Content /\ held[f] \subseteq Content
      BY <1>1 DEF SnapInv, SnapshotTypeOK, TypeOK
    <3>2. \/ UNCHANGED held
          \/ held' = [f \in File |-> held[f] \cup {disk'[f]}]
      BY DEF WriterStep, attempt
    <3> QED BY <3>1, <3>2 DEF SnapInv, SnapshotTypeOK
  <2> QED
    BY <1>1, <2>1, <2>2, <2>3 DEF SnapInv, SnapshotTypeOK
<1>5. CASE rpc' \notin Reading
  BY <1>1, <1>2, <1>4, <1>5 DEF SnapInv, HeldInv, EpochInv, MarkInv, ViewInv,
     SameInv, CoherentUnlessEpochHidden, Marked, Reading, WriterStep, attempt
<1>6. CASE rpc' \in Reading
  <2>1. rpc' = rpc
    BY <1>2, <1>6 DEF Reading
  <2>2. /\ stores' = stores \cup {Store'}
        /\ held' = [f \in File |-> held[f] \cup {disk'[f]}]
        /\ reverted' = (reverted \/ \E f \in File : disk'[f] # disk[f]
                                                    /\ disk'[f] \in held[f])
        /\ UNCHANGED <<left, epoch, journalMark, view, same>>
    BY <1>6 DEF WriterStep
  <2>3. ASSUME ~reverted', NEW f \in File, Lost(f) PROVE Lost(f)'
    BY <2>2, <2>3 DEF Lost
  <2>4. HeldInv' /\ EpochInv' /\ SameInv' /\ CoherentUnlessEpochHidden'
    BY <2>1, <2>2, <1>6 DEF SnapInv, SnapshotTypeOK, HeldInv, EpochInv,
       SameInv, CoherentUnlessEpochHidden, Reading
  <2>5. Unconfirmed' = Unconfirmed /\ Unconfirmed \subseteq File
    BY <2>1, <2>2 DEF Unconfirmed, SnapInv, SnapshotTypeOK
  <2>6. MarkInv'
    BY <2>1, <2>2, <2>3, <2>5 DEF SnapInv, MarkInv
  <2>7. ViewInv'
    BY <2>1, <2>2, <2>3, <2>5 DEF SnapInv, ViewInv
  <2> QED
    BY ONLY <1>1, <1>4, <2>4, <2>6, <2>7 DEF SnapInv
<1> QED BY <1>5, <1>6

LEMMA SnapStep == SnapInv /\ [SnapshotNext]_snapshotVars => SnapInv'
<1> SUFFICES ASSUME SnapInv, [SnapshotNext]_snapshotVars PROVE SnapInv'
  OBVIOUS
<1>1. CASE ReaderStep \/ TimeOut
  BY <1>1, StartOverStep, FirstFingerprint, SecondFingerprint
     DEF ReaderStep, ProbeLockBusy, Vanished
<1>2. CASE WriterStep
  BY <1>2, WriterKeeps
<1>3. CASE UNCHANGED snapshotVars
  <2>1. IInv' /\ TypeOK'
    BY <1>3, StutterStep DEF SnapInv, IInv, snapshotVars
  <2>2. UNCHANGED <<disk, Store, rpc, readerRegisters, attempt>>
    BY <1>3, StoreUnread DEF snapshotVars
  <2> QED
    BY <2>1, <2>2 DEF SnapInv, SnapshotTypeOK, HeldInv, EpochInv, MarkInv,
       ViewInv, SameInv, CoherentUnlessEpochHidden, Unconfirmed, Lost,
       readerRegisters, attempt
<1> QED BY <1>1, <1>2, <1>3 DEF SnapshotNext

\* What withStableSpecWorkspaceSnapshot publishes is one committed state of
\* the managed files, with two exceptions.
THEOREM SnapshotsAreCoherent == SnapshotSpec => []CoherentUnlessEpochHidden
<1>1. SnapInv => CoherentUnlessEpochHidden
  BY DEF SnapInv
<1> QED BY <1>1, SnapInit, SnapStep, PTL DEF SnapshotSpec

\* Type correctness of the reader's registers beside the writers'.
THEOREM SnapshotTypeCorrect == SnapshotSpec => []SnapshotTypeOK
<1>1. SnapInv => SnapshotTypeOK
  BY DEF SnapInv
<1> QED BY <1>1, SnapInit, SnapStep, PTL DEF SnapshotSpec

-----------------------------------------------------------------------------
(* The reader's recovery commits nothing.                                  *)

\* A reader that holds the lock has no plan and never had one; outside the
\* lock nobody has a mode.
RecoverInv ==
  /\ owner = Reader => step # "drafted" /\ mode # "commit"
  /\ step = "out" => mode = "none"

LEMMA RecoverStep ==
  ASSUME IInv, RecoverInv, [SnapshotNext]_snapshotVars PROVE RecoverInv'
<1>1. CASE UNCHANGED vars
  BY <1>1 DEF RecoverInv, vars, lockVars, registers
<1>2. CASE WriterStep
  <2>1. Next /\ (owner = Reader => ~Plan)
    BY <1>2 DEF WriterStep, RecoveryStep
  <2> USE TransactionAssumption, ReaderAssumption DEF RecoverInv, At, lockVars, registers
  <2>2. CASE \E p \in Proc : Enter(p)
    BY <2>2 DEF Enter
  <2>3. CASE Plan \/ Publish \/ PublishError
    BY <2>1, <2>3 DEF Plan, Publish, PublishError
  <2>4. CASE IOError \/ RecheckRefused
             \/ \E f \in File : StageRefused(f)
    BY <2>4 DEF IOError, RecheckRefused, StageRefused, Abandon,
       StartPass, IInv, TypeOK
  <2>5. CASE Leave \/ Crash \/ Reclaim
    BY <2>5 DEF Leave, Crash, Reclaim, Lock!Release, Lock!Die, Lock!Reclaim,
       IInv, TypeOK
  <2>6. CASE NothingPending \/ FindPending \/ WorkNothing \/ Finish
             \/ VerifyDone \/ Recheck \/ Apply
    BY <2>6 DEF NothingPending, FindPending, StartPass, WorkNothing, Finish,
       VerifyDone, Recheck, Apply
  <2>7. CASE \E f \in File : Verify(f) \/ VerifyFails(f) \/ Stage(f)
    BY <2>7 DEF Verify, VerifyFails, Stage
  <2>8. CASE \E f \in File, c \in Content : ForeignEdit(f, c)
    BY <2>8 DEF ForeignEdit
  <2> QED
    BY <2>1, <2>2, <2>3, <2>4, <2>5, <2>6, <2>7, <2>8 DEF Next, Work
<1> QED
  BY <1>1, <1>2 DEF SnapshotNext, ReaderStep, TimeOut, ProbePending,
     ProbeLockBusy, ProbeLockFree, ProbeOwner, MarkJournal, MarkLock,
     CompareJournal, CompareLock, ProbeAgain, Publication, Vanished, ReadBefore,
     ReadWork, ReadAfter, StartOver, Call, snapshotVars

\* A roll-back that is over leaves what the store said.
LEMMA RollBackKeepsStore ==
  ASSUME IInv, foreign = 0, Finish, mode # "commit" PROVE Store' = Store
BY DEF Finish, At, IInv, TypeOK, TxnInv, ControlInv, ProgressInv, Replacing,
   Passing, Goal, Store, Open, NoTxn, Transaction

\* While the reader holds the lock, until somebody edits behind everybody's
\* back, what the store says stays: its roll-backs restore, and it has no
\* transaction of its own.
THEOREM ReaderWritesNothing == SnapshotSpec => ReadingDoesNotWrite
<1>1. SnapshotInit => RecoverInv
  BY DEF SnapshotInit, Init, RecoverInv
<1>2. ASSUME IInv, RecoverInv, [SnapshotNext]_snapshotVars,
             owner = Reader, foreign' = 0
      PROVE  Store' = Store
  <2>1. CASE UNCHANGED vars
    BY <2>1, StoreUnread
  <2>2. CASE WriterStep
    <3>1. [Next]_vars
      BY <2>2 DEF WriterStep
    <3>2. foreign' = foreign /\ foreign = 0
      BY <1>2, <3>1 DEF Next, Work, vars, counters, Enter, NothingPending,
         FindPending, WorkNothing, Leave, Plan, Publish, Finish, Verify,
         VerifyFails, VerifyDone, Stage, StageRefused, Recheck, RecheckRefused,
         Apply, IOError, PublishError, Crash, Reclaim, ForeignEdit,
         IInv, TypeOK
    <3>3. CASE Finish
      BY <1>2, <3>2, <3>3, RollBackKeepsStore DEF RecoverInv
    <3>4. CASE Apply
      BY <1>2, <3>4, ApplyRefines DEF Abstract!vars
    <3>5. ~Publish
      BY <1>2 DEF RecoverInv, Publish, At
    <3> QED
      BY <1>2, <3>1, <3>2, <3>3, <3>4, <3>5, OthersRefine DEF Abstract!vars
  <2> QED
    BY <1>2, <2>1, <2>2 DEF SnapshotNext, ReaderStep, TimeOut, ProbePending,
       ProbeLockBusy, ProbeLockFree, ProbeOwner, MarkJournal, MarkLock,
       CompareJournal, CompareLock, ProbeAgain, Publication, Vanished,
       ReadBefore, ReadWork, ReadAfter, StartOver, Call, snapshotVars
<1>3. SnapInv => IInv
  BY DEF SnapInv
<1>4. SnapshotSpec => [](IInv /\ RecoverInv)
  BY <1>1, <1>3, SnapInit, SnapStep, RecoverStep, PTL DEF SnapshotSpec
<1>5. ASSUME IInv, RecoverInv, [SnapshotNext]_snapshotVars
      PROVE  [owner = Reader /\ foreign' = 0 => Store' = Store]_snapshotVars
  BY <1>2, <1>5
<1> QED
  BY <1>4, <1>5, PTL DEF SnapshotSpec, ReadingDoesNotWrite
=============================================================================
