---------------------------- MODULE WorkspaceLock ----------------------------
(***************************************************************************)
(* The cooperative workspace lock: .cladding/spec-transaction.lock, taken  *)
(* by hard-linking a complete owner record, and .reclaim, the guard under  *)
(* which a contender retires the lock file of a dead owner.  The event log *)
(* takes the same two files with the same algorithm.                       *)
(*                                                                         *)
(* One action per file-system call another process can observe.  An owner  *)
(* record is its pid; the nonce and the inode that tell one incarnation of *)
(* a file from the next are the flags lockFresh and guardFresh, "the file  *)
(* at the path is still the one I read": nonces are never reused, so a     *)
(* flag that has become FALSE stays FALSE until the file is read again.    *)
(* A crashed pid is not reused.                                            *)
(***************************************************************************)
EXTENDS FiniteSets, Naturals

CONSTANTS Proc,        \* processes (CLI, server, hooks) using the workspace
          NoProc,      \* the owner of an absent file
          MaxCrashes,  \* bound on the number of crashes
          Suspends     \* can a live reclaimer stall for more than 30 seconds?

ASSUME LockAssumption ==
  /\ NoProc \notin Proc
  /\ MaxCrashes \in Nat
  /\ Suspends \in BOOLEAN

VARIABLES lock,        \* owner named by the lock file
          guard,       \* owner named by the reclaim guard
          guardOld,    \* the guard's mtime is more than 30 seconds ago
          pc,          \* where each process stands
          seen,        \* owner of the lock file a contender has read
          lockFresh,   \* the lock file is still the incarnation it read
          guardFresh,  \* the guard is still the incarnation it read
          guardLost    \* history: a live reclaimer was deprived of its guard

vars == <<lock, guard, guardOld, pc, seen, lockFresh, guardFresh, guardLost>>

Owner == Proc \cup {NoProc}

Holding == {"held", "unlocking"}
Guarding == {"guarded", "condemned", "matched", "releasing", "unguarding"}
Label == Holding \cup Guarding \cup
         {"idle", "attempt", "waiting", "observed", "oldGuard", "guardMatched",
          "dead"}

TypeOK ==
  /\ lock \in Owner
  /\ guard \in Owner
  /\ guardOld \in BOOLEAN
  /\ pc \in [Proc -> Label]
  /\ seen \in [Proc -> Owner]
  /\ lockFresh \in [Proc -> BOOLEAN]
  /\ guardFresh \in [Proc -> BOOLEAN]
  /\ guardLost \in BOOLEAN

Dead == {p \in Proc : pc[p] = "dead"}

Init ==
  /\ lock = NoProc
  /\ guard = NoProc
  /\ guardOld = FALSE
  /\ pc = [p \in Proc |-> "idle"]
  /\ seen = [p \in Proc |-> NoProc]
  /\ lockFresh = [p \in Proc |-> FALSE]
  /\ guardFresh = [p \in Proc |-> FALSE]
  /\ guardLost = FALSE

Goto(p, from, to) == pc[p] = from /\ pc' = [pc EXCEPT ![p] = to]

lockFiles == <<lock, seen, lockFresh>>
guardFiles == <<guard, guardOld, guardFresh, guardLost>>

\* Whatever lock file is at the path disappears: nobody's copy is current.
RemoveLock ==
  /\ lock' = NoProc
  /\ lockFresh' = [p \in Proc |-> FALSE]

\* Process p removes whatever guard is at the path, its own or another's.
RemoveGuard(p) ==
  /\ guard' = NoProc
  /\ guardOld' = FALSE
  /\ guardFresh' = [q \in Proc |-> FALSE]
  /\ guardLost' = (guardLost \/ \E q \in Proc \ {p} :
                                   guard = q /\ pc[q] \in Guarding)

-----------------------------------------------------------------------------
(* acquireLock and releaseLock                                             *)

Start(p) ==
  /\ Goto(p, "idle", "attempt")
  /\ UNCHANGED <<lockFiles, guardFiles>>

\* Mutant: the owner record is renamed over the path instead of linked.
LinkByRename(p) ==
  /\ Goto(p, "attempt", "held")
  /\ lock' = p
  /\ lockFresh' = [q \in Proc |-> FALSE]
  /\ UNCHANGED <<seen, guardFiles>>

\* linkSync succeeds: the owner record is published in one step.
Link(p) ==
  /\ Goto(p, "attempt", "held")
  /\ lock = NoProc
  /\ lock' = p
  /\ UNCHANGED <<seen, lockFresh, guardFiles>>

\* linkSync fails with EEXIST and reclaimDeadLock reads the owner record.
ReadOwner(p) ==
  /\ Goto(p, "attempt", "observed")
  /\ lock # NoProc
  /\ seen' = [seen EXCEPT ![p] = lock]
  /\ lockFresh' = [lockFresh EXCEPT ![p] = TRUE]
  /\ UNCHANGED <<lock, guardFiles>>

\* The 25 ms pause between two attempts.
Retry(p) ==
  /\ Goto(p, "waiting", "attempt")
  /\ UNCHANGED <<lockFiles, guardFiles>>

\* Five seconds have passed: acquireLock returns null and the caller is BUSY.
GiveUp(p) ==
  /\ Goto(p, "waiting", "idle")
  /\ UNCHANGED <<lockFiles, guardFiles>>

\* releaseLock reads the owner record and leaves a successor's alone ...
CheckLock(p) ==
  /\ Goto(p, "held", IF lock = p THEN "unlocking" ELSE "idle")
  /\ UNCHANGED <<lockFiles, guardFiles>>

\* ... and unlinks the path: another call, which no longer looks.
UnlinkLock(p) ==
  /\ Goto(p, "unlocking", "idle")
  /\ RemoveLock
  /\ UNCHANGED <<seen, guardFiles>>
-----------------------------------------------------------------------------
(* reclaimDeadLock                                                         *)

\* The guard is created with O_EXCL.
TakeGuard(p) ==
  /\ Goto(p, "observed", "guarded")
  /\ guard = NoProc
  /\ guard' = p
  /\ guardOld' = FALSE
  /\ UNCHANGED <<lockFiles, guardFresh, guardLost>>

\* EEXIST on a guard at most 30 seconds old: try the lock again.
YieldToGuard(p) ==
  /\ Goto(p, "observed", "waiting")
  /\ guard # NoProc
  /\ ~guardOld
  /\ UNCHANGED <<lockFiles, guardFiles>>

\* Mutant: a kill that is not permitted counts as a dead owner.
ProbeAssumesDead(p) ==
  /\ Goto(p, "guarded", "condemned")
  /\ UNCHANGED <<lockFiles, guardFiles>>

\* process.kill(pid, 0): only ESRCH condemns the owner that was read.
ProbeOwner(p) ==
  /\ Goto(p, "guarded", IF seen[p] \in Dead THEN "condemned" ELSE "releasing")
  /\ UNCHANGED <<lockFiles, guardFiles>>

\* Mutant: the lock file is not compared again under the guard.
MatchUnread(p) ==
  /\ Goto(p, "condemned", "matched")
  /\ UNCHANGED <<lockFiles, guardFiles>>

\* Inode and bytes are compared with what was read before the guard.
MatchLock(p) ==
  /\ Goto(p, "condemned", IF lockFresh[p] THEN "matched" ELSE "releasing")
  /\ UNCHANGED <<lockFiles, guardFiles>>

\* renameSync moves whatever lock file is at the path to a tombstone.
RenameLock(p) ==
  /\ Goto(p, "matched", "releasing")
  /\ RemoveLock
  /\ UNCHANGED <<seen, guardFiles>>

\* releaseReclaimer reads the guard and leaves a later reclaimer's alone ...
CheckGuard(p) ==
  /\ Goto(p, "releasing", IF guard = p THEN "unguarding" ELSE "waiting")
  /\ UNCHANGED <<lockFiles, guardFiles>>

\* ... and unlinks the path.
UnlinkGuard(p) ==
  /\ Goto(p, "unguarding", "waiting")
  /\ RemoveGuard(p)
  /\ UNCHANGED lockFiles
-----------------------------------------------------------------------------
(* retireExpiredReclaimerGuard                                             *)

\* Mutant: an old guard is respected like a young one.
ReadGuardNever(p) ==
  /\ Goto(p, "observed", "waiting")
  /\ guard # NoProc
  /\ guardOld
  /\ UNCHANGED <<lockFiles, guardFiles>>

\* EEXIST on an old guard: its inode, bytes and age are read.
ReadGuard(p) ==
  /\ Goto(p, "observed", "oldGuard")
  /\ guard # NoProc
  /\ guardOld
  /\ guardFresh' = [guardFresh EXCEPT ![p] = TRUE]
  /\ UNCHANGED <<lockFiles, guard, guardOld, guardLost>>

MatchGuard(p) ==
  /\ Goto(p, "oldGuard", IF guardFresh[p] THEN "guardMatched" ELSE "waiting")
  /\ UNCHANGED <<lockFiles, guardFiles>>

\* renameSync moves whatever guard is at the path to a tombstone.
RenameGuard(p) ==
  /\ Goto(p, "guardMatched", "waiting")
  /\ RemoveGuard(p)
  /\ UNCHANGED lockFiles
-----------------------------------------------------------------------------
(* The environment                                                         *)

\* A process dies between any two calls; its files stay behind.
Crash(p) ==
  /\ pc[p] \notin {"idle", "dead"}
  /\ Cardinality(Dead) < MaxCrashes
  /\ pc' = [pc EXCEPT ![p] = "dead"]
  /\ UNCHANGED <<lockFiles, guardFiles>>

\* Thirty seconds pass over one guard.  A reclaimer makes a handful of calls
\* under its guard, so it outlives them only dead or suspended.
ExpireGuard ==
  /\ guard # NoProc
  /\ ~guardOld
  /\ Suspends \/ guard \in Dead
  /\ guardOld' = TRUE
  /\ UNCHANGED <<lockFiles, pc, guard, guardFresh, guardLost>>

Step(p) ==
  \/ Link(p) \/ ReadOwner(p) \/ Retry(p) \/ CheckLock(p) \/ UnlinkLock(p)
  \/ TakeGuard(p) \/ YieldToGuard(p) \/ ProbeOwner(p) \/ MatchLock(p)
  \/ RenameLock(p) \/ CheckGuard(p) \/ UnlinkGuard(p)
  \/ ReadGuard(p) \/ MatchGuard(p) \/ RenameGuard(p)

Next ==
  \/ ExpireGuard
  \/ \E p \in Proc : Start(p) \/ GiveUp(p) \/ Crash(p) \/ Step(p)

Spec == Init /\ [][Next]_vars

\* A running process executes its next call, time passes, and somebody always
\* comes back for the lock; nobody need crash or give up.
FairSpec ==
  /\ Spec
  /\ WF_vars(ExpireGuard)
  /\ \A p \in Proc : WF_vars(Start(p)) /\ WF_vars(Step(p))
-----------------------------------------------------------------------------
(* Properties                                                              *)

\* At most one process works under the lock (withSpecWorkspaceLock), as long
\* as no live reclaimer has been deprived of its guard: the guard is what
\* makes "compare, then rename" safe.
MutualExclusion ==
  guardLost \/ \A p, q \in Proc :
    pc[p] \in Holding /\ pc[q] \in Holding => p = q

\* A lock file is only taken from under a process that has died
\* (reclaimDeadLock), under the same proviso.
RetiresOnlyDead ==
  [][\A p \in Proc : pc[p] \in Holding /\ lock = p /\ lock' # p
        => guardLost \/ pc[p] = "unlocking"]_vars

\* What those who work under the lock rely on: nobody else does, and their
\* lock file stays until they release it.
LockIsKept == []MutualExclusion /\ RetiresOnlyDead

\* The comment above reclaimDeadSpecEventLock, without the proviso: what is
\* retired belongs to a demonstrably dead owner.
RetiresOnlyDemonstrablyDead ==
  [][\A p \in Proc : RenameLock(p) => lock \in Dead \cup {NoProc}]_vars

\* The lock file of a dead owner does not block the workspace for ever, even
\* when a reclaimer has died holding the guard.
DeadOwnerRetired == \A p \in Proc : lock = p /\ pc[p] = "dead" ~> lock # p

\* The two files implement the abstract lock, under the same proviso.
Abstract == INSTANCE OwnedLock WITH owner <- lock, dead <- Dead
ImplementsOwnedLock ==
  Abstract!Init /\ [][guardLost \/ Abstract!Next]_(Abstract!vars)
=============================================================================
