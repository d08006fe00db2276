------------------------- MODULE WorkspaceLockProofs -------------------------
(***************************************************************************)
(* Mutual exclusion of the workspace lock, for any set of processes, any   *)
(* number of crashes, with or without suspended reclaimers.                *)
(***************************************************************************)
EXTENDS WorkspaceLock, TLAPS

\* A contender that believes it has matched the lock file against what it
\* read is right about the owner.
FreshInv ==
  \A p \in Proc : lockFresh[p] => lock = seen[p] /\ lock \in Proc

\* What the guard buys while it is respected: each reclaimer inside it owns
\* it, and the lock it is about to rename is the one of a dead process.
GuardInv ==
  /\ \A p \in Proc : pc[p] \in Guarding => guard = p
  /\ \A p \in Proc : pc[p] \in {"condemned", "matched"} => seen[p] \in Dead
  /\ \A p \in Proc : pc[p] = "matched" => lock = seen[p]

HoldInv == \A p \in Proc : pc[p] \in Holding => lock = p

IInv == TypeOK /\ FreshInv /\ (guardLost \/ (GuardInv /\ HoldInv))

LEMMA InitInv == Init => IInv
BY LockAssumption DEF Init, IInv, TypeOK, FreshInv, GuardInv, HoldInv, Owner,
   Label, Holding, Guarding

\* Every variable keeps its type.
LEMMA TypeStep == TypeOK /\ [Next]_vars => TypeOK'
<1> SUFFICES ASSUME TypeOK, [Next]_vars PROVE TypeOK'
  OBVIOUS
<1> USE LockAssumption DEF TypeOK, Owner, Label, Holding, Guarding, Goto,
        lockFiles, guardFiles, RemoveLock, RemoveGuard
<1>1. CASE ExpireGuard
  BY <1>1 DEF ExpireGuard
<1>2. ASSUME NEW p \in Proc, Start(p) \/ GiveUp(p) \/ Crash(p) \/ Link(p)
                             \/ ReadOwner(p) \/ Retry(p)
      PROVE TypeOK'
  BY <1>2 DEF Start, GiveUp, Crash, Link, ReadOwner, Retry
<1>3. ASSUME NEW p \in Proc, CheckLock(p) \/ UnlinkLock(p) \/ TakeGuard(p)
                             \/ YieldToGuard(p) \/ ProbeOwner(p)
                             \/ MatchLock(p)
      PROVE TypeOK'
  BY <1>3 DEF CheckLock, UnlinkLock, TakeGuard, YieldToGuard, ProbeOwner,
              MatchLock
<1>4. ASSUME NEW p \in Proc, RenameLock(p) \/ CheckGuard(p) \/ UnlinkGuard(p)
                             \/ ReadGuard(p) \/ MatchGuard(p)
                             \/ RenameGuard(p)
      PROVE TypeOK'
  BY <1>4 DEF RenameLock, CheckGuard, UnlinkGuard, ReadGuard, MatchGuard,
              RenameGuard
<1>5. CASE UNCHANGED vars
  BY <1>5 DEF vars
<1> QED
  BY <1>1, <1>2, <1>3, <1>4, <1>5 DEF Next, Step

\* Only removing or publishing the lock file changes what is at the path, and
\* removing it invalidates every copy.
LEMMA FreshStep == IInv /\ [Next]_vars => FreshInv'
<1> SUFFICES ASSUME TypeOK, FreshInv, [Next]_vars PROVE FreshInv'
  BY DEF IInv
<1> USE LockAssumption DEF TypeOK, FreshInv, Goto, Owner, lockFiles,
        guardFiles, RemoveLock
<1>1. CASE ExpireGuard
  BY <1>1 DEF ExpireGuard
<1>2. ASSUME NEW p \in Proc, Start(p) \/ GiveUp(p) \/ Crash(p) \/ Link(p)
                             \/ ReadOwner(p) \/ Retry(p)
      PROVE FreshInv'
  BY <1>2 DEF Start, GiveUp, Crash, Link, ReadOwner, Retry
<1>3. ASSUME NEW p \in Proc, CheckLock(p) \/ UnlinkLock(p) \/ TakeGuard(p)
                             \/ YieldToGuard(p) \/ ProbeOwner(p)
                             \/ MatchLock(p)
      PROVE FreshInv'
  BY <1>3 DEF CheckLock, UnlinkLock, TakeGuard, YieldToGuard, ProbeOwner,
              MatchLock
<1>4. ASSUME NEW p \in Proc, RenameLock(p) \/ CheckGuard(p) \/ UnlinkGuard(p)
                             \/ ReadGuard(p) \/ MatchGuard(p)
                             \/ RenameGuard(p)
      PROVE FreshInv'
  BY <1>4 DEF RenameLock, CheckGuard, UnlinkGuard, ReadGuard, MatchGuard,
              RenameGuard
<1>5. CASE UNCHANGED vars
  BY <1>5 DEF vars
<1> QED
  BY <1>1, <1>2, <1>3, <1>4, <1>5 DEF Next, Step

\* History never forgets a lost guard.
LEMMA LostStep == guardLost /\ TypeOK /\ [Next]_vars => guardLost'
BY DEF Next, Step, vars, ExpireGuard, Start, GiveUp, Crash, Link, ReadOwner,
   Retry, CheckLock, UnlinkLock, TakeGuard, YieldToGuard, ProbeOwner,
   MatchLock, RenameLock, CheckGuard, UnlinkGuard, ReadGuard, MatchGuard,
   RenameGuard, lockFiles, guardFiles, RemoveGuard, TypeOK

\* While no guard is lost, a step keeps the guard with its reclaimer and the
\* lock with its holder.
LEMMA GuardStep ==
  ASSUME TypeOK, FreshInv, GuardInv, HoldInv, [Next]_vars, ~guardLost'
  PROVE  GuardInv' /\ HoldInv'
<1> USE LockAssumption DEF TypeOK, FreshInv, GuardInv, HoldInv, Goto, Owner,
        Holding, Guarding, Dead, lockFiles, guardFiles, RemoveLock,
        RemoveGuard
<1>1. CASE ExpireGuard
  BY <1>1 DEF ExpireGuard
<1>2. ASSUME NEW p \in Proc, Start(p) \/ GiveUp(p) \/ Retry(p)
      PROVE GuardInv' /\ HoldInv'
  BY <1>2 DEF Start, GiveUp, Retry
<1>3. ASSUME NEW p \in Proc, Crash(p)
      PROVE GuardInv' /\ HoldInv'
  BY <1>3 DEF Crash
<1>4. ASSUME NEW p \in Proc, Link(p)
      PROVE GuardInv' /\ HoldInv'
  BY <1>4 DEF Link
<1>5. ASSUME NEW p \in Proc, ReadOwner(p)
      PROVE GuardInv' /\ HoldInv'
  BY <1>5 DEF ReadOwner
<1>6. ASSUME NEW p \in Proc, CheckLock(p)
      PROVE GuardInv' /\ HoldInv'
  BY <1>6 DEF CheckLock
<1>7. ASSUME NEW p \in Proc, UnlinkLock(p)
      PROVE GuardInv' /\ HoldInv'
  BY <1>7 DEF UnlinkLock
<1>8. ASSUME NEW p \in Proc, TakeGuard(p)
      PROVE GuardInv' /\ HoldInv'
  BY <1>8 DEF TakeGuard
<1>9. ASSUME NEW p \in Proc, YieldToGuard(p) \/ ReadGuard(p) \/ MatchGuard(p)
      PROVE GuardInv' /\ HoldInv'
  BY <1>9 DEF YieldToGuard, ReadGuard, MatchGuard
<1>10. ASSUME NEW p \in Proc, ProbeOwner(p) \/ MatchLock(p)
      PROVE GuardInv' /\ HoldInv'
  BY <1>10 DEF ProbeOwner, MatchLock
<1>11. ASSUME NEW p \in Proc, RenameLock(p)
      PROVE GuardInv' /\ HoldInv'
  BY <1>11 DEF RenameLock
<1>12. ASSUME NEW p \in Proc, CheckGuard(p)
      PROVE GuardInv' /\ HoldInv'
  BY <1>12 DEF CheckGuard
<1>13. ASSUME NEW p \in Proc, UnlinkGuard(p)
      PROVE GuardInv' /\ HoldInv'
  BY <1>13 DEF UnlinkGuard
<1>14. ASSUME NEW p \in Proc, RenameGuard(p)
      PROVE GuardInv' /\ HoldInv'
  BY <1>14 DEF RenameGuard
<1>15. CASE UNCHANGED vars
  BY <1>15 DEF vars
<1> QED
  BY <1>1, <1>2, <1>3, <1>4, <1>5, <1>6, <1>7, <1>8, <1>9, <1>10, <1>11,
     <1>12, <1>13, <1>14, <1>15 DEF Next, Step

LEMMA InvStep == IInv /\ [Next]_vars => IInv'
<1> SUFFICES ASSUME IInv, [Next]_vars PROVE IInv'
  OBVIOUS
<1>1. TypeOK' /\ FreshInv'
  BY TypeStep, FreshStep DEF IInv
<1>2. guardLost' \/ (GuardInv' /\ HoldInv')
  <2>1. CASE guardLost
    BY <2>1, LostStep DEF IInv
  <2>2. CASE ~guardLost
    BY <2>2, GuardStep DEF IInv
  <2> QED BY <2>1, <2>2
<1> QED BY <1>1, <1>2 DEF IInv

LEMMA Invariant == Spec => []IInv
BY InitInv, InvStep, PTL DEF Spec

\* Type correctness of the lock files and of every process's registers.
THEOREM TypeCorrect == Spec => []TypeOK
<1>1. IInv => TypeOK
  BY DEF IInv
<1> QED BY <1>1, Invariant, PTL

\* At most one process holds the workspace lock unless a live reclaimer has
\* been deprived of its guard.
THEOREM LockIsExclusive == Spec => []MutualExclusion
<1>1. IInv => MutualExclusion
  BY LockAssumption DEF IInv, MutualExclusion, HoldInv
<1> QED BY <1>1, Invariant, PTL

\* The lock of a live holder is never retired by another process, under the
\* same proviso.
THEOREM LockIsNotStolen == Spec => RetiresOnlyDead
<1> DEFINE Kept == \A p \in Proc : pc[p] \in Holding /\ lock = p /\ lock' # p
                     => guardLost \/ pc[p] = "unlocking"
<1>1. IInv /\ [Next]_vars => [Kept]_vars
  <2> SUFFICES ASSUME IInv, Next, ~guardLost,
                      NEW p \in Proc, pc[p] \in Holding, lock = p, lock' # p
               PROVE  pc[p] = "unlocking"
    OBVIOUS
  <2> USE LockAssumption DEF IInv, TypeOK, GuardInv, HoldInv, Holding,
          lockFiles, guardFiles, Goto, Dead, RemoveLock
  <2>1. PICK q \in Proc : Link(q) \/ UnlinkLock(q) \/ RenameLock(q)
    BY DEF Next, Step, ExpireGuard, Start, GiveUp, Crash, ReadOwner, Retry,
       CheckLock, TakeGuard, YieldToGuard, ProbeOwner, MatchLock, CheckGuard,
       UnlinkGuard, ReadGuard, MatchGuard, RenameGuard
  <2>2. ~Link(q)
    BY DEF Link
  <2>3. CASE UnlinkLock(q)
    BY <2>3 DEF UnlinkLock
  <2>4. ~RenameLock(q)
    BY DEF RenameLock
  <2> QED BY <2>1, <2>2, <2>3, <2>4
<1> QED BY <1>1, Invariant, PTL DEF Spec, RetiresOnlyDead

\* Who works under the lock is alone with it and keeps its lock file, under the
\* same proviso.
THEOREM LockHolds == Spec => LockIsKept
BY LockIsExclusive, LockIsNotStolen, PTL DEF LockIsKept

\* The lock file and its guard implement the lock of OwnedLock, under the same
\* proviso: linking is acquiring, unlinking releasing, renaming reclaiming.
THEOREM LockImplementsOwnedLock == Spec => ImplementsOwnedLock
<1>1. Init => Abstract!Init
  BY LockAssumption DEF Init, Abstract!Init, Dead
<1>2. IInv /\ [Next]_vars => [guardLost \/ Abstract!Next]_(Abstract!vars)
  <2> SUFFICES ASSUME IInv, [Next]_vars, ~guardLost
               PROVE  Abstract!Next \/ UNCHANGED Abstract!vars
    OBVIOUS
  <2> USE LockAssumption DEF IInv, TypeOK, Owner, Label, HoldInv, GuardInv,
          Holding, Guarding, Goto, Dead, lockFiles, guardFiles, RemoveLock
  <2>1. ASSUME NEW p \in Proc, Link(p) PROVE Abstract!Acquire(p)
    BY <2>1 DEF Link, Abstract!Acquire
  <2>2. ASSUME NEW p \in Proc, UnlinkLock(p) PROVE Abstract!Release(p)
    BY <2>2 DEF UnlinkLock, Abstract!Release
  <2>3. ASSUME NEW p \in Proc, RenameLock(p) PROVE Abstract!Reclaim
    BY <2>3 DEF RenameLock, Abstract!Reclaim
  <2>4. ASSUME NEW p \in Proc, Crash(p) PROVE Abstract!Die(p)
    BY <2>4 DEF Crash, Abstract!Die
  <2>5. ASSUME NEW p \in Proc,
               Start(p) \/ GiveUp(p) \/ ReadOwner(p) \/ Retry(p)
                 \/ CheckLock(p) \/ TakeGuard(p) \/ YieldToGuard(p)
                 \/ ProbeOwner(p) \/ MatchLock(p) \/ CheckGuard(p)
                 \/ UnlinkGuard(p) \/ ReadGuard(p) \/ MatchGuard(p)
                 \/ RenameGuard(p)
        PROVE  UNCHANGED Abstract!vars
    BY <2>5 DEF Start, GiveUp, ReadOwner, Retry, CheckLock, TakeGuard,
       YieldToGuard, ProbeOwner, MatchLock, CheckGuard, UnlinkGuard,
       ReadGuard, MatchGuard, RenameGuard, RemoveGuard, Abstract!vars
  <2>6. CASE ExpireGuard
    BY <2>6 DEF ExpireGuard, Abstract!vars
  <2>7. CASE UNCHANGED vars
    BY <2>7 DEF vars, Abstract!vars
  <2> QED
    BY <2>1, <2>2, <2>3, <2>4, <2>5, <2>6, <2>7 DEF Next, Step, Abstract!Next
<1> QED
  BY <1>1, <1>2, Invariant, PTL DEF Spec, ImplementsOwnedLock
=============================================================================
