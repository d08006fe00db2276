---------------------------- MODULE LockDirectory ----------------------------
(***************************************************************************)
(* The directory .cladding.  The first process to take the workspace lock  *)
(* makes it, every file written durably makes it again, and it is removed  *)
(* if empty by the process that made it and by one that recovered a        *)
(* journal.  Checks, mkdir, files and rmdir are single system calls, each  *)
(* a step.  WorkspaceLock models the lock file with the directory in       *)
(* place; here no process dies.                                            *)
(***************************************************************************)
EXTENDS Naturals

CONSTANTS User,    \* processes that take the lock
          Nobody,  \* no owner
          Inode,   \* numbers of directories, which may be used again
          Gone,    \* no directory
          MaxTakes \* bound on attempts to take the lock

VARIABLES dir,       \* the inode at .cladding
          temps,     \* processes whose temporary file is in the directory
          owner,     \* the process that owns the lock file
          guard,     \* the process that owns the reclaimer's guard
          kept,      \* what else is in it: a journal, events or other files
          user,      \* each process: where it is and what it has in memory
          first,     \* history: the directory at the beginning
          recovered, \* history: a journal has been recovered
          takes      \* counter for the bound

dirVars == <<dir, temps, owner, guard, kept, user, first, recovered, takes>>

ASSUME DirectoryAssumption ==
  Nobody \notin User /\ Gone \notin Inode /\ MaxTakes \in Nat

Out == [at |-> "out", created |-> FALSE, recovered |-> FALSE, inode |-> Gone]

\* A commit that failed and could not be undone has left its journal.
DirInit ==
  /\ dir \in {Gone} \cup Inode /\ first = dir
  /\ temps = {} /\ owner = Nobody /\ guard = Nobody
  /\ kept \in SUBSET {"journal"} /\ (dir = Gone => kept = {})
  /\ user = [u \in User |-> Out] /\ recovered = FALSE /\ takes = 0

Move(u, from, to) ==
  user[u].at = from /\ user' = [user EXCEPT ![u].at = to]

\* mkdirSync, recursive: a directory that is there is no error.
Make == IF dir = Gone THEN dir' \in Inode ELSE dir' = dir

\* rmdirSync, its failure swallowed.
Remove ==
  dir' = IF temps = {} /\ owner = Nobody /\ guard = Nobody /\ kept = {}
         THEN Gone ELSE dir

\* existsSync of the directory, in withSpecWorkspaceLock and assertSafePath.
Peek(u) ==
  /\ takes < MaxTakes
  /\ user[u].at \in {"out", "failed"}
  /\ user' = [user EXCEPT ![u] = [Out EXCEPT !.at = IF dir = Gone THEN "safe" ELSE "seen"]]
  /\ takes' = takes + 1
  /\ UNCHANGED <<dir, temps, owner, guard, kept, first, recovered>>

\* lstatSync fails if a directory that was seen is gone.  createdDirectory is
\* then what existsSync said, whoever makes the directory.
Look(u) ==
  /\ user[u].at \in {"seen", "safe"}
  /\ user' = [user EXCEPT
       ![u].at = IF user[u].at = "seen" /\ dir = Gone THEN "failed" ELSE "looked",
       ![u].created = dir = Gone]
  /\ UNCHANGED <<dir, temps, owner, guard, kept, first, recovered, takes>>

Mkdir(u) ==
  /\ Move(u, "looked", "made")
  /\ Make
  /\ UNCHANGED <<temps, owner, guard, kept, first, recovered, takes>>

\* lstatSync fails if the directory has been removed meanwhile.
Lstat(u) ==
  /\ user[u].at = "made"
  /\ user' = [user EXCEPT ![u].at = IF dir = Gone THEN "failed" ELSE "known",
                          ![u].inode = dir]
  /\ UNCHANGED <<dir, temps, owner, guard, kept, first, recovered, takes>>

\* writeDurable of the owner record: it makes the directory once more.
Provide(u) ==
  /\ Move(u, "known", "ready")
  /\ Make
  /\ UNCHANGED <<temps, owner, guard, kept, first, recovered, takes>>

\* Its open fails if the directory has been removed again.
WriteTemp(u) ==
  /\ Move(u, "ready", IF dir = Gone THEN "failed" ELSE "written")
  /\ temps' = IF dir = Gone THEN temps ELSE temps \cup {u}
  /\ UNCHANGED <<dir, owner, guard, kept, first, recovered, takes>>

Link(u) ==
  /\ owner = Nobody
  /\ Move(u, "written", "linked")
  /\ owner' = u
  /\ UNCHANGED <<dir, temps, guard, kept, first, recovered, takes>>

UnlinkTemp(u) ==
  /\ Move(u, "linked", "held")
  /\ temps' = temps \ {u}
  /\ UNCHANGED <<dir, owner, guard, kept, first, recovered, takes>>

\* EEXIST: the lock is somebody's.
Denied(u) ==
  /\ owner # Nobody
  /\ Move(u, "written", "denied")
  /\ UNCHANGED <<dir, temps, owner, guard, kept, first, recovered, takes>>

\* It tries again, until it gives up.
Waits(u, from) == \E to \in {"known", "out"} : Move(u, from, to)

\* Its temporary file goes; it suspects the owner, if it can read the lock.
DropTemp(u) ==
  /\ \/ Waits(u, "denied")
     \/ owner # Nobody /\ Move(u, "denied", "suspects")
  /\ temps' = temps \ {u}
  /\ UNCHANGED <<dir, owner, guard, kept, first, recovered, takes>>

\* writeDurable of the reclaimer's guard makes the directory too.
MakeForGuard(u) ==
  /\ Move(u, "suspects", "guarding")
  /\ Make
  /\ UNCHANGED <<temps, owner, guard, kept, first, recovered, takes>>

\* Without the directory, or with another's guard in it, that is all.
Guard(u) ==
  /\ \/ /\ dir # Gone /\ guard = Nobody
        /\ Move(u, "guarding", "guarded") /\ guard' = u
     \/ /\ dir = Gone \/ guard # Nobody
        /\ Waits(u, "guarding") /\ guard' = guard
  /\ UNCHANGED <<dir, temps, owner, kept, first, recovered, takes>>

\* The owner is found alive.
Unguard(u) ==
  /\ Waits(u, "guarded")
  /\ guard' = Nobody
  /\ UNCHANGED <<dir, temps, owner, kept, first, recovered, takes>>

\* A pending journal is recovered first.
Recover(u) ==
  /\ user[u].at = "held" /\ "journal" \in kept
  /\ user' = [user EXCEPT ![u].at = "working", ![u].recovered = TRUE]
  /\ kept' = kept \ {"journal"} /\ recovered' = TRUE
  /\ UNCHANGED <<dir, temps, owner, guard, first, takes>>

\* What runs under the lock leaves files behind, or removes some; it leaves
\* its journal if it fails and cannot be undone.
Work(u) ==
  /\ "journal" \notin kept
  /\ Move(u, "held", "working") \/ (user[u].at = "working" /\ UNCHANGED user)
  /\ kept' \in SUBSET {"journal", "files"}
  /\ UNCHANGED <<dir, temps, owner, guard, first, recovered, takes>>

\* Also from "held": a journal that cannot be recovered stays.
Unlink(u) ==
  /\ Move(u, "held", "released") \/ Move(u, "working", "released")
  /\ owner' = Nobody
  /\ UNCHANGED <<dir, temps, guard, kept, first, recovered, takes>>

\* Mutant: whoever finds the directory it used tidies it up.
TidiesUp(u) == dir = user[u].inode

\* removeOwnedEmptyLockDirectory, up to its comparison of inodes.
MayRemove(u) == user[u].created /\ dir = user[u].inode

\* Mutant: the directory is cleared whether or not a journal was recovered.
ClearsAlways(u) == "clearing"

Afterwards(u) == IF user[u].recovered THEN "clearing" ELSE "out"

Match(u) ==
  /\ Move(u, "released", IF MayRemove(u) THEN "matched" ELSE Afterwards(u))
  /\ UNCHANGED <<dir, temps, owner, guard, kept, first, recovered, takes>>

\* rmdir removes whatever directory is there by now, if it is empty.
Rmdir(u) ==
  /\ Move(u, "matched", Afterwards(u))
  /\ Remove
  /\ UNCHANGED <<temps, owner, guard, kept, first, recovered, takes>>

\* removeEmptyTransactionStateDirectory, after a recovery: whoever made it.
Clear(u) ==
  /\ Move(u, "clearing", "out")
  /\ Remove
  /\ UNCHANGED <<temps, owner, guard, kept, first, recovered, takes>>

DirNext ==
  \E u \in User :
    \/ Peek(u) \/ Look(u) \/ Mkdir(u) \/ Lstat(u) \/ Provide(u) \/ WriteTemp(u)
    \/ Link(u) \/ UnlinkTemp(u) \/ Denied(u) \/ DropTemp(u) \/ MakeForGuard(u)
    \/ Guard(u) \/ Unguard(u) \/ Recover(u) \/ Work(u) \/ Unlink(u)
    \/ Match(u) \/ Rmdir(u) \/ Clear(u)

DirSpec == DirInit /\ [][DirNext]_dirVars
-----------------------------------------------------------------------------
At == {"out", "failed", "seen", "safe", "looked", "made", "known", "ready",
       "written", "linked", "denied", "suspects", "guarding", "guarded",
       "held", "working", "released", "matched", "clearing"}

UserRecord ==
  [at : At, created : BOOLEAN, recovered : BOOLEAN, inode : Inode \cup {Gone}]

DirTypeOK ==
  /\ {dir, first} \subseteq Inode \cup {Gone}
  /\ takes \in 0..MaxTakes /\ recovered \in BOOLEAN
  /\ temps \subseteq User /\ {owner, guard} \subseteq User \cup {Nobody}
  /\ kept \subseteq {"journal", "files"}
  /\ user \in [User -> UserRecord]

\* Tidying up never takes the directory from under a lock, an owner record
\* about to become one, a reclaimer's guard, or files left in it.  And where
\* the directory was there before, then as long as no journal had to be
\* recovered it stays the same one, and no process fails for want of it,
\* however their calls interleave.  (A recovery removes an empty directory
\* whoever made it.  From then on, as where there was none at first, a process
\* can fail between the mkdir and the rmdir of others; and a late rmdir can
\* remove an empty successor.)
DirectoryOutlivesItsUsers ==
  /\ owner # Nobody \/ guard # Nobody \/ temps # {} \/ kept # {} => dir # Gone
  /\ first # Gone /\ ~recovered =>
       dir = first /\ \A u \in User : user[u].at # "failed"
=============================================================================
