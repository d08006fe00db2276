------------------------------ MODULE OwnedLock ------------------------------
(***************************************************************************)
(* What the workspace lock promises: at most one process owns it, only the *)
(* owner gives it up, and only the ownership of a dead process is taken    *)
(* away.  WorkspaceLock implements it with two files.                      *)
(***************************************************************************)
CONSTANTS Proc,    \* processes that ever use the workspace
          NoProc   \* the owner of a free lock; no process

VARIABLES owner,   \* the process that holds the lock, or NoProc
          dead     \* processes that have crashed, for good

vars == <<owner, dead>>

Init == owner = NoProc /\ dead = {}

Acquire(p) ==
  /\ p \notin dead
  /\ owner = NoProc
  /\ owner' = p
  /\ UNCHANGED dead

Release(p) ==
  /\ p \notin dead
  /\ owner = p
  /\ owner' = NoProc
  /\ UNCHANGED dead

Die(p) ==
  /\ p \notin dead
  /\ dead' = dead \cup {p}
  /\ UNCHANGED owner

\* The ownership of a dead process is retired.
Reclaim ==
  /\ owner \in dead
  /\ owner' = NoProc
  /\ UNCHANGED dead

Next == Reclaim \/ \E p \in Proc : Acquire(p) \/ Release(p) \/ Die(p)

Spec == Init /\ [][Next]_vars
=============================================================================
