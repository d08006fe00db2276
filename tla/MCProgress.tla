------------------------------ MODULE MCProgress ------------------------------
(***************************************************************************)
(* Two waits that must end, in one run: for the lock file of a dead owner, *)
(* and for a session whose end a hook blocks.  They share no state here:   *)
(* an instance picks its scene.                                            *)
(***************************************************************************)
EXTENDS EventLog

CONSTANTS Proc, NoProc, MaxCrashes, Suspends

VARIABLES scene, lock, guard, guardOld, pc, seen, lockFresh, guardFresh, guardLost

Lock == INSTANCE WorkspaceLock

lockVars == <<lock, guard, guardOld, pc, seen, lockFresh, guardFresh, guardLost>>
sceneVars == <<logVars, lockVars, scene>>

SceneInit ==
  /\ scene \in {"lock", "stop"}
  /\ LogInit /\ Lock!Init
  /\ scene = "lock" => failing = Clean

Locks(A) == scene = "lock" /\ A /\ UNCHANGED <<logVars, scene>>
Stops(A) == scene = "stop" /\ A /\ UNCHANGED <<lockVars, scene>>

SceneNext == Locks(Lock!Next) \/ Stops(LogNext)

\* The fairness of each module, in its scene.
FairSceneSpec ==
  /\ SceneInit /\ [][SceneNext]_sceneVars
  /\ WF_sceneVars(Locks(Lock!ExpireGuard))
  /\ \A p \in Proc : /\ WF_sceneVars(Locks(Lock!Start(p)))
                     /\ WF_sceneVars(Locks(Lock!Step(p)))
  /\ \A h \in Session : WF_sceneVars(Stops(HookRuns(h)))

DeadOwnerRetired == Lock!DeadOwnerRetired
=============================================================================
