------------------------------ MODULE MCRecords ------------------------------
(***************************************************************************)
(* What a gate leaves behind, in one run: the completion it earns, or the  *)
(* events it records.  They share no state here: an instance picks its     *)
(* scene.                                                                  *)
(***************************************************************************)
EXTENDS CompletionGate, EventLog, TLC

CONSTANTS a1, a2, a3, p1, p2

VARIABLE scene

\* Two attempts in one process, one in another.
MCAttempt == {a1, a2, a3}
MCProcess == {p1, p2}
MCProcessOf == a1 :> p1 @@ a2 :> p1 @@ a3 :> p2

\* The two attempts of the first process are interchangeable; so are the
\* gates, and the failures a hook can find.
RecordSymmetry ==
  Permutations({a1, a2}) \cup Permutations(Gate) \cup Permutations(Failure)

SceneInit ==
  /\ scene \in {"completion", "log"}
  /\ Init /\ LogInit
  /\ IF scene = "completion" THEN failing = Clean
     ELSE shard = (CHOOSE s \in Shard : s.status = "planned") /\ code \in GoodCode

SceneNext ==
  /\ \/ scene = "completion" /\ Next /\ UNCHANGED logVars
     \/ scene = "log" /\ LogNext /\ UNCHANGED vars
  /\ UNCHANGED scene

SceneSpec == SceneInit /\ [][SceneNext]_<<vars, logVars, scene>>
=============================================================================
