------------------------------ MODULE MCAdoption ------------------------------
(***************************************************************************)
(* How a project comes to use the engine, in one run: the hosts' setup,    *)
(* initialisation through the server, the onboarding interview, and the    *)
(* migration to schema 0.2.  They share no state here: an instance picks   *)
(* its scene.                                                              *)
(***************************************************************************)
EXTENDS Onboarding, Migration, MCServerInit, MCHostSetup

VARIABLE scene

\* Bound on the applies and edits of one behaviour.
MaxEvents == 3

CONSTANTS c1, c2

-----------------------------------------------------------------------------
(* Onboarding                                                              *)

CONSTANTS q1, q2, context, catalog

MCFirstQuestions == {<<q1>>}
MCNextQuestions == {<<>>, <<q2>>}
-----------------------------------------------------------------------------
(* Migration                                                               *)

CONSTANTS m1, m2, w1, w2, b1, b2

Says(status, wording) ==
  [status |-> status, wording |-> wording, strict |-> FALSE, rest |-> b1]

\* A completed feature with a conflict, or nothing completed.
MCFirstShards == {
  m1 :> Says("done", w2) @@ m2 :> Says("in_progress", w1),
  m1 :> Says("in_progress", w1) @@ m2 :> Says("in_progress", w1)}
-----------------------------------------------------------------------------
\* Commands and callers of the scenes are the same two.
ProcessSymmetry == Permutations({c1, c2})
-----------------------------------------------------------------------------
SceneInit ==
  /\ scene \in {"onboarding", "migration", "server", "hosts"}
  /\ OnboardInit /\ MigrationInit /\ carried \subseteq {m1}
  /\ ServerInitInit /\ HostSetupInit
  /\ scene # "onboarding" => session = NoSession /\ ~native
  /\ scene # "migration" =>
       carried = {} /\ ~repo /\ DoneIn(shard) = {}
  /\ scene # "server" => \A p \in DOMAIN disk : disk[p] = Blank
  /\ scene # "hosts" => engine = d1 /\ file["links"] = "foreign"

SceneNext ==
  /\ \/ /\ scene = "onboarding" /\ OnboardNext
        /\ UNCHANGED <<migrationVars, initVars, setupVars>>
     \/ /\ scene = "migration" /\ MigrationNext
        /\ UNCHANGED <<onboardVars, initVars, setupVars>>
     \/ /\ scene = "server" /\ ServerInitNext /\ applies' + touches' <= MaxEvents
        /\ UNCHANGED <<onboardVars, migrationVars, setupVars>>
     \/ /\ scene = "hosts" /\ HostSetupNext
        /\ UNCHANGED <<onboardVars, migrationVars, initVars>>
  /\ UNCHANGED scene

SceneSpec ==
  SceneInit /\ [][SceneNext]_<<onboardVars, migrationVars, initVars, setupVars, scene>>
=============================================================================
