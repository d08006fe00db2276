------------------------------ MODULE MCChecks ------------------------------
(***************************************************************************)
(* Completion under schema 0.1, and the test runs of a check, in one run.  *)
(* They share no state here: an instance picks its scene.                  *)
(***************************************************************************)
EXTENDS LegacyDoneGate, TestEvidence, TLC

VARIABLE scene

CONSTANTS a1, a2, z1, z2
-----------------------------------------------------------------------------
(* Test files and projects                                                 *)

Testcase(name, title, status) == [name |-> name, title |-> title, status |-> status]
Passing == {Testcase("t", "t", "pass")}
Skipped == {Testcase("t", "t", "skip")}
\* Two suites repeat the title; in the last file one is bound by its name.
Repeated == {Testcase("a > t", "t", "pass"), Testcase("b > t", "t", "fail")}
MCTestFile == {
  {}, Passing, Skipped, Repeated,
  {Testcase("t", "t", "fail")}, {Testcase("a > t", "t", "pass")},
  {Testcase("t", "t", "pass"), Testcase("a > t", "t", "fail")} }
MCFirstFiles == {z1 :> file @@ z2 :> Passing : file \in {Passing, Repeated}}

Project(test, coverage, junit, covered, installed) ==
  [test |-> test, coverage |-> coverage, junit |-> junit, tested |-> {z1, z2},
   covered |-> covered, installed |-> installed, oracles |-> junit]

All == {"test", "coverage", "oracle"}
NoSuite == Project("none", "vitest", FALSE, {z1}, All)

MCSetup == {
  NoSuite,
  Project("vitest", "vitest", TRUE, {z1, z2}, All),
  Project("vitest", "none", TRUE, {}, All),
  Project("vitest", "vitest", FALSE, {z1}, {"coverage"}),
  Project("pytest", "pytest", TRUE, {z1}, All),
  Project("other", "other", TRUE, {z1, z2}, {"test", "coverage"}),
  Project("other", "none", FALSE, {}, {}),
  Project("unmapped", "unmapped", TRUE, {z1, z2}, All) }
-----------------------------------------------------------------------------
SceneInit ==
  /\ scene \in {"completion", "tests"}
  /\ Init /\ EvidenceInit
  /\ scene = "tests" => shard = [status |-> "planned", text |-> "t1"]
  /\ scene = "completion" =>
       /\ tests = [c \in Criterion |-> Passing]
       /\ setup = NoSuite

Completes(A) == scene = "completion" /\ A /\ UNCHANGED <<evidenceVars, scene>>
Tests(A) == scene = "tests" /\ A /\ UNCHANGED <<vars, scene>>

SceneNext == Completes(Next) \/ Tests(EvidenceNext)

sceneVars == <<vars, evidenceVars, scene>>

\* The fairness of a completion, in its scene.
FairSceneSpec ==
  /\ SceneInit /\ [][SceneNext]_sceneVars
  /\ \A a \in Attempt :
       WF_sceneVars(Completes(Mark(a) \/ MarkRefused(a) \/ Inspect(a)
                              \/ Finalize(a) \/ Revert(a)))
=============================================================================
