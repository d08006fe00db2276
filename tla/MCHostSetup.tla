---------------------------- MODULE MCHostSetup ----------------------------
(* Instances of HostSetup for TLC.                                         *)
EXTENDS HostSetup

CONSTANTS d1, d2

Empty == [p \in Place |-> "none"]

\* What installers of earlier versions left, from engines here and gone; and
\* a user who has things of his own in every place.
MCFirstFiles == {
  [Empty EXCEPT !["links"] = d1, !["bridge link"] = d1,
                !["codex legacy"] = "clad", !["cursor legacy"] = d2,
                !["codex"] = "clad", !["claude section"] = d1],
  [Empty EXCEPT !["links"] = "foreign", !["bridge link"] = "foreign",
                !["codex legacy"] = "foreign", !["codex"] = "foreign",
                !["shared skill"] = "foreign", !["agents block"] = "foreign"]}
=============================================================================
