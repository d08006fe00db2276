---------------------------- MODULE MCSubsystems ----------------------------
(***************************************************************************)
(* Five subsystems checked in one run.  They share no state: an instance   *)
(* picks its scene at the beginning, and only that subsystem moves, so     *)
(* that the states add up and do not multiply.                             *)
(***************************************************************************)
EXTENDS SpecEdit, GateRun, PushLedger, LockDirectory, SignOff, TLC

VARIABLE scene

-----------------------------------------------------------------------------
(* Typed edits                                                             *)

CONSTANTS f1, f2, f3, s1, k1, r1, t1, t2, c1, c2

Set(k, i, t) == [kind |-> k, id |-> i, text |-> t]
Just(k, i) == [kind |-> k, id |-> i]
Links(f, deps, caps, t) == [kind |-> "feature.set_links", id |-> f,
                            deps |-> deps, caps |-> caps, text |-> t]
Criterion(f, rules) == [kind |-> "criterion.upsert", id |-> f, rules |-> rules]
Journey(refs) == [kind |-> "scenario.upsert", id |-> s1, refs |-> refs]

MCBatch == {
  \* either closes a cycle over the other
  <<Links(f1, {f2}, {}, None)>>,
  <<Links(f2, {f1}, {k1}, t2)>>,
  \* one takes away what others refer to
  <<Just("criterion.remove", f1), Just("architecture_rule.remove", r1),
    Just("capability.remove", k1)>>,
  <<Set("architecture_rule.upsert", r1, t2), Criterion(f2, {r1})>>,
  \* lifecycle, with an edit bracketed by it
  <<Set("feature.block", f1, t2), Set("project.set", None, t2)>>,
  <<Just("feature.begin", f1), Set("feature.set_text", f1, t2)>>,
  <<[kind |-> "feature.archive", id |-> f1, by |-> f2],
    Just("evidence.revoke", f1)>>,
  \* a new feature and what refers to it
  <<[kind |-> "feature.create", id |-> f3, text |-> t1, deps |-> {},
     caps |-> {k1}],
    [kind |-> "dependency.promote", id |-> f2, candidate |-> f3],
    Journey({f3})>>,
  \* one scenario removed, rewritten, and both at once
  <<Just("scenario.remove", s1)>>,
  <<Set("capability.upsert", k1, t2), Journey({f2})>>,
  <<Just("scenario.remove", s1), Journey({f1})>> }

Plain(status, rules) ==
  [status |-> status, deps |-> {}, caps |-> {}, rules |-> rules,
   modules |-> t1, text |-> t1, reason |-> None, by |-> None]

MCFirstSpec ==
  [project |-> t1,
   feature |-> f1 :> Plain("in_progress", {r1}) @@ f2 :> Plain("planned", {})
               @@ f3 :> None,
   scenario |-> s1 :> {f1}, capability |-> k1 :> t1, rule |-> r1 :> t1,
   receipts |-> {f1}]

MCHandWritten == {<<f1, [Plain("done", {}) EXCEPT !.deps = {f2}]>>, <<f2, None>>}
MCImport == {<<f2, f3>>}
-----------------------------------------------------------------------------
(* Check runs                                                              *)

CONSTANTS x1, x2, v1, v2

Wants(profile, target, strict, silent) ==
  [profile |-> profile, target |-> target, strict |-> strict, silent |-> silent]

MCRequest == {
  Wants("push", NoTarget, FALSE, FALSE), Wants("push", NoTarget, TRUE, TRUE),
  Wants("completion", x1, TRUE, FALSE), Wants("completion", x2, FALSE, FALSE),
  Wants("feedback", NoTarget, TRUE, FALSE)}

MCOutcome == [drift |-> {"pass", "fail"}, arch |-> {"pass", "skip"},
              unit |-> {"pass", "fail", "skip"}, conformance |-> {"pass", "skip"}]

Attested(profile, scope, shipped) ==
  [profile |-> profile, seal |-> v1,
   inputs |-> [profile |-> profile,
               facts |-> [f \in scope |-> <<v1, f \in shipped>>]]]

\* A new workspace, one in use, and one where a completion dropped a row,
\* with two runs and one edit to come; one with an unattested feature, with
\* one run and two edits to come.
MCFirstState ==
  LET none == [f \in Subject |-> NoRow]
      First(shipped, attestations, exists, past, written) ==
        [code |-> [f \in Subject |-> v1], done |-> shipped,
         rows |-> attestations, file |-> exists, runs |-> past,
         edits |-> written]
      inUse == [none EXCEPT ![x1] = Attested("push", {x1, x2}, {x1})]
      dropped == [none EXCEPT ![x1] = Attested("completion", {x1}, {x1})]
  IN { First({}, none, FALSE, 0, 1), First({x1}, inUse, TRUE, 0, 1),
       First({x1, x2}, dropped, TRUE, 0, 1), First({x2}, none, FALSE, 1, 0) }
-----------------------------------------------------------------------------
(* Sign-off                                                                *)

CONSTANTS g1, g2, e1, e2, i1, i2, y1, y2, y3, n1, n2

Signs(claim, about, issuer, failing) ==
  [claim |-> claim, about |-> about, issuer |-> issuer, failing |-> failing]

\* Two people on one criterion, one of them on the whole feature.
MCStatement == {
  Signs("audit", e1, i1, {}), Signs("audit", e1, i2, {"independence"}),
  Signs("uat", g1, i1, {})}

MCOwner == [c \in {e1, e2} |-> g1]

\* One feature with two criteria, and one it may depend on.
MCChoice == [x \in Place |->
  CASE x[1] = "needs" -> IF x[2] = g1 THEN {{}, {g2}} ELSE {{}}
    [] x[1] = "prose" -> IF x[2] = g1 THEN {n1, n2} ELSE {n1}
    [] x[1] = "code" -> IF x[2] = g2 THEN {n1, n2} ELSE {n1}
    [] x[1] = "author" -> IF x[2] = g2 THEN {i1, i2, Anonymous} ELSE {i2}
    [] x[1] = "clause" -> IF x[2] = e2 THEN {n1, Removed} ELSE {n1, n2}
    [] OTHER -> {n1, n2}]

MCFirstWorld == [x \in Place |->
  CASE x[1] = "needs" -> IF x[2] = g1 THEN {g2} ELSE {}
    [] x[1] = "author" -> i2
    [] OTHER -> n1]

MCFirstRegistry == i1 :> y1 @@ i2 :> y2

-----------------------------------------------------------------------------
\* Clients and signers are the same two.
ProcessSymmetry == Permutations({c1, c2})
-----------------------------------------------------------------------------
SceneInit ==
  /\ scene \in {"edit", "gate", "ledger", "directory", "sign-off"}
  /\ EditInit /\ GateInit /\ LedgerInit /\ DirInit /\ SignInit
  /\ scene # "gate" => done = {}
  /\ dir # 1 /\ (scene # "directory" => dir = Gone)

SceneNext ==
  /\ \/ /\ scene = "edit" /\ EditNext
        /\ UNCHANGED <<gateVars, ledgerVars, dirVars, signVars>>
     \/ /\ scene = "gate" /\ GateNext
        /\ UNCHANGED <<editVars, ledgerVars, dirVars, signVars>>
     \/ /\ scene = "ledger" /\ LedgerNext
        /\ UNCHANGED <<editVars, gateVars, dirVars, signVars>>
     \/ /\ scene = "directory" /\ DirNext
        /\ UNCHANGED <<editVars, gateVars, ledgerVars, signVars>>
     \/ /\ scene = "sign-off" /\ SignNext
        /\ UNCHANGED <<editVars, gateVars, ledgerVars, dirVars>>
  /\ UNCHANGED scene

SceneSpec ==
  SceneInit /\ [][SceneNext]_<<editVars, gateVars, ledgerVars, dirVars, signVars, scene>>
=============================================================================
