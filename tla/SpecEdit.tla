------------------------------ MODULE SpecEdit ------------------------------
(***************************************************************************)
(* Typed edits of the specification: batches of operations, the revisions  *)
(* a client reads beforehand, the check of those revisions and of the      *)
(* whole candidate under the workspace lock, and the generated projections *)
(* (inventory and feature index) written with the commit.                  *)
(*                                                                         *)
(* What runs under the lock is one step: SpecTransaction implements an     *)
(* atomic store.  A shard is a record or a set; of its prose one text is   *)
(* kept, of its criteria the architecture rules they refer to.  Events     *)
(* travel in the same journal and are not modelled here, and neither is    *)
(* the migration to schema 0.2.                                            *)
(***************************************************************************)
EXTENDS FiniteSets, Naturals, Sequences

CONSTANTS Client,
          Feature, Scenario,  \* identifiers of shards
          Capability, Rule,   \* identifiers in the two catalogs
          Text,
          None,               \* a missing shard, entry or field
          Import,             \* <<f, g>>: f's modules import modules of g
          Batch,              \* the batches clients submit
          HandWritten,        \* <<f, d>>: what people write into a shard
          FirstSpec,          \* the specification to begin with
          MaxCommits,         \* bound on commits
          MaxHands            \* bound on edits by hand

VARIABLES spec,      \* the authored specification on disk
          generated, \* inventory and feature index on disk
          client,    \* what each client is doing
          touched,   \* history: edited by hand since generated was written
          commits, hands  \* counters for the bounds

editVars == <<spec, generated, client, touched, commits, hands>>

Status == {"planned", "in_progress", "done", "blocked", "archived"}

Document == [status : Status,
             deps : SUBSET Feature, caps : SUBSET Capability,
             rules : SUBSET Rule,
             modules : Text, text : Text,
             reason : Text \cup {None},        \* why it is blocked
             by : Feature \cup {None}]         \* what an archived one yields to

Specification == [project : Text,
                  feature : [Feature -> Document \cup {None}],
                  scenario : [Scenario -> {None} \cup SUBSET Feature],
                  capability : [Capability -> Text \cup {None}],
                  rule : [Rule -> Text \cup {None}],
                  receipts : SUBSET Feature]

Present(ids, shards) == {x \in ids : shards[x] # None}

\* What a batch may consist of (SpecEditOperation).  Links may leave the
\* modules alone; an archived feature may yield to another.
Operation ==
  [kind : {"project.set"}, id : {None}, text : Text]
  \cup [kind : {"feature.create"}, id : Feature, text : Text,
        deps : SUBSET Feature, caps : SUBSET Capability]
  \cup [kind : {"feature.begin", "criterion.remove", "evidence.revoke"}, id : Feature]
  \cup [kind : {"feature.block", "feature.set_text"}, id : Feature, text : Text]
  \cup [kind : {"feature.archive"}, id : Feature, by : Feature \cup {None}]
  \cup [kind : {"feature.set_links"}, id : Feature, text : Text \cup {None},
        deps : SUBSET Feature, caps : SUBSET Capability]
  \cup [kind : {"criterion.upsert"}, id : Feature, rules : SUBSET Rule]
  \cup [kind : {"dependency.promote"}, id : Feature, candidate : Feature]
  \cup [kind : {"capability.upsert"}, id : Capability, text : Text]
  \cup [kind : {"capability.remove"}, id : Capability]
  \cup [kind : {"architecture_rule.upsert"}, id : Rule, text : Text]
  \cup [kind : {"architecture_rule.remove"}, id : Rule]
  \cup [kind : {"scenario.upsert"}, id : Scenario, refs : SUBSET Feature]
  \cup [kind : {"scenario.remove"}, id : Scenario]

\* What the inventory block and the feature index say of s.
Projection(s) ==
  [index |-> [f \in Present(Feature, s.feature) |->
                <<s.feature[f].status, s.feature[f].modules>>],
   scenarios |-> Cardinality(Present(Scenario, s.scenario)),
   capabilities |-> Cardinality(Present(Capability, s.capability))]

ASSUME EditAssumption ==
  /\ None \notin Text \cup Feature
  /\ None \notin Document
  /\ \A S \in SUBSET Feature : S # None
  /\ IsFiniteSet(Feature)
  /\ Import \subseteq Feature \X Feature
  /\ Batch \subseteq Seq(Operation)
  /\ HandWritten \subseteq Feature \X (Document \cup {None})
  /\ FirstSpec \in Specification
  /\ MaxCommits \in Nat /\ MaxHands \in Nat
-----------------------------------------------------------------------------
(* Regions: the parts of the workspace a batch has to name                 *)

Whole(k) == [kind |-> k, id |-> None]
Shard(k, x) == [kind |-> k, id |-> x]

Region == {Whole("project"), Whole("capabilities"), Whole("architecture")}
  \cup {Shard("feature", f) : f \in Feature}
  \cup {Shard("scenario", s) : s \in Scenario}
  \cup {Shard("evidence", f) : f \in Feature}

RegionOf(op) ==
  CASE op.kind = "project.set" -> Whole("project")
    [] op.kind \in {"capability.upsert", "capability.remove"} ->
         Whole("capabilities")
    [] op.kind \in {"architecture_rule.upsert", "architecture_rule.remove"} ->
         Whole("architecture")
    [] op.kind \in {"scenario.upsert", "scenario.remove"} ->
         Shard("scenario", op.id)
    [] op.kind = "evidence.revoke" -> Shard("evidence", op.id)
    [] OTHER -> Shard("feature", op.id)

\* Mutant: the removal of a scenario names no region of its own.
RegionsWithoutRemovals(batch) ==
  {RegionOf(batch[i]) : i \in {j \in 1..Len(batch) :
                                  batch[j].kind # "scenario.remove"}}

RegionsForOperations(batch) == {RegionOf(batch[i]) : i \in 1..Len(batch)}

\* The bytes whose hash is the revision of r.
Revision(s, r) ==
  CASE r.kind = "project" -> s.project
    [] r.kind = "capabilities" -> s.capability
    [] r.kind = "architecture" -> s.rule
    [] r.kind = "feature" -> s.feature[r.id]
    [] r.kind = "scenario" -> s.scenario[r.id]
    [] OTHER -> r.id \in s.receipts
-----------------------------------------------------------------------------
(* One operation on the candidate.  disk is what a lookup finds that does  *)
(* not consult the candidate.                                              *)

Revising == {"feature.set_text", "feature.set_links", "criterion.upsert",
             "criterion.remove", "dependency.promote"}
Lifecycle == {"feature.begin", "feature.block", "feature.archive"}

Inferable(s, f) == {g \in Feature : <<f, g>> \in Import} \ s.feature[f].deps

Admits(op, s, disk) ==
  /\ op.kind = "feature.create" => s.feature[op.id] = None
  /\ op.kind \in Revising \cup Lifecycle => s.feature[op.id] # None
  /\ op.kind \in Revising \cup {"feature.begin", "feature.block"} =>
       s.feature[op.id].status # "archived"
  /\ op.kind = "feature.block" => s.feature[op.id].status # "done"
  /\ op.kind = "feature.archive" =>
       /\ op.by # None => s.feature[op.by] # None
       /\ s.feature[op.id].status = "archived" => s.feature[op.id].by = op.by
  /\ op.kind = "criterion.remove" => s.feature[op.id].rules # {}
  /\ op.kind = "dependency.promote" =>
       \/ op.candidate \in s.feature[op.id].deps
       \/ Inferable(s, op.id) = {op.candidate}
  /\ op.kind = "capability.remove" => s.capability[op.id] # None
  /\ op.kind = "architecture_rule.remove" => s.rule[op.id] # None
  /\ op.kind = "scenario.upsert" => op.refs # {}
  /\ op.kind = "scenario.remove" => disk.scenario[op.id] # None
  /\ op.kind = "evidence.revoke" =>
       disk.feature[op.id] # None /\ op.id \in disk.receipts

NewDocument(op) ==
  [status |-> "planned", deps |-> op.deps, caps |-> op.caps,
   rules |-> {}, modules |-> op.text, text |-> op.text,
   reason |-> None, by |-> None]

Revise(op, d) ==
  CASE op.kind = "feature.begin" ->
         IF d.status = "in_progress" THEN d
         ELSE [d EXCEPT !.status = "in_progress", !.reason = None]
    [] op.kind = "feature.block" ->
         [d EXCEPT !.status = "blocked", !.reason = op.text]
    [] op.kind = "feature.archive" ->
         IF d.status = "archived" THEN d
         ELSE [d EXCEPT !.status = "archived", !.reason = None, !.by = op.by]
    [] op.kind = "feature.set_text" -> [d EXCEPT !.text = op.text]
    [] op.kind = "feature.set_links" ->
         [d EXCEPT !.deps = op.deps, !.caps = op.caps,
                   !.modules = IF op.text = None THEN @ ELSE op.text]
    [] op.kind = "criterion.upsert" -> [d EXCEPT !.rules = op.rules]
    [] op.kind = "criterion.remove" -> [d EXCEPT !.rules = {}]
    [] op.kind = "dependency.promote" ->
         [d EXCEPT !.deps = @ \cup {op.candidate}]
    [] OTHER -> NewDocument(op)

Effect(op, s) ==
  CASE op.kind = "project.set" -> [s EXCEPT !.project = op.text]
    [] op.kind = "capability.upsert" -> [s EXCEPT !.capability[op.id] = op.text]
    [] op.kind = "capability.remove" -> [s EXCEPT !.capability[op.id] = None]
    [] op.kind = "architecture_rule.upsert" -> [s EXCEPT !.rule[op.id] = op.text]
    [] op.kind = "architecture_rule.remove" -> [s EXCEPT !.rule[op.id] = None]
    [] op.kind = "scenario.upsert" -> [s EXCEPT !.scenario[op.id] = op.refs]
    [] op.kind = "scenario.remove" -> [s EXCEPT !.scenario[op.id] = None]
    [] op.kind = "evidence.revoke" -> [s EXCEPT !.receipts = @ \ {op.id}]
    [] OTHER -> [s EXCEPT !.feature[op.id] = Revise(op, @)]

\* Mutant: that the index counts the modules of a feature is forgotten.
NeedsInventoryButLinks(op, s) ==
  \/ op.kind \in {"feature.create", "capability.upsert", "capability.remove",
                  "scenario.upsert", "scenario.remove"}
  \/ op.kind = "feature.begin" /\ s.feature[op.id].status # "in_progress"
  \/ op.kind \in {"feature.block", "feature.archive"}

\* Operations after which the projections have to be computed again.
NeedsInventory(op, s) ==
  \/ op.kind \in {"feature.create", "capability.upsert", "capability.remove",
                  "scenario.upsert", "scenario.remove"}
  \/ op.kind = "feature.begin" /\ s.feature[op.id].status # "in_progress"
  \/ op.kind \in {"feature.block", "feature.archive"}
       /\ Revise(op, s.feature[op.id]) # s.feature[op.id]
  \/ op.kind = "feature.set_links" /\ op.text # None

-----------------------------------------------------------------------------
(* A batch                                                                 *)

\* Mutant: an operation starts from the bytes on disk, not from the
\* candidate the operations before it left.
OperateOnDisk(op, before, disk) ==
  [spec |-> Effect(op, disk), ok |-> before.ok /\ Admits(op, before.spec, disk),
   derive |-> before.derive \/ NeedsInventory(op, before.spec)]

\* One iteration of the loop over the operations of a batch.
Operate(op, before, disk) ==
  IF before.ok /\ Admits(op, before.spec, disk)
  THEN [spec |-> Effect(op, before.spec), ok |-> TRUE,
        derive |-> before.derive \/ NeedsInventory(op, before.spec)]
  ELSE [before EXCEPT !.ok = FALSE]

\* The candidate after each operation of a batch, whether they were all
\* admitted, and whether the projections have to follow.
Candidates(batch, disk) ==
  LET after[i \in 0..Len(batch)] ==
        IF i = 0 THEN [spec |-> disk, ok |-> TRUE, derive |-> FALSE]
        ELSE Operate(batch[i], after[i - 1], disk)
  IN after

Candidate(batch, disk) == Candidates(batch, disk)[Len(batch)]

\* The ways to rank every feature above what it depends on.  There is one
\* exactly when the depth-first search of validateCycles meets no feature
\* it is still visiting.
Rankings(shards) ==
  {rank \in [Feature -> 1..Cardinality(Feature)] :
     \A f \in Present(Feature, shards) : \A g \in shards[f].deps : rank[g] < rank[f]}

ValidateCandidate(s) ==
  /\ \A f \in Present(Feature, s.feature) :
       LET d == s.feature[f] IN
       /\ d.status = "blocked" <=> d.reason # None
       /\ f \notin d.deps
       /\ d.deps \subseteq Present(Feature, s.feature)
       /\ d.caps \subseteq Present(Capability, s.capability)
       /\ d.rules \subseteq Present(Rule, s.rule)
  /\ Rankings(s.feature) # {}
  /\ \A j \in Present(Scenario, s.scenario) :
       s.scenario[j] # {} /\ s.scenario[j] \subseteq Present(Feature, s.feature)

Accepted(batch, s) ==
  Candidate(batch, s).ok /\ ValidateCandidate(Candidate(batch, s).spec)

\* The files written.  A scenario that some operation of the batch removes
\* is deleted, whatever the candidate says of it.
Written(batch, s) ==
  LET candidate == Candidate(batch, s).spec
      removed == {batch[i].id : i \in {j \in 1..Len(batch) :
                                         batch[j].kind = "scenario.remove"}}
  IN [project |-> candidate.project, feature |-> candidate.feature,
      scenario |-> [j \in Scenario |->
                      IF j \in removed THEN None ELSE candidate.scenario[j]],
      capability |-> candidate.capability, rule |-> candidate.rule,
      receipts |-> candidate.receipts]
-----------------------------------------------------------------------------
Idle == [batch |-> <<>>, saw |-> <<>>]

EditInit ==
  /\ spec = FirstSpec
  /\ generated = Projection(FirstSpec)
  /\ client = [c \in Client |-> Idle]
  /\ touched = FALSE
  /\ commits = 0 /\ hands = 0

\* prepareSpecEdit: on a stable snapshot, without the lock, a batch that
\* would be accepted now gets the revisions of the regions it names.
Prepare(c) ==
  /\ client[c] = Idle
  /\ \E b \in Batch :
       /\ Accepted(b, spec)
       /\ client' = [client EXCEPT ![c] =
            [batch |-> b,
             saw |-> [r \in RegionsForOperations(b) |-> Revision(spec, r)]]]
  /\ UNCHANGED <<spec, generated, touched, commits, hands>>

Fresh(c) ==
  \A r \in RegionsForOperations(client[c].batch) :
    Revision(spec, r) = client[c].saw[r]

\* Mutant: that the candidate was valid when it was prepared is enough.
AdmittedUnderLock(c) == Candidate(client[c].batch, spec).ok

AcceptedUnderLock(c) == Accepted(client[c].batch, spec)

\* A region has changed, or the batch is no longer accepted: found by the
\* attempt editSpec makes before it contends for the lock, or under it.
Reject(c) ==
  /\ client[c] # Idle
  /\ ~(Fresh(c) /\ AcceptedUnderLock(c))
  /\ client' = [client EXCEPT ![c] = Idle]
  /\ UNCHANGED <<spec, generated, touched, commits, hands>>

\* The projections are written with the shards, in the same transaction.
Derive(needed, after) ==
  IF needed THEN generated' = Projection(after) /\ touched' = FALSE
  ELSE UNCHANGED <<generated, touched>>

Commit(c) ==
  LET batch == client[c].batch IN
  /\ commits < MaxCommits
  /\ client[c] # Idle
  /\ Fresh(c) /\ AcceptedUnderLock(c)
  /\ spec' = Written(batch, spec)
  /\ Derive(Candidate(batch, spec).derive, Written(batch, spec))
  /\ client' = [client EXCEPT ![c] = Idle]
  /\ commits' = commits + 1
  /\ UNCHANGED hands

\* The completion gate publishes done with its projections.
GateDone ==
  /\ \E f \in Present(Feature, spec.feature) :
       /\ spec.feature[f].status = "in_progress"
       /\ spec' = [spec EXCEPT !.feature[f].status = "done",
                              !.feature[f].reason = None]
       /\ ValidateCandidate(spec')
       /\ Derive(TRUE, spec')
  /\ UNCHANGED <<client, commits, hands>>

\* refreshDerivedSpecProjections
Refresh ==
  /\ generated # Projection(spec)
  /\ Derive(TRUE, spec)
  /\ UNCHANGED <<spec, client, commits, hands>>

\* A person, or a merge, writes a feature's shard and takes no lock.
HandEdit ==
  /\ hands < MaxHands
  /\ \E edit \in HandWritten :
       spec' = [spec EXCEPT !.feature[edit[1]] = edit[2]]
  /\ touched' = TRUE
  /\ hands' = hands + 1
  /\ UNCHANGED <<generated, client, commits>>

EditNext ==
  \/ \E c \in Client : Prepare(c) \/ Reject(c) \/ Commit(c)
  \/ GateDone \/ Refresh \/ HandEdit

EditSpec == EditInit /\ [][EditNext]_editVars
-----------------------------------------------------------------------------
EditTypeOK ==
  /\ spec \in Specification
  /\ \A c \in Client : client[c] # Idle =>
       /\ client[c].batch \in Batch
       /\ DOMAIN client[c].saw = RegionsForOperations(client[c].batch)
  /\ touched \in BOOLEAN
  /\ commits \in 0..MaxCommits /\ hands \in 0..MaxHands

\* Every name refers to something that is there, no set of features hangs
\* on itself, and exactly the blocked features have a reason.
Coherent(s) ==
  /\ \A f \in Present(Feature, s.feature) :
       /\ s.feature[f].deps \subseteq Present(Feature, s.feature)
       /\ s.feature[f].caps \subseteq Present(Capability, s.capability)
       /\ s.feature[f].rules \subseteq Present(Rule, s.rule)
       /\ s.feature[f].status = "blocked" <=> s.feature[f].reason # None
  /\ \A S \in (SUBSET Present(Feature, s.feature)) \ {{}} :
       \E f \in S : s.feature[f].deps \cap S = {}
  /\ \A j \in Present(Scenario, s.scenario) : s.scenario[j] \subseteq Present(Feature, s.feature)

\* Write skew: two clients whose batches name disjoint regions, each fine
\* on the specification it was prepared on, never commit together a cycle
\* or a reference to nothing.  A commit leaves the whole specification
\* coherent, also where only another client or an editor changed it
\* (applyParsedSpecEdit validates again under the lock).
CommitsAreCoherent == [][commits' # commits => Coherent(spec')]_editVars

\* What a commit changes, in any region, still was what its client had
\* read; an edit it has not seen, of a client, of the gate or of a person,
\* is never overwritten.
NoBlindOverwrite ==
  [][\A c \in Client :
       commits' # commits /\ client'[c] # client[c] =>
         \A r \in Region : Revision(spec', r) # Revision(spec, r) =>
           /\ r \in DOMAIN client[c].saw
           /\ Revision(spec, r) = client[c].saw[r]]_editVars

\* Inventory and feature index say what the shards say, after any sequence
\* of commits, unless somebody has written a shard by hand since they were
\* last computed.
DerivedIsCurrent == touched \/ generated = Projection(spec)

\* A commit writes what its operations would have written submitted one
\* after the other, if each of them is accepted.  A batch that removes a
\* scenario and then writes it again is left out: it is validated with the
\* scenario and deletes it.
RemovedThenWritten(b) ==
  \E i, j \in 1..Len(b) :
    /\ i < j /\ b[i].kind = "scenario.remove"
    /\ b[j].kind = "scenario.upsert" /\ b[j].id = b[i].id

SubmitAlone(op, before) ==
  IF before[2] /\ Accepted(<<op>>, before[1])
  THEN <<Written(<<op>>, before[1]), TRUE>> ELSE <<before[1], FALSE>>

Submissions(b, s) ==
  LET after[i \in 0..Len(b)] ==
        IF i = 0 THEN <<s, TRUE>> ELSE SubmitAlone(b[i], after[i - 1])
  IN after

OneByOne(b, s) == Submissions(b, s)[Len(b)]

BatchIsSerial ==
  [][\A c \in Client :
       LET b == client[c].batch IN
       /\ commits' # commits /\ client'[c] # client[c]
       /\ ~RemovedThenWritten(b) /\ OneByOne(b, spec)[2]
       => spec' = OneByOne(b, spec)[1]]_editVars
=============================================================================
