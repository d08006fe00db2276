--------------------------- MODULE SubsystemProofs ---------------------------
(***************************************************************************)
(* Subsystems that share no state, each for any number of processes: the   *)
(* lock directory, the governor of pushed cards, the commits of typed      *)
(* edits, the migration, and human sign-off.                               *)
(***************************************************************************)
EXTENDS LockDirectory, PushLedger, SpecEdit, Migration, SignOff, FiniteSetTheorems,
        WellFoundedInduction, TLAPS

-----------------------------------------------------------------------------
(* The lock directory                                                      *)

\* Owner records in the making, the lock, the guard and files left behind need
\* the directory; one that was there to begin with is nobody's to remove as
\* long as no journal is recovered.
DirInv ==
  /\ DirTypeOK
  /\ \A u \in User :
       /\ u \in temps <=> user[u].at \in {"written", "linked", "denied"}
       /\ owner = u <=> user[u].at \in {"linked", "held", "working"}
       /\ guard = u <=> user[u].at = "guarded"
  /\ owner # Nobody \/ guard # Nobody \/ temps # {} \/ kept # {} => dir # Gone
  /\ first # Gone /\ ~recovered =>
       /\ dir = first
       /\ \A u \in User : /\ ~user[u].created /\ ~user[u].recovered
                          /\ user[u].at \notin {"failed", "matched", "clearing"}

LEMMA DirInitially == DirInit => DirInv
<1> SUFFICES ASSUME DirInit PROVE DirInv
  OBVIOUS
<1>1. Out \in UserRecord
  BY DEF Out, At, UserRecord
<1>2. \A u \in User : /\ user[u].at = "out" /\ ~user[u].created
                      /\ ~user[u].recovered
  BY DEF DirInit, Out
<1>3. DirTypeOK
  <2>1. user \in [User -> UserRecord]
    BY <1>1 DEF DirInit
  <2>2. {dir, first} \subseteq Inode \cup {Gone} /\ takes \in 0..MaxTakes
    BY DirectoryAssumption DEF DirInit
  <2>3. QED
    BY <2>1, <2>2 DEF DirInit, DirTypeOK
<1>4. QED
  BY <1>2, <1>3, DirectoryAssumption DEF DirInit, DirInv

LEMMA DirStep ==
  ASSUME DirInv, [DirNext]_dirVars
  PROVE  DirInv'
<1> USE DirectoryAssumption DEF DirInv, DirTypeOK, At, UserRecord
<1>1. ASSUME NEW u \in User, Peek(u) PROVE DirInv'
  <2> DEFINE new == [Out EXCEPT !.at = IF dir = Gone THEN "safe" ELSE "seen"]
  <2>1. /\ new \in UserRecord /\ new.at \in {"safe", "seen"}
        /\ ~new.created /\ ~new.recovered
    BY DEF Out
  <2>2. /\ user[u].at \in {"out", "failed"} /\ user' = [user EXCEPT ![u] = new]
        /\ takes' \in 0..MaxTakes
        /\ UNCHANGED <<dir, temps, owner, guard, kept, first, recovered>>
    BY <1>1 DEF Peek
  <2> HIDE DEF new
  <2>3. /\ user'[u] = new /\ \A v \in User \ {u} : user'[v] = user[v]
        /\ user' \in [User -> UserRecord]
    BY <2>1, <2>2
  <2>4. DirTypeOK'
    BY <2>2, <2>3
  <2>5. \A v \in User : /\ v \in temps <=> user'[v].at \in {"written", "linked", "denied"}
                        /\ owner = v <=> user'[v].at \in {"linked", "held", "working"}
                        /\ guard = v <=> user'[v].at = "guarded"
    BY <2>1, <2>2, <2>3
  <2>6. (first # Gone /\ ~recovered) =>
          \A v \in User : /\ ~user'[v].created /\ ~user'[v].recovered
                          /\ user'[v].at \notin {"failed", "matched", "clearing"}
    BY <2>1, <2>3
  <2>7. UNCHANGED <<dir, temps, owner, guard, kept, first, recovered>>
    BY <2>2
  <2> HIDE DEF DirTypeOK, At, UserRecord
  <2> QED BY <2>4, <2>5, <2>6, <2>7
<1>2. ASSUME NEW u \in User, Look(u) PROVE DirInv'
  <2> DEFINE at == IF user[u].at = "seen" /\ dir = Gone THEN "failed" ELSE "looked"
             made == dir = Gone
  <2>1. /\ user[u].at \in {"seen", "safe"} /\ dir \in Inode \cup {Gone}
        /\ UNCHANGED <<dir, temps, owner, guard, kept, first, recovered, takes>>
    BY <1>2 DEF Look
  <2>2. at \in At /\ made \in BOOLEAN /\ at \in {"failed", "looked"}
    OBVIOUS
  <2>3. (at = "failed" \/ made) => dir = Gone
    OBVIOUS
  <2>4. user' = [user EXCEPT ![u] = [[user[u] EXCEPT !.at = at] EXCEPT !.created = made]]
    BY <1>2 DEF Look
  <2> HIDE DEF at, made
  <2>5. /\ user'[u].at = at /\ user'[u].created = made
        /\ user'[u].recovered = user[u].recovered
        /\ \A v \in User \ {u} : user'[v] = user[v]
    BY <2>4
  <2>6. user' \in [User -> UserRecord]
    <3> DEFINE new == [[user[u] EXCEPT !.at = at] EXCEPT !.created = made]
    <3>1. user[u] \in UserRecord
      OBVIOUS
    <3>2. new \in UserRecord
      BY <3>1, <2>2
    <3>3. user' = [user EXCEPT ![u] = new]
      BY <2>4
    <3> HIDE DEF new
    <3> QED BY <3>2, <3>3
  <2>7. DirTypeOK'
    BY <2>1, <2>6
  <2>8. \A v \in User : /\ v \in temps <=> user'[v].at \in {"written", "linked", "denied"}
                        /\ owner = v <=> user'[v].at \in {"linked", "held", "working"}
                        /\ guard = v <=> user'[v].at = "guarded"
    BY <2>1, <2>2, <2>5
  <2>9. (first # Gone /\ ~recovered) =>
          \A v \in User : /\ ~user'[v].created /\ ~user'[v].recovered
                          /\ user'[v].at \notin {"failed", "matched", "clearing"}
    <3>1. dir = first /\ first # Gone => dir # Gone
      OBVIOUS
    <3> QED BY <2>2, <2>3, <2>5, <3>1
  <2> HIDE DEF DirTypeOK, At, UserRecord
  <2> QED BY <2>1, <2>7, <2>8, <2>9
<1>3. ASSUME NEW u \in User, Mkdir(u) PROVE DirInv'
  BY <1>3 DEF Mkdir, Move, Make
<1>4. ASSUME NEW u \in User, Lstat(u) PROVE DirInv'
  <2> DEFINE at == IF dir = Gone THEN "failed" ELSE "known"
  <2>1. /\ user[u].at = "made" /\ dir \in Inode \cup {Gone}
        /\ UNCHANGED <<dir, temps, owner, guard, kept, first, recovered, takes>>
    BY <1>4 DEF Lstat
  <2>2. at \in At /\ at \in {"failed", "known"} /\ (at = "failed" => dir = Gone)
    OBVIOUS
  <2>3. user' = [user EXCEPT ![u] = [[user[u] EXCEPT !.at = at] EXCEPT !.inode = dir]]
    BY <1>4 DEF Lstat
  <2> HIDE DEF at
  <2>4. /\ user'[u].at = at /\ user'[u].created = user[u].created
        /\ user'[u].recovered = user[u].recovered
        /\ \A v \in User \ {u} : user'[v] = user[v]
    BY <2>3
  <2>5. user' \in [User -> UserRecord]
    <3> DEFINE new == [[user[u] EXCEPT !.at = at] EXCEPT !.inode = dir]
    <3>1. user[u] \in UserRecord
      OBVIOUS
    <3>2. new \in UserRecord
      BY <3>1, <2>1, <2>2
    <3>3. user' = [user EXCEPT ![u] = new]
      BY <2>3
    <3> HIDE DEF new
    <3> QED BY <3>2, <3>3
  <2> QED BY <2>1, <2>2, <2>4, <2>5
<1>5. ASSUME NEW u \in User, Provide(u) PROVE DirInv'
  BY <1>5 DEF Provide, Move, Make
<1>6. ASSUME NEW u \in User, WriteTemp(u) PROVE DirInv'
  BY <1>6 DEF WriteTemp, Move
<1>7. ASSUME NEW u \in User, Link(u) PROVE DirInv'
  BY <1>7 DEF Link, Move
<1>8. ASSUME NEW u \in User, UnlinkTemp(u) PROVE DirInv'
  BY <1>8 DEF UnlinkTemp, Move
<1>9. ASSUME NEW u \in User, Denied(u) PROVE DirInv'
  BY <1>9 DEF Denied, Move
<1>10. ASSUME NEW u \in User, DropTemp(u) PROVE DirInv'
  <2>1. PICK to \in {"known", "out", "suspects"} : Move(u, "denied", to)
    BY <1>10 DEF DropTemp, Waits
  <2>2. temps' = temps \ {u} /\ UNCHANGED <<dir, owner, guard, kept, first, recovered, takes>>
    BY <1>10 DEF DropTemp
  <2>3. /\ user'[u].at = to /\ user[u].at = "denied"
        /\ user'[u].created = user[u].created /\ user'[u].recovered = user[u].recovered
        /\ \A v \in User \ {u} : user'[v] = user[v]
        /\ user' \in [User -> UserRecord]
    BY <2>1 DEF Move
  <2> QED BY <2>2, <2>3
<1>11. ASSUME NEW u \in User, MakeForGuard(u) PROVE DirInv'
  BY <1>11 DEF MakeForGuard, Move, Make
<1>12. ASSUME NEW u \in User, Guard(u) PROVE DirInv'
  <2>1. UNCHANGED <<dir, temps, owner, kept, first, recovered, takes>>
    BY <1>12 DEF Guard
  <2>2. CASE dir # Gone /\ guard = Nobody /\ Move(u, "guarding", "guarded") /\ guard' = u
    BY <2>1, <2>2 DEF Move
  <2>3. CASE Waits(u, "guarding") /\ guard' = guard
    <3>1. PICK to \in {"known", "out"} : Move(u, "guarding", to)
      BY <2>3 DEF Waits
    <3> QED BY <2>1, <2>3, <3>1 DEF Move
  <2> QED BY <1>12, <2>2, <2>3 DEF Guard
<1>13. ASSUME NEW u \in User, Unguard(u) PROVE DirInv'
  <2>1. PICK to \in {"known", "out"} : Move(u, "guarded", to)
    BY <1>13 DEF Unguard, Waits
  <2>2. guard' = Nobody /\ UNCHANGED <<dir, temps, owner, kept, first, recovered, takes>>
    BY <1>13 DEF Unguard
  <2> QED BY <2>1, <2>2 DEF Move
<1>14. ASSUME NEW u \in User, Recover(u) PROVE DirInv'
  <2>1. /\ user[u].at = "held" /\ kept' = kept \ {"journal"} /\ recovered' = TRUE
        /\ UNCHANGED <<dir, temps, owner, guard, first, takes>>
    BY <1>14 DEF Recover
  <2>2. user' = [user EXCEPT ![u] = [[user[u] EXCEPT !.at = "working"] EXCEPT !.recovered = TRUE]]
    BY <1>14 DEF Recover
  <2>3. user'[u].at = "working" /\ \A v \in User \ {u} : user'[v] = user[v]
    BY <2>2
  <2>4. user' \in [User -> UserRecord]
    <3> DEFINE new == [[user[u] EXCEPT !.at = "working"] EXCEPT !.recovered = TRUE]
    <3>1. user[u] \in UserRecord
      OBVIOUS
    <3>2. new \in UserRecord
      BY <3>1
    <3>3. user' = [user EXCEPT ![u] = new]
      BY <2>2
    <3> HIDE DEF new
    <3> QED BY <3>2, <3>3
  <2> QED BY <2>1, <2>3, <2>4
<1>15. ASSUME NEW u \in User, Work(u) PROVE DirInv'
  <2>1. kept' \subseteq {"journal", "files"} /\ owner = u
        /\ UNCHANGED <<dir, temps, owner, guard, first, recovered, takes>>
    BY <1>15 DEF Work, Move
  <2>2. CASE Move(u, "held", "working")
    BY <2>1, <2>2 DEF Move
  <2>3. CASE UNCHANGED user
    BY <2>1, <2>3
  <2> QED BY <1>15, <2>2, <2>3 DEF Work
<1>16. ASSUME NEW u \in User, Unlink(u) PROVE DirInv'
  <2>1. owner' = Nobody /\ UNCHANGED <<dir, temps, guard, kept, first, recovered, takes>>
    BY <1>16 DEF Unlink
  <2>2. PICK from \in {"held", "working"} : Move(u, from, "released")
    BY <1>16 DEF Unlink
  <2> QED BY <2>1, <2>2 DEF Move
<1>17. ASSUME NEW u \in User, Match(u) PROVE DirInv'
  <2>1. PICK to \in {"matched", "clearing", "out"} :
          /\ Move(u, "released", to)
          /\ to = "matched" => user[u].created
          /\ to = "clearing" => user[u].recovered
    BY <1>17 DEF Match, MayRemove, Afterwards
  <2>2. UNCHANGED <<dir, temps, owner, guard, kept, first, recovered, takes>>
    BY <1>17 DEF Match
  <2> QED BY <2>1, <2>2 DEF Move
<1>18. ASSUME NEW u \in User, NEW from \in {"matched", "clearing"}, NEW to \in {"clearing", "out"},
              Move(u, from, to), Remove,
              UNCHANGED <<temps, owner, guard, kept, first, recovered, takes>>
       PROVE  DirInv'
  BY <1>18 DEF Move, Remove
<1>19. ASSUME NEW u \in User, Rmdir(u) \/ Clear(u) PROVE DirInv'
  BY <1>18, <1>19 DEF Rmdir, Clear, Afterwards
<1>20. CASE UNCHANGED dirVars
  BY <1>20 DEF dirVars
<1> QED
  BY <1>1, <1>2, <1>3, <1>4, <1>5, <1>6, <1>7, <1>8, <1>9, <1>10, <1>11, <1>12,
     <1>13, <1>14, <1>15, <1>16, <1>17, <1>19, <1>20 DEF DirNext

\* Cleaning up the lock directory never takes it from under anybody
\* (acquireLock, writeDurable, releaseLock, removeOwnedEmptyLockDirectory), and
\* without a recovery (removeEmptyTransactionStateDirectory) one that was there
\* before is never missed.
THEOREM DirectoryIsSafe == DirSpec => []DirectoryOutlivesItsUsers
<1>1. DirInv => DirectoryOutlivesItsUsers
  BY DEF DirInv, DirectoryOutlivesItsUsers
<1>2. QED
  BY <1>1, DirInitially, DirStep, PTL DEF DirSpec
-----------------------------------------------------------------------------
(* Commits of typed edits                                                  *)

\* Features that can be ranked above what they depend on hang on no cycle.
LEMMA RankingsAreAcyclic ==
  ASSUME NEW shards, Rankings(shards) # {},
         NEW S \in (SUBSET Present(Feature, shards)) \ {{}}
  PROVE  \E f \in S : shards[f].deps \cap S = {}
<1>1. PICK rank \in [Feature -> 1..Cardinality(Feature)] :
        \A f \in Present(Feature, shards) : \A g \in shards[f].deps : rank[g] < rank[f]
  BY DEF Rankings
<1>2. Cardinality(Feature) \in Nat
  BY FS_CardinalityType, EditAssumption
<1>3. S \subseteq Feature
  BY DEF Present
<1> DEFINE ranks == {rank[f] : f \in S}
<1>4. ranks \in SUBSET Nat /\ ranks # {}
  BY <1>1, <1>2, <1>3
<1>5. PICK low \in ranks : \A n \in ranks : ~(<<n, low>> \in OpToRel(<, Nat))
  BY <1>4, NatLessThanWellFounded, WFMin
<1>6. PICK f \in S : rank[f] = low
  OBVIOUS
<1>7. ASSUME NEW g \in shards[f].deps \cap S PROVE FALSE
  <2>1. rank[g] < low
    BY <1>1, <1>6, <1>7
  <2>2. rank[g] \in Nat /\ low \in Nat
    BY <1>4, <1>7
  <2>3. QED
    BY <1>5, <2>1, <2>2 DEF OpToRel
<1>8. QED
  BY <1>6, <1>7

\* What is written differs from the candidate in scenarios removed.
LEMMA WrittenIsCoherent ==
  ASSUME NEW batch, NEW s, ValidateCandidate(Candidate(batch, s).spec)
  PROVE  Coherent(Written(batch, s))
<1> DEFINE candidate == Candidate(batch, s).spec
           written == Written(batch, s)
<1>1. /\ written.feature = candidate.feature
      /\ written.capability = candidate.capability
      /\ written.rule = candidate.rule
      /\ \A j \in Scenario : written.scenario[j] # None =>
           written.scenario[j] = candidate.scenario[j]
  BY DEF Written
<1>2. ValidateCandidate(candidate)
  OBVIOUS
<1> HIDE DEF candidate, written
<1>3. Rankings(written.feature) # {}
  BY <1>1, <1>2 DEF ValidateCandidate
<1>4. \A S \in (SUBSET Present(Feature, written.feature)) \ {{}} :
        \E f \in S : written.feature[f].deps \cap S = {}
  BY <1>3, RankingsAreAcyclic
<1>5. \A f \in Present(Feature, written.feature) :
        /\ written.feature[f].deps \subseteq Present(Feature, written.feature)
        /\ written.feature[f].caps \subseteq Present(Capability, written.capability)
        /\ written.feature[f].rules \subseteq Present(Rule, written.rule)
        /\ written.feature[f].status = "blocked" <=> written.feature[f].reason # None
  BY <1>1, <1>2 DEF ValidateCandidate
<1>6. \A j \in Present(Scenario, written.scenario) :
        written.scenario[j] \subseteq Present(Feature, written.feature)
  BY <1>1, <1>2 DEF ValidateCandidate, Present
<1>7. Coherent(written)
  BY <1>4, <1>5, <1>6 DEF Coherent
<1>8. QED
  BY <1>7 DEF written

\* No commit leaves a cycle or a reference to nothing, whatever the batches,
\* however many clients, and whatever was written by hand in between: the
\* validation under the lock is enough (applyParsedSpecEdit).
THEOREM CommitsLeaveCoherence == EditSpec => CommitsAreCoherent
<1>1. ASSUME [EditNext]_editVars PROVE commits' # commits => Coherent(spec')
  <2>1. ASSUME NEW c \in Client, Commit(c) PROVE Coherent(spec')
    BY <2>1, WrittenIsCoherent DEF Commit, AcceptedUnderLock, Accepted
  <2>2. ASSUME NEW c \in Client, Prepare(c) \/ Reject(c) PROVE commits' = commits
    BY <2>2, Zenon DEF Prepare, Reject
  <2>3. ASSUME GateDone \/ Refresh \/ HandEdit PROVE commits' = commits
    BY <2>3, Zenon DEF GateDone, Refresh, HandEdit
  <2>4. QED
    BY <1>1, <2>1, <2>2, <2>3 DEF EditNext, editVars
<1>2. QED
  BY <1>1, PTL DEF EditSpec, CommitsAreCoherent
-----------------------------------------------------------------------------
(* What a batch does, by induction along its operations                     *)

\* What holds at first and is handed on holds up to n.
LEMMA UpTo ==
  ASSUME NEW n \in Nat, NEW S, 0 \in S, \A i \in 1..n : i - 1 \in S => i \in S
  PROVE  0..n \subseteq S
<1> DEFINE Missing == {i \in 0..n : i \notin S}
<1>1. SUFFICES ASSUME Missing # {} PROVE FALSE
  OBVIOUS
<1>2. Missing \in SUBSET Nat
  OBVIOUS
<1>3. PICK low \in Missing : \A i \in Missing : ~(<<i, low>> \in OpToRel(<, Nat))
  BY <1>1, <1>2, NatLessThanWellFounded, WFMin
<1>4. low # 0 /\ low \in 0..n /\ low \notin S
  OBVIOUS
<1>5. low - 1 \in Missing
  BY <1>4
<1>6. low - 1 < low /\ low - 1 \in Nat /\ low \in Nat
  BY <1>4
<1> QED BY <1>3, <1>5, <1>6 DEF OpToRel

FeatureKinds == {"feature.create"} \cup Revising \cup Lifecycle

\* An operation of a kind has the fields the code reads of that kind.
LEMMA OperationFields ==
  ASSUME NEW op \in Operation
  PROVE  /\ op.kind \in FeatureKinds => op.id \in Feature
         /\ op.kind = "evidence.revoke" => op.id \in Feature
         /\ op.kind \in {"capability.upsert", "capability.remove"} => op.id \in Capability
         /\ op.kind \in {"architecture_rule.upsert", "architecture_rule.remove"} => op.id \in Rule
         /\ op.kind \in {"scenario.upsert", "scenario.remove"} => op.id \in Scenario
         /\ op.kind \in {"project.set", "feature.create", "feature.block", "feature.set_text",
                          "capability.upsert", "architecture_rule.upsert"} => op.text \in Text
         /\ op.kind = "feature.set_links" => op.text \in Text \cup {None}
         /\ op.kind \in {"feature.create", "feature.set_links"} =>
              op.deps \in SUBSET Feature /\ op.caps \in SUBSET Capability
         /\ op.kind = "feature.archive" => op.by \in Feature \cup {None}
         /\ op.kind = "criterion.upsert" => op.rules \in SUBSET Rule
         /\ op.kind = "dependency.promote" => op.candidate \in Feature
         /\ op.kind = "scenario.upsert" => op.refs \in SUBSET Feature
BY DEF Operation, FeatureKinds, Revising, Lifecycle

Kinds == FeatureKinds \cup {"evidence.revoke", "project.set",
  "capability.upsert", "capability.remove", "architecture_rule.upsert",
  "architecture_rule.remove", "scenario.upsert", "scenario.remove"}

LEMMA OperationKind == ASSUME NEW op \in Operation PROVE op.kind \in Kinds
BY DEF Operation, Kinds, FeatureKinds, Revising, Lifecycle

LEMMA ReviseTyped ==
  ASSUME NEW op \in Operation, op.kind \in FeatureKinds,
         NEW d, op.kind # "feature.create" => d \in Document
  PROVE  Revise(op, d) \in Document
<1> USE OperationFields DEF Document, Status, FeatureKinds, Revising, Lifecycle, Revise
<1>1. CASE op.kind = "feature.create"
  BY <1>1 DEF NewDocument
<1>2. CASE op.kind = "feature.begin"
  BY <1>2
<1>3. CASE op.kind = "feature.block"
  BY <1>3
<1>4. CASE op.kind = "feature.archive"
  BY <1>4
<1>5. CASE op.kind = "feature.set_text"
  BY <1>5
<1>6. CASE op.kind = "feature.set_links"
  BY <1>6
<1>7. CASE op.kind = "criterion.upsert"
  BY <1>7
<1>8. CASE op.kind = "criterion.remove"
  BY <1>8
<1>9. CASE op.kind = "dependency.promote"
  BY <1>9
<1> QED BY <1>1, <1>2, <1>3, <1>4, <1>5, <1>6, <1>7, <1>8, <1>9

LEMMA EffectTyped ==
  ASSUME NEW op \in Operation, NEW s \in Specification, NEW disk, Admits(op, s, disk)
  PROVE  Effect(op, s) \in Specification
<1> USE OperationFields DEF Specification, Effect, FeatureKinds
<1>1. CASE op.kind \in FeatureKinds
  <2> DEFINE d == Revise(op, s.feature[op.id])
  <2>0. op.id \in Feature
    BY <1>1
  <2>1. op.kind # "feature.create" => s.feature[op.id] \in Document
    BY <1>1, <2>0 DEF Admits, Revising, Lifecycle
  <2>2. d \in Document
    BY <1>1, <2>1, ReviseTyped
  <2>3. Effect(op, s) = [s EXCEPT !.feature[op.id] = d]
    BY <1>1 DEF Revising, Lifecycle
  <2> HIDE DEF d, FeatureKinds, Effect
  <2> QED BY <2>0, <2>2, <2>3
<1>2. CASE op.kind \in {"capability.upsert", "capability.remove"}
  BY <1>2
<1>3. CASE op.kind \in {"architecture_rule.upsert", "architecture_rule.remove"}
  BY <1>3
<1>4. CASE op.kind \in {"scenario.upsert", "scenario.remove"}
  BY <1>4
<1>5. CASE op.kind \in {"project.set", "evidence.revoke"}
  BY <1>5
<1> QED BY <1>1, <1>2, <1>3, <1>4, <1>5, OperationKind DEF Kinds

\* Which part of the specification an operation changes, and to what.
LEMMA EffectParts ==
  ASSUME NEW op \in Operation, NEW s \in Specification
  PROVE  /\ Effect(op, s).project = IF op.kind = "project.set" THEN op.text ELSE s.project
         /\ Effect(op, s).feature =
              IF op.kind \in FeatureKinds
              THEN [s.feature EXCEPT ![op.id] = Revise(op, @)] ELSE s.feature
         /\ Effect(op, s).scenario =
              IF op.kind = "scenario.upsert" THEN [s.scenario EXCEPT ![op.id] = op.refs]
              ELSE IF op.kind = "scenario.remove" THEN [s.scenario EXCEPT ![op.id] = None]
              ELSE s.scenario
         /\ Effect(op, s).capability =
              IF op.kind = "capability.upsert" THEN [s.capability EXCEPT ![op.id] = op.text]
              ELSE IF op.kind = "capability.remove" THEN [s.capability EXCEPT ![op.id] = None]
              ELSE s.capability
         /\ Effect(op, s).rule =
              IF op.kind = "architecture_rule.upsert" THEN [s.rule EXCEPT ![op.id] = op.text]
              ELSE IF op.kind = "architecture_rule.remove" THEN [s.rule EXCEPT ![op.id] = None]
              ELSE s.rule
         /\ Effect(op, s).receipts =
              IF op.kind = "evidence.revoke" THEN s.receipts \ {op.id} ELSE s.receipts
<1> USE DEF Specification
<1>1. CASE op.kind \in FeatureKinds
  <2> DEFINE d == Revise(op, s.feature[op.id])
  <2>1. Effect(op, s) = [s EXCEPT !.feature[op.id] = d]
    BY <1>1 DEF Effect, FeatureKinds, Revising, Lifecycle
  <2>2. op.kind \notin {"project.set", "evidence.revoke", "capability.upsert", "capability.remove",
           "architecture_rule.upsert", "architecture_rule.remove",
           "scenario.upsert", "scenario.remove"}
    BY <1>1 DEF FeatureKinds, Revising, Lifecycle
  <2> HIDE DEF d
  <2>3. /\ Effect(op, s).project = s.project
        /\ Effect(op, s).feature = [s.feature EXCEPT ![op.id] = d]
        /\ Effect(op, s).scenario = s.scenario /\ Effect(op, s).capability = s.capability
        /\ Effect(op, s).rule = s.rule /\ Effect(op, s).receipts = s.receipts
    BY <2>1
  <2> QED BY <1>1, <2>2, <2>3 DEF d
<1>2. CASE op.kind \in {"capability.upsert", "capability.remove"}
  BY <1>2 DEF Effect, FeatureKinds, Revising, Lifecycle
<1>3. CASE op.kind \in {"architecture_rule.upsert", "architecture_rule.remove"}
  BY <1>3 DEF Effect, FeatureKinds, Revising, Lifecycle
<1>4. CASE op.kind \in {"scenario.upsert", "scenario.remove"}
  BY <1>4 DEF Effect, FeatureKinds, Revising, Lifecycle
<1>5. CASE op.kind \in {"project.set", "evidence.revoke"}
  BY <1>5 DEF Effect, FeatureKinds, Revising, Lifecycle
<1> QED BY <1>1, <1>2, <1>3, <1>4, <1>5, OperationKind DEF Kinds

\* regionsForOperations names the region an operation changes.
LEMMA EffectIsLocal ==
  ASSUME NEW op \in Operation, NEW s \in Specification, NEW r \in Region, r # RegionOf(op)
  PROVE  Revision(Effect(op, s), r) = Revision(s, r)
<1>1. /\ op.kind = "project.set" => RegionOf(op) = Whole("project")
      /\ op.kind \in {"capability.upsert", "capability.remove"} =>
           RegionOf(op) = Whole("capabilities")
      /\ op.kind \in {"architecture_rule.upsert", "architecture_rule.remove"} =>
           RegionOf(op) = Whole("architecture")
      /\ op.kind \in {"scenario.upsert", "scenario.remove"} =>
           RegionOf(op) = Shard("scenario", op.id)
      /\ op.kind = "evidence.revoke" => RegionOf(op) = Shard("evidence", op.id)
      /\ op.kind \in FeatureKinds => RegionOf(op) = Shard("feature", op.id)
  BY DEF RegionOf, FeatureKinds, Revising, Lifecycle
<1> DEFINE t == Effect(op, s)
<1>2. CASE r = Whole("project")
  BY <1>1, <1>2, EffectParts DEF Whole, Revision
<1>3. CASE r = Whole("capabilities")
  BY <1>1, <1>3, EffectParts DEF Whole, Revision
<1>4. CASE r = Whole("architecture")
  BY <1>1, <1>4, EffectParts DEF Whole, Revision
<1>5. ASSUME NEW g \in Feature, r = Shard("feature", g) PROVE Revision(t, r) = Revision(s, r)
  <2>1. t.feature[g] = s.feature[g]
    BY <1>1, <1>5, EffectParts DEF Shard, Specification
  <2> QED BY <1>5, <2>1 DEF Shard, Revision
<1>6. ASSUME NEW j \in Scenario, r = Shard("scenario", j) PROVE Revision(t, r) = Revision(s, r)
  <2>1. t.scenario[j] = s.scenario[j]
    BY <1>1, <1>6, EffectParts DEF Shard, Specification
  <2> QED BY <1>6, <2>1 DEF Shard, Revision
<1>7. ASSUME NEW g \in Feature, r = Shard("evidence", g) PROVE Revision(t, r) = Revision(s, r)
  <2>1. g \in t.receipts <=> g \in s.receipts
    BY <1>1, <1>7, EffectParts DEF Shard, Specification
  <2>2. r.kind = "evidence" /\ r.id = g
    BY <1>7 DEF Shard
  <2>3. Revision(t, r) = (g \in t.receipts) /\ Revision(s, r) = (g \in s.receipts)
    BY <2>2 DEF Revision
  <2> QED BY <2>1, <2>3
<1> QED BY <1>2, <1>3, <1>4, <1>5, <1>6, <1>7 DEF Region

\* What needs no new projection changes none.
LEMMA ProjectionStands ==
  ASSUME NEW op \in Operation, NEW s \in Specification, NEW disk, Admits(op, s, disk),
         ~NeedsInventory(op, s)
  PROVE  Projection(Effect(op, s)) = Projection(s)
<1> DEFINE t == Effect(op, s)
<1>1. t.scenario = s.scenario /\ t.capability = s.capability
  BY EffectParts DEF NeedsInventory
<1>2. /\ Present(Feature, t.feature) = Present(Feature, s.feature)
      /\ \A g \in Present(Feature, s.feature) :
           t.feature[g].status = s.feature[g].status /\ t.feature[g].modules = s.feature[g].modules
  <2>1. CASE op.kind \notin FeatureKinds
    BY <2>1, EffectParts
  <2>2. CASE op.kind \in FeatureKinds
    <3> DEFINE d == s.feature[op.id]
               e == Revise(op, d)
    <3>1. op.kind # "feature.create" /\ op.id \in Feature /\ d # None
      BY <2>2, OperationFields DEF NeedsInventory, Admits, FeatureKinds
    <3>2. d \in Document /\ e \in Document
      BY <2>2, <3>1, ReviseTyped DEF Specification
    <3>3. e.status = d.status /\ e.modules = d.modules
      BY <2>2, <3>1, <3>2 DEF NeedsInventory, Revise, Document, FeatureKinds, Revising, Lifecycle
    <3>4. t.feature = [s.feature EXCEPT ![op.id] = e]
      BY <2>2, EffectParts
    <3> HIDE DEF d, e, t
    <3>5. \A g \in Feature : t.feature[g] = IF g = op.id THEN e ELSE s.feature[g]
      BY <3>4 DEF Specification
    <3>6. e # None /\ s.feature[op.id] # None /\ s.feature[op.id] = d
      BY <3>1, <3>2, EditAssumption DEF d
    <3> QED BY <3>3, <3>5, <3>6 DEF Present
  <2> QED BY <2>1, <2>2
<1>3. [g \in Present(Feature, t.feature) |-> <<t.feature[g].status, t.feature[g].modules>>]
        = [g \in Present(Feature, s.feature) |-> <<s.feature[g].status, s.feature[g].modules>>]
  BY <1>2
<1> QED BY <1>1, <1>3 DEF Projection

\* What the loop over the operations carries from one to the next.
Candidacy == [spec : Specification, ok : BOOLEAN, derive : BOOLEAN]
FirstCandidate(disk) == [spec |-> disk, ok |-> TRUE, derive |-> FALSE]

LEMMA OperateTyped ==
  ASSUME NEW op \in Operation, NEW x \in Candidacy, NEW disk
  PROVE  /\ Operate(op, x, disk) \in Candidacy
         /\ Operate(op, x, disk).ok =>
              /\ x.ok /\ Admits(op, x.spec, disk)
              /\ Operate(op, x, disk).spec = Effect(op, x.spec)
              /\ ~Operate(op, x, disk).derive => ~x.derive /\ ~NeedsInventory(op, x.spec)
<1>1. x.spec \in Specification /\ x.ok \in BOOLEAN /\ x.derive \in BOOLEAN
  BY DEF Candidacy
<1>2. CASE x.ok /\ Admits(op, x.spec, disk)
  <2> DEFINE t == Effect(op, x.spec)
             needs == x.derive \/ NeedsInventory(op, x.spec)
  <2>1. t \in Specification /\ needs \in BOOLEAN
    BY <1>1, <1>2, EffectTyped
  <2>2. Operate(op, x, disk) = [spec |-> t, ok |-> TRUE, derive |-> needs]
    BY <1>2 DEF Operate
  <2> HIDE DEF t, needs
  <2>3. Operate(op, x, disk) \in Candidacy /\ Operate(op, x, disk).spec = t
    BY <2>1, <2>2 DEF Candidacy
  <2>4. Operate(op, x, disk).derive = needs
    BY <2>2
  <2>5. ~needs => ~x.derive /\ ~NeedsInventory(op, x.spec)
    BY DEF needs
  <2> QED BY <1>2, <2>3, <2>4, <2>5 DEF t
<1>3. CASE ~(x.ok /\ Admits(op, x.spec, disk))
  <2>1. Operate(op, x, disk) = [x EXCEPT !.ok = FALSE]
    BY <1>3 DEF Operate
  <2>2. Operate(op, x, disk) \in Candidacy
    BY <2>1 DEF Candidacy
  <2>3. Operate(op, x, disk).ok = FALSE
    BY <2>1 DEF Candidacy
  <2> QED BY <2>2, <2>3
<1> QED BY <1>2, <1>3

\* The recursive function of a batch exists, and is what its equation says.
LEMMA CandidatesTyped ==
  ASSUME NEW batch \in Seq(Operation), NEW disk \in Specification
  PROVE  /\ Candidates(batch, disk) \in [0..Len(batch) -> Candidacy]
         /\ Candidates(batch, disk)[0] = FirstCandidate(disk)
         /\ \A i \in 1..Len(batch) :
              Candidates(batch, disk)[i] = Operate(batch[i], Candidates(batch, disk)[i - 1], disk)
<1> DEFINE n == Len(batch)
           g == Candidates(batch, disk)
           Run(f, k) == /\ f \in [0..n -> Candidacy] /\ f[0] = FirstCandidate(disk)
                        /\ \A i \in 1..k : f[i] = Operate(batch[i], f[i-1], disk)
           Runs == {k \in 0..n : \E f : Run(f, k)}
<1>1. n \in Nat /\ \A i \in 1..n : batch[i] \in Operation
  OBVIOUS
<1>2. FirstCandidate(disk) \in Candidacy
  BY DEF Candidacy, FirstCandidate
<1>3. 0 \in Runs
  <2> DEFINE f == [i \in 0..n |-> FirstCandidate(disk)]
  <2>1. f \in [0..n -> Candidacy] /\ f[0] = FirstCandidate(disk)
    BY <1>1, <1>2
  <2> HIDE DEF f
  <2>2. Run(f, 0)
    BY <2>1
  <2> QED BY <1>1, <2>2
<1>4. ASSUME NEW k \in 1..n, k - 1 \in Runs PROVE k \in Runs
  <2>1. PICK f : Run(f, k - 1)
    BY <1>4
  <2> DEFINE h == [f EXCEPT ![k] = Operate(batch[k], f[k-1], disk)]
  <2>2. k - 1 \in 0..n /\ k \in 0..n /\ k # 0 /\ batch[k] \in Operation /\ f[k-1] \in Candidacy
    BY <1>1, <2>1
  <2>3. Operate(batch[k], f[k-1], disk) \in Candidacy
    BY <2>2, OperateTyped
  <2>4. h \in [0..n -> Candidacy] /\ h[0] = FirstCandidate(disk)
    BY <1>1, <2>1, <2>2, <2>3
  <2>5. ASSUME NEW i \in 1..k PROVE h[i] = Operate(batch[i], h[i-1], disk)
    <3>1. h[k] = Operate(batch[k], f[k-1], disk) /\ h[i-1] = f[i-1]
      BY <1>1, <2>1, <2>2
    <3>2. CASE i = k
      BY <3>1, <3>2
    <3>3. CASE i # k
      <4>1. i \in 1..(k-1) /\ h[i] = f[i]
        BY <1>1, <2>1, <3>3
      <4> QED BY <2>1, <3>1, <4>1
    <3> QED BY <3>2, <3>3
  <2> HIDE DEF h
  <2>6. Run(h, k)
    BY <2>4, <2>5
  <2> QED BY <2>2, <2>6
<1>5. PICK f : Run(f, n)
  <2>1. 0..n \subseteq Runs
    <3> HIDE DEF Runs, n
    <3> QED BY <1>1, <1>3, <1>4, UpTo
  <2> QED BY <1>1, <2>1
<1>6. f = [i \in 0..Len(batch) |-> IF i = 0 THEN [spec |-> disk, ok |-> TRUE, derive |-> FALSE]
                          ELSE Operate(batch[i], f[i - 1], disk)]
  <2>1. \A i \in 0..n : i # 0 => i \in 1..n
    BY <1>1
  <2> QED BY <1>5, <2>1 DEF FirstCandidate
<1>7. g = [i \in 0..Len(batch) |-> IF i = 0 THEN [spec |-> disk, ok |-> TRUE, derive |-> FALSE]
                          ELSE Operate(batch[i], g[i - 1], disk)]
  <2> HIDE DEF Run, Runs, n
  <2> QED BY ONLY <1>6, Zenon DEF Candidates, g
<1> HIDE DEF g
<1>8. /\ DOMAIN g = 0..n /\ g[0] = FirstCandidate(disk)
      /\ \A i \in 1..n : g[i] = Operate(batch[i], g[i - 1], disk)
  <2>1. 0 \in 0..n /\ \A i \in 1..n : i \in 0..n /\ i # 0
    BY <1>1
  <2>2. DOMAIN g = 0..Len(batch)
    BY <1>7
  <2>3. \A i \in 0..Len(batch) : g[i] = IF i = 0 THEN [spec |-> disk, ok |-> TRUE, derive |-> FALSE]
                          ELSE Operate(batch[i], g[i - 1], disk)
    BY <1>7
  <2> QED BY <2>1, <2>2, <2>3 DEF FirstCandidate
<1>9. g \in [0..n -> Candidacy]
  <2> DEFINE S == {i \in 0..n : g[i] \in Candidacy}
  <2>1. 0 \in S
    BY <1>1, <1>2, <1>8
  <2>2. ASSUME NEW i \in 1..n, i - 1 \in S PROVE i \in S
    BY <1>1, <1>8, <2>2, OperateTyped
  <2>3. 0..n \subseteq S
    <3> HIDE DEF S, n
    <3> QED BY <1>1, <2>1, <2>2, UpTo
  <2>4. g = [i \in 0..n |-> g[i]]
    BY <1>7, <1>8
  <2> QED BY <2>3, <2>4
<1> QED BY <1>8, <1>9 DEF g

\* Every candidate of a batch that was admitted comes from the one before.
LEMMA AdmittedRun ==
  ASSUME NEW batch \in Seq(Operation), NEW disk \in Specification,
         Candidate(batch, disk).ok
  PROVE  \A i \in 1..Len(batch) :
           LET was == Candidates(batch, disk)[i - 1]
               is == Candidates(batch, disk)[i]
           IN /\ batch[i] \in Operation /\ was.spec \in Specification
              /\ Admits(batch[i], was.spec, disk) /\ is.spec = Effect(batch[i], was.spec)
              /\ is.spec \in Specification
              /\ ~is.derive => ~was.derive /\ ~NeedsInventory(batch[i], was.spec)
<1> DEFINE n == Len(batch)
           g == Candidates(batch, disk)
           S == {i \in 0..n : g[i].ok => \A k \in 1..i : g[k].ok}
<1>1. n \in Nat /\ \A i \in 1..n : batch[i] \in Operation
  OBVIOUS
<1>2. g \in [0..n -> Candidacy] /\ \A i \in 1..n : g[i] = Operate(batch[i], g[i - 1], disk)
  BY CandidatesTyped
<1>3. g[n].ok
  BY DEF Candidate
<1> HIDE DEF n, g
<1>4. ASSUME NEW i \in 1..n, g[i].ok
      PROVE  /\ g[i-1] \in Candidacy /\ g[i-1].ok /\ Admits(batch[i], g[i-1].spec, disk)
             /\ g[i].spec = Effect(batch[i], g[i-1].spec)
             /\ ~g[i].derive => ~g[i-1].derive /\ ~NeedsInventory(batch[i], g[i-1].spec)
  <2>1. g[i-1] \in Candidacy
    BY <1>1, <1>2
  <2>2. g[i] = Operate(batch[i], g[i-1], disk) /\ batch[i] \in Operation
    BY <1>1, <1>2
  <2> QED BY <1>4, <2>1, <2>2, OperateTyped
<1>5. 0 \in S
  BY <1>1
<1>6. ASSUME NEW i \in 1..n, i - 1 \in S PROVE i \in S
  <2>1. g[i].ok => g[i-1].ok
    BY <1>4
  <2>2. \A k \in 1..i : k = i \/ k \in 1..i-1
    BY <1>1
  <2> QED BY <1>1, <1>6, <2>1, <2>2
<1>7. \A i \in 1..n : g[i].ok
  <2>1. n \in S
    <3> HIDE DEF S
    <3>1. 0..n \subseteq S
      BY <1>1, <1>5, <1>6, UpTo
    <3> QED BY <1>1, <3>1
  <2> QED BY <1>3, <2>1
<1>8. \A i \in 1..n : g[i] \in Candidacy
  BY <1>1, <1>2
<1> QED BY <1>1, <1>4, <1>7, <1>8 DEF n, g, Candidacy

LEMMA WrittenTyped ==
  ASSUME NEW batch \in Seq(Operation), NEW s \in Specification
  PROVE  /\ Candidate(batch, s) \in Candidacy
         /\ Written(batch, s) \in Specification
<1>1. Candidate(batch, s) \in Candidacy
  <2>1. Len(batch) \in 0..Len(batch)
    OBVIOUS
  <2> QED BY <2>1, CandidatesTyped DEF Candidate
<1> DEFINE candidate == Candidate(batch, s).spec
           removed == {batch[i].id : i \in {j \in 1..Len(batch) :
                                         batch[j].kind = "scenario.remove"}}
<1>2. candidate \in Specification
  BY <1>1 DEF Candidacy
<1>3. Written(batch, s) =
        [project |-> candidate.project, feature |-> candidate.feature,
         scenario |-> [j \in Scenario |->
                         IF j \in removed THEN None ELSE candidate.scenario[j]],
         capability |-> candidate.capability, rule |-> candidate.rule,
         receipts |-> candidate.receipts]
  BY DEF Written
<1> HIDE DEF candidate, removed
<1>4. Written(batch, s) \in Specification
  BY <1>2, <1>3 DEF Specification
<1> QED BY <1>1, <1>4

\* A batch that asks for no new projections leaves them true.
LEMMA ProjectionCurrent ==
  ASSUME NEW batch \in Seq(Operation), NEW s \in Specification,
         Candidate(batch, s).ok, ~Candidate(batch, s).derive
  PROVE  Projection(Written(batch, s)) = Projection(s)
<1> DEFINE n == Len(batch)
           g == Candidates(batch, s)
           S == {i \in 0..n : ~g[i].derive =>
                   /\ Projection(g[i].spec) = Projection(s)
                   /\ \A k \in 1..i : batch[k].kind # "scenario.remove"}
<1>1. n \in Nat
  OBVIOUS
<1>2. g[0].spec = s
  <2>1. g[0] = FirstCandidate(s)
    BY CandidatesTyped
  <2>2. FirstCandidate(s).spec = s
    BY DEF FirstCandidate
  <2> QED BY <2>1, <2>2
<1>3. 0 \in S
  BY <1>1, <1>2
<1>4. ASSUME NEW i \in 1..n, i - 1 \in S PROVE i \in S
  <2>1. SUFFICES ASSUME ~g[i].derive
                 PROVE  /\ Projection(g[i].spec) = Projection(s)
                        /\ \A k \in 1..i : batch[k].kind # "scenario.remove"
    BY <1>1
  <2>2. /\ batch[i] \in Operation /\ g[i-1].spec \in Specification
        /\ Admits(batch[i], g[i-1].spec, s) /\ g[i].spec = Effect(batch[i], g[i-1].spec)
        /\ ~g[i-1].derive /\ ~NeedsInventory(batch[i], g[i-1].spec)
    BY <2>1, AdmittedRun
  <2>3. Projection(g[i].spec) = Projection(g[i-1].spec)
    BY <2>2, ProjectionStands
  <2>4. batch[i].kind # "scenario.remove"
    BY <2>2 DEF NeedsInventory
  <2>5. \A k \in 1..i : k = i \/ k \in 1..i-1
    BY <1>1
  <2> QED BY <1>4, <2>2, <2>3, <2>4, <2>5
<1>5. n \in S
  <2>1. 0..n \subseteq S
    <3> HIDE DEF S, n
    <3> QED BY <1>1, <1>3, <1>4, UpTo
  <2> QED BY <1>1, <2>1
<1>6. /\ Projection(Candidate(batch, s).spec) = Projection(s)
      /\ \A k \in 1..n : batch[k].kind # "scenario.remove"
  BY <1>5 DEF Candidate
<1> DEFINE candidate == Candidate(batch, s).spec
<1>7. candidate \in Specification
  BY WrittenTyped DEF Candidacy
<1>8. /\ Written(batch, s).feature = candidate.feature
      /\ Written(batch, s).capability = candidate.capability
      /\ Written(batch, s).scenario = [j \in Scenario |-> candidate.scenario[j]]
  BY <1>6 DEF Written
<1> HIDE DEF candidate
<1>9. Written(batch, s).scenario = candidate.scenario
  BY <1>7, <1>8 DEF Specification
<1>10. Projection(Written(batch, s)) = Projection(candidate)
  BY <1>8, <1>9 DEF Projection
<1> QED BY <1>6, <1>10 DEF candidate

\* What a batch writes lies in the regions it names.
LEMMA WrittenIsLocal ==
  ASSUME NEW batch \in Seq(Operation), NEW s \in Specification,
         Candidate(batch, s).ok, NEW r \in Region,
         Revision(Written(batch, s), r) # Revision(s, r)
  PROVE  r \in RegionsForOperations(batch)
<1> DEFINE n == Len(batch)
           g == Candidates(batch, s)
           S == {i \in 0..n : Revision(g[i].spec, r) # Revision(s, r) =>
                                r \in RegionsForOperations(batch)}
<1>1. n \in Nat
  OBVIOUS
<1>2. g[0].spec = s
  <2>1. g[0] = FirstCandidate(s)
    BY CandidatesTyped
  <2>2. FirstCandidate(s).spec = s
    BY DEF FirstCandidate
  <2> QED BY <2>1, <2>2
<1>3. 0 \in S
  BY <1>1, <1>2
<1>4. ASSUME NEW i \in 1..n, i - 1 \in S PROVE i \in S
  <2>1. /\ batch[i] \in Operation /\ g[i-1].spec \in Specification
        /\ g[i].spec = Effect(batch[i], g[i-1].spec)
    BY AdmittedRun
  <2>2. CASE r = RegionOf(batch[i])
    BY <1>1, <2>2 DEF RegionsForOperations
  <2>3. CASE r # RegionOf(batch[i])
    <3>1. Revision(g[i].spec, r) = Revision(g[i-1].spec, r)
      BY <2>1, <2>3, EffectIsLocal
    <3> QED BY <1>1, <1>4, <3>1
  <2> QED BY <2>2, <2>3
<1>5. n \in S
  <2>1. 0..n \subseteq S
    <3> HIDE DEF S, n
    <3> QED BY <1>1, <1>3, <1>4, UpTo
  <2> QED BY <1>1, <2>1
<1> DEFINE candidate == Candidate(batch, s).spec
           written == Written(batch, s)
<1>6. Revision(candidate, r) # Revision(s, r) => r \in RegionsForOperations(batch)
  BY <1>5 DEF Candidate
<1>7. CASE Revision(written, r) = Revision(candidate, r)
  BY <1>6, <1>7
<1>8. CASE Revision(written, r) # Revision(candidate, r)
  <2>1. \E j \in Scenario : /\ r = Shard("scenario", j)
                            /\ written.scenario[j] # candidate.scenario[j]
    <3>1. /\ written.project = candidate.project /\ written.capability = candidate.capability
          /\ written.rule = candidate.rule /\ written.feature = candidate.feature
          /\ written.receipts = candidate.receipts
      BY DEF Written
    <3> HIDE DEF written, candidate
    <3> QED BY <1>8, <3>1 DEF Revision, Region, Whole, Shard
  <2>2. PICK j \in Scenario : /\ r = Shard("scenario", j)
                              /\ written.scenario[j] # candidate.scenario[j]
    BY <2>1
  <2>3. PICK k \in 1..n : batch[k].kind = "scenario.remove" /\ batch[k].id = j
    BY <2>2 DEF Written
  <2>4. RegionOf(batch[k]) = r
    BY <2>2, <2>3 DEF RegionOf
  <2> QED BY <2>4 DEF RegionsForOperations
<1> QED BY <1>7, <1>8

\* What is written of a batch of one is the effect of its operation.
LEMMA WrittenAlone ==
  ASSUME NEW op \in Operation, NEW s \in Specification, Accepted(<<op>>, s)
  PROVE  Written(<<op>>, s) = Effect(op, s)
<1> DEFINE batch == <<op>>
           g == Candidates(batch, s)
<1>1. batch \in Seq(Operation) /\ Len(batch) = 1 /\ batch[1] = op
  OBVIOUS
<1>2. Candidate(batch, s) = g[1] /\ g[1].ok
  BY <1>1 DEF Candidate, Accepted
<1>3. g[0] = FirstCandidate(s) /\ g[1] = Operate(op, g[0], s)
  <2>1. /\ g[0] = FirstCandidate(s)
        /\ \A i \in 1..Len(batch) : g[i] = Operate(batch[i], g[i - 1], s)
    BY <1>1, CandidatesTyped
  <2> QED BY <1>1, <2>1
<1>4. FirstCandidate(s) \in Candidacy /\ FirstCandidate(s).spec = s
  BY DEF FirstCandidate, Candidacy
<1>5. Candidate(batch, s).spec = Effect(op, s)
  BY <1>2, <1>3, <1>4, OperateTyped
<1>6. Admits(op, s, s)
  BY <1>2, <1>3, <1>4, OperateTyped
<1> DEFINE t == Effect(op, s)
<1>7. t \in Specification
  BY <1>6, EffectTyped
<1>8. {batch[i].id : i \in {j \in 1..Len(batch) : batch[j].kind = "scenario.remove"}}
        = IF op.kind = "scenario.remove" THEN {op.id} ELSE {}
  BY <1>1
<1>9. op.kind = "scenario.remove" => t.scenario[op.id] = None
  <2>1. SUFFICES ASSUME op.kind = "scenario.remove" PROVE t.scenario[op.id] = None
    OBVIOUS
  <2>2. t.scenario = [s.scenario EXCEPT ![op.id] = None] /\ op.id \in Scenario
    BY <2>1, EffectParts, OperationFields
  <2> QED BY <2>2 DEF Specification
<1> DEFINE removed == {batch[i].id : i \in {j \in 1..Len(batch) :
                                         batch[j].kind = "scenario.remove"}}
<1>10. Written(batch, s) =
        [project |-> t.project, feature |-> t.feature,
         scenario |-> [j \in Scenario |-> IF j \in removed THEN None ELSE t.scenario[j]],
         capability |-> t.capability, rule |-> t.rule, receipts |-> t.receipts]
  BY <1>5, Zenon DEF Written
<1>11. \A j \in Scenario : j \in removed => t.scenario[j] = None
  BY <1>8, <1>9
<1> HIDE DEF t, removed
<1>12. [j \in Scenario |-> IF j \in removed THEN None ELSE t.scenario[j]] = t.scenario
  BY <1>7, <1>11 DEF Specification
<1> QED BY <1>7, <1>10, <1>12 DEF Specification, t

\* The specification after some submissions, and whether all were accepted.
Submission == Specification \X BOOLEAN

LEMMA SubmitAloneTyped ==
  ASSUME NEW op \in Operation, NEW x \in Submission
  PROVE  SubmitAlone(op, x) \in Submission
<1>1. x[1] \in Specification /\ x[2] \in BOOLEAN
  BY DEF Submission
<1>2. <<op>> \in Seq(Operation)
  OBVIOUS
<1> DEFINE t == Written(<<op>>, x[1])
<1>3. t \in Specification
  BY <1>1, <1>2, WrittenTyped
<1>4. SubmitAlone(op, x) = <<t, TRUE>> \/ SubmitAlone(op, x) = <<x[1], FALSE>>
  BY DEF SubmitAlone
<1> HIDE DEF t
<1>5. <<t, TRUE>> \in Submission /\ <<x[1], FALSE>> \in Submission
  BY <1>1, <1>3 DEF Submission
<1> QED BY <1>4, <1>5

\* Every submission on its own starts from what the one before left.
LEMMA SubmissionsTyped ==
  ASSUME NEW b \in Seq(Operation), NEW s \in Specification
  PROVE  /\ Submissions(b, s)[0] = <<s, TRUE>>
         /\ \A i \in 1..Len(b) :
              /\ Submissions(b, s)[i - 1] \in Submission
              /\ Submissions(b, s)[i] = SubmitAlone(b[i], Submissions(b, s)[i - 1])
<1> DEFINE n == Len(b)
           start == <<s, TRUE>>
           g == Submissions(b, s)
           Run(f, k) == /\ f \in [0..n -> Submission] /\ f[0] = start
                        /\ \A i \in 1..k : f[i] = SubmitAlone(b[i], f[i-1])
           Runs == {k \in 0..n : \E f : Run(f, k)}
<1>1. n \in Nat /\ \A i \in 1..n : b[i] \in Operation
  OBVIOUS
<1>2. start \in Submission
  BY DEF Submission
<1> HIDE DEF start
<1>3. \A op \in Operation, x \in Submission : SubmitAlone(op, x) \in Submission
  BY SubmitAloneTyped
<1>4. 0 \in Runs
  <2> DEFINE f == [i \in 0..n |-> start]
  <2>1. f \in [0..n -> Submission] /\ f[0] = start
    BY <1>1, <1>2
  <2> HIDE DEF f
  <2>2. Run(f, 0)
    BY <2>1
  <2> QED BY <1>1, <2>2
<1>5. ASSUME NEW k \in 1..n, k - 1 \in Runs PROVE k \in Runs
  <2>1. PICK f : Run(f, k - 1)
    BY <1>5
  <2> DEFINE h == [f EXCEPT ![k] = SubmitAlone(b[k], f[k-1])]
  <2>2. k - 1 \in 0..n /\ k \in 0..n /\ k # 0 /\ b[k] \in Operation /\ f[k-1] \in Submission
    BY <1>1, <2>1
  <2>3. SubmitAlone(b[k], f[k-1]) \in Submission
    BY <1>3, <2>2
  <2>4. h \in [0..n -> Submission] /\ h[0] = start
    BY <1>1, <2>1, <2>2, <2>3
  <2>5. ASSUME NEW i \in 1..k PROVE h[i] = SubmitAlone(b[i], h[i-1])
    <3>1. h[k] = SubmitAlone(b[k], f[k-1]) /\ h[i-1] = f[i-1]
      BY <1>1, <2>1, <2>2
    <3>2. CASE i = k
      BY <3>1, <3>2
    <3>3. CASE i # k
      <4>1. i \in 1..(k-1) /\ h[i] = f[i]
        BY <1>1, <2>1, <3>3
      <4> QED BY <2>1, <3>1, <4>1
    <3> QED BY <3>2, <3>3
  <2> HIDE DEF h
  <2>6. Run(h, k)
    BY <2>4, <2>5
  <2> QED BY <2>2, <2>6
<1>6. PICK f : Run(f, n)
  <2>1. 0..n \subseteq Runs
    <3> HIDE DEF Runs, n
    <3> QED BY <1>1, <1>4, <1>5, UpTo
  <2> QED BY <1>1, <2>1
<1>7. f = [i \in 0..Len(b) |-> IF i = 0 THEN start ELSE SubmitAlone(b[i], f[i - 1])]
  <2>1. \A i \in 0..n : i # 0 => i \in 1..n
    BY <1>1
  <2> QED BY <1>6, <2>1
<1>8. g = [i \in 0..Len(b) |-> IF i = 0 THEN start ELSE SubmitAlone(b[i], g[i - 1])]
  <2> HIDE DEF Run, Runs, n
  <2> QED BY ONLY <1>7, Zenon DEF Submissions, g, start
<1> HIDE DEF g
<1>9. g[0] = start /\ \A i \in 1..n : g[i] = SubmitAlone(b[i], g[i - 1])
  <2>1. 0 \in 0..n /\ \A i \in 1..n : i \in 0..n /\ i # 0
    BY <1>1
  <2>2. \A i \in 0..Len(b) : g[i] = IF i = 0 THEN start ELSE SubmitAlone(b[i], g[i - 1])
    BY <1>8
  <2> QED BY <2>1, <2>2
<1>10. \A i \in 1..n : g[i - 1] \in Submission
  <2> DEFINE S == {i \in 0..n : g[i] \in Submission}
  <2>1. 0 \in S
    BY <1>1, <1>2, <1>9
  <2>2. ASSUME NEW i \in 1..n, i - 1 \in S PROVE i \in S
    BY <1>1, <1>3, <1>9, <2>2
  <2>3. 0..n \subseteq S
    <3> HIDE DEF S, n
    <3> QED BY <1>1, <2>1, <2>2, UpTo
  <2>4. \A i \in 1..n : i - 1 \in 0..n
    BY <1>1
  <2> QED BY <2>3, <2>4
<1> QED BY <1>9, <1>10 DEF g, start

\* A scenario that an operation removes is gone from the candidate, unless
\* a later operation writes it again.
LEMMA RemovedStaysRemoved ==
  ASSUME NEW b \in Seq(Operation), NEW s \in Specification,
         Candidate(b, s).ok, ~RemovedThenWritten(b)
  PROVE  Written(b, s) = Candidate(b, s).spec
<1> DEFINE n == Len(b)
           g == Candidates(b, s)
           S == {i \in 0..n : \A k \in 1..i : b[k].kind = "scenario.remove" =>
                                g[i].spec.scenario[b[k].id] = None}
<1>1. n \in Nat
  OBVIOUS
<1>2. 0 \in S
  BY <1>1
<1>3. ASSUME NEW i \in 1..n, i - 1 \in S PROVE i \in S
  <2>1. /\ b[i] \in Operation /\ g[i-1].spec \in Specification
        /\ g[i].spec = Effect(b[i], g[i-1].spec)
    BY AdmittedRun
  <2>2. SUFFICES ASSUME NEW k \in 1..i, b[k].kind = "scenario.remove"
                 PROVE  g[i].spec.scenario[b[k].id] = None
    BY <1>1
  <2> DEFINE was == g[i-1].spec.scenario
             is == g[i].spec.scenario
  <2>3. is = IF b[i].kind = "scenario.upsert" THEN [was EXCEPT ![b[i].id] = b[i].refs]
             ELSE IF b[i].kind = "scenario.remove" THEN [was EXCEPT ![b[i].id] = None]
             ELSE was
    <3>1. is = Effect(b[i], g[i-1].spec).scenario
      BY <2>1
    <3> QED BY <2>1, <3>1, EffectParts
  <2>4. DOMAIN was = Scenario
    BY <2>1 DEF Specification
  <2>5. k \in 1..n /\ b[k] \in Operation
    BY <1>1
  <2>6. b[k].id \in Scenario
    BY <2>2, <2>5, OperationFields
  <2>7. CASE k = i
    BY <2>2, <2>3, <2>4, <2>6, <2>7
  <2>8. CASE k # i
    <3>1. k \in 1..(i-1) /\ k < i
      BY <1>1, <2>8
    <3>2. was[b[k].id] = None
      BY <1>3, <2>2, <3>1
    <3>3. b[i].kind = "scenario.upsert" => b[i].id # b[k].id
      BY <2>2, <2>5, <3>1 DEF RemovedThenWritten
    <3> HIDE DEF was, is
    <3> QED BY <2>3, <2>4, <2>6, <3>2, <3>3 DEF is
  <2> QED BY <2>7, <2>8
<1>4. n \in S
  <2>1. 0..n \subseteq S
    <3> HIDE DEF S, n
    <3> QED BY <1>1, <1>2, <1>3, UpTo
  <2> QED BY <1>1, <2>1
<1> DEFINE candidate == Candidate(b, s).spec
           removed == {b[i].id : i \in {j \in 1..Len(b) : b[j].kind = "scenario.remove"}}
<1>5. \A j \in Scenario : j \in removed => candidate.scenario[j] = None
  BY <1>4 DEF Candidate
<1>6. candidate \in Specification
  BY WrittenTyped DEF Candidacy
<1>7. Written(b, s) =
        [project |-> candidate.project, feature |-> candidate.feature,
         scenario |-> [j \in Scenario |->
                         IF j \in removed THEN None ELSE candidate.scenario[j]],
         capability |-> candidate.capability, rule |-> candidate.rule,
         receipts |-> candidate.receipts]
  BY Zenon DEF Written
<1> HIDE DEF candidate, removed
<1>8. [j \in Scenario |-> IF j \in removed THEN None ELSE candidate.scenario[j]]
        = candidate.scenario
  BY <1>5, <1>6 DEF Specification
<1>9. Written(b, s) = candidate
  BY <1>6, <1>7, <1>8 DEF Specification
<1> QED BY <1>9 DEF candidate

\* Submitted one by one, and accepted, the operations leave the candidates
\* of the batch.
LEMMA OneByOneAgrees ==
  ASSUME NEW b \in Seq(Operation), NEW s \in Specification,
         Candidate(b, s).ok, ~RemovedThenWritten(b), OneByOne(b, s)[2]
  PROVE  Written(b, s) = OneByOne(b, s)[1]
<1> DEFINE n == Len(b)
           g == Candidates(b, s)
           each == Submissions(b, s)
           S == {i \in 0..n : each[i][2] => each[i][1] = g[i].spec}
<1>1. n \in Nat
  OBVIOUS
<1>2. 0 \in S
  <2>1. g[0] = FirstCandidate(s) /\ each[0] = <<s, TRUE>>
    BY CandidatesTyped, SubmissionsTyped
  <2>2. FirstCandidate(s).spec = s
    BY DEF FirstCandidate
  <2> QED BY <1>1, <2>1, <2>2
<1>3. ASSUME NEW i \in 1..n, i - 1 \in S PROVE i \in S
  <2>1. b[i] \in Operation /\ g[i].spec = Effect(b[i], g[i-1].spec)
    BY AdmittedRun
  <2>2. /\ each[i-1] \in Submission
        /\ each[i] = SubmitAlone(b[i], each[i-1])
    BY SubmissionsTyped
  <2>3. SUFFICES ASSUME each[i][2] PROVE each[i][1] = g[i].spec
    BY <1>1
  <2>4. /\ each[i-1][2] /\ Accepted(<<b[i]>>, each[i-1][1])
        /\ each[i][1] = Written(<<b[i]>>, each[i-1][1])
    BY <2>2, <2>3 DEF SubmitAlone
  <2>5. each[i-1][1] = g[i-1].spec /\ each[i-1][1] \in Specification
    BY <1>3, <2>2, <2>4 DEF Submission
  <2>6. Written(<<b[i]>>, each[i-1][1]) = Effect(b[i], each[i-1][1])
    BY <2>1, <2>4, <2>5, WrittenAlone
  <2> QED BY <2>1, <2>4, <2>5, <2>6
<1>4. n \in S
  <2>1. 0..n \subseteq S
    <3> HIDE DEF S, n
    <3> QED BY <1>1, <1>2, <1>3, UpTo
  <2> QED BY <1>1, <2>1
<1> QED BY <1>4, RemovedStaysRemoved DEF OneByOne, Candidate

-----------------------------------------------------------------------------
(* The invariant of the edits                                              *)

EditInv == EditTypeOK /\ DOMAIN client = Client /\ DerivedIsCurrent

LEMMA EditInitially == EditInit => EditInv
<1> SUFFICES ASSUME EditInit PROVE EditInv
  OBVIOUS
<1>1. spec \in Specification /\ touched \in BOOLEAN
      /\ commits \in 0..MaxCommits /\ hands \in 0..MaxHands
  <2>1. MaxCommits \in Nat /\ MaxHands \in Nat /\ FirstSpec \in Specification
    BY EditAssumption
  <2>2. spec = FirstSpec /\ touched = FALSE /\ commits = 0 /\ hands = 0
    BY Zenon DEF EditInit
  <2>3. touched \in BOOLEAN
    BY <2>2, Zenon
  <2>4. spec \in Specification /\ commits \in 0..MaxCommits /\ hands \in 0..MaxHands
    BY <2>1, <2>2
  <2> QED BY <2>3, <2>4
<1>2. DOMAIN client = Client /\ \A c \in Client : client[c] = Idle
  BY DEF EditInit
<1>3. generated = Projection(spec)
  BY DEF EditInit
<1> QED BY <1>1, <1>2, <1>3 DEF EditInv, EditTypeOK, DerivedIsCurrent

\* What a client is left with, when it has something at all.
Prepared(was) == /\ was.batch \in Batch
                 /\ DOMAIN was.saw = RegionsForOperations(was.batch)

LEMMA ClientsStay ==
  ASSUME EditInv, NEW c \in Client, NEW new, new # Idle => Prepared(new),
         client' = [client EXCEPT ![c] = new]
  PROVE  /\ DOMAIN client' = Client
         /\ \A d \in Client : client'[d] # Idle => Prepared(client'[d])
<1>1. DOMAIN client = Client /\ \A d \in Client : client[d] # Idle => Prepared(client[d])
  BY DEF EditInv, EditTypeOK, Prepared
<1> HIDE DEF EditInv
<1> QED BY <1>1

LEMMA OneDocument ==
  ASSUME NEW s \in Specification, NEW f \in Feature, NEW d \in Document \cup {None}
  PROVE  [s EXCEPT !.feature[f] = d] \in Specification
BY DEF Specification

LEMMA CommitKeeps ==
  ASSUME EditInv, NEW c \in Client, Commit(c)
  PROVE  /\ client[c].batch \in Seq(Operation) /\ spec \in Specification
         /\ Candidate(client[c].batch, spec).ok
         /\ DOMAIN client[c].saw = RegionsForOperations(client[c].batch)
         /\ EditInv'
<1> DEFINE b == client[c].batch
           t == Written(b, spec)
<1>1. b \in Seq(Operation) /\ spec \in Specification
  BY EditAssumption DEF EditInv, EditTypeOK, Commit
<1>2. /\ Candidate(b, spec).ok
      /\ DOMAIN client[c].saw = RegionsForOperations(b)
  BY DEF EditInv, EditTypeOK, Commit, AcceptedUnderLock, Accepted
<1>3. spec' = t /\ spec' \in Specification
  BY <1>1, WrittenTyped DEF Commit
<1>4. /\ DOMAIN client' = Client
      /\ \A d \in Client : client'[d] # Idle => Prepared(client'[d])
  BY ClientsStay DEF Commit
<1>5. /\ touched' \in BOOLEAN /\ commits' \in 0..MaxCommits /\ hands' \in 0..MaxHands
  <2>1. /\ touched \in BOOLEAN /\ commits \in 0..MaxCommits /\ hands \in 0..MaxHands
        /\ MaxCommits \in Nat
    BY EditAssumption DEF EditInv, EditTypeOK
  <2>2. touched' = FALSE \/ touched' = touched
    BY DEF Commit, Derive
  <2>3. commits < MaxCommits /\ commits' = commits + 1 /\ hands' = hands
    BY Zenon DEF Commit
  <2>4. touched' \in BOOLEAN
    BY <2>1, <2>2, Zenon
  <2>5. commits' \in 0..MaxCommits /\ hands' \in 0..MaxHands
    BY <2>1, <2>3
  <2> QED BY <2>4, <2>5
<1>6. EditTypeOK'
  BY <1>3, <1>4, <1>5 DEF EditTypeOK, Prepared
<1>7. DerivedIsCurrent'
  <2>1. CASE Candidate(b, spec).derive
    <3>1. generated' = Projection(t)
      BY <2>1 DEF Commit, Derive
    <3>2. (generated = Projection(spec))'
      BY <1>3, <3>1
    <3> QED BY <3>2 DEF DerivedIsCurrent
  <2>2. CASE ~Candidate(b, spec).derive
    <3>1. generated' = generated /\ touched' = touched
      BY <2>2 DEF Commit, Derive
    <3>2. Projection(t) = Projection(spec)
      BY <1>1, <1>2, <2>2, ProjectionCurrent
    <3>3. Projection(spec)' = Projection(t)
      BY <1>3
    <3> QED BY <3>1, <3>2, <3>3 DEF EditInv, DerivedIsCurrent
  <2> QED BY <2>1, <2>2
<1> QED BY <1>1, <1>2, <1>4, <1>6, <1>7 DEF EditInv

\* The client whose state a commit changes is the one that commits.
LEMMA OnlyCommits ==
  ASSUME EditInv, [EditNext]_editVars, NEW c \in Client,
         commits' # commits, client'[c] # client[c]
  PROVE  Commit(c)
<1>1. \A d \in Client : Prepare(d) \/ Reject(d) => commits' = commits
  BY Zenon DEF Prepare, Reject
<1>2. GateDone \/ Refresh \/ HandEdit => commits' = commits
  BY Zenon DEF GateDone, Refresh, HandEdit
<1>3. PICK d \in Client : Commit(d)
  BY <1>1, <1>2 DEF EditNext, editVars
<1>4. client' = [client EXCEPT ![d] = Idle]
  BY <1>3 DEF Commit
<1>5. c = d
  BY <1>4 DEF EditInv
<1> QED BY <1>3, <1>5

LEMMA EditStep == EditInv /\ [EditNext]_editVars => EditInv'
<1> SUFFICES ASSUME EditInv, [EditNext]_editVars PROVE EditInv'
  OBVIOUS
<1>1. ASSUME NEW c \in Client, Prepare(c) PROVE EditInv'
  <2>1. PICK b \in Batch :
          client' = [client EXCEPT ![c] =
            [batch |-> b,
             saw |-> [r \in RegionsForOperations(b) |-> Revision(spec, r)]]]
    BY <1>1 DEF Prepare
  <2> DEFINE new == [batch |-> b,
                     saw |-> [r \in RegionsForOperations(b) |-> Revision(spec, r)]]
  <2>2. Prepared(new)
    BY DEF Prepared
  <2> HIDE DEF new
  <2>3. /\ DOMAIN client' = Client
        /\ \A d \in Client : client'[d] # Idle => Prepared(client'[d])
    BY <2>1, <2>2, ClientsStay DEF new
  <2>4. UNCHANGED <<spec, generated, touched, commits, hands>>
    BY <1>1 DEF Prepare
  <2> QED BY <2>3, <2>4 DEF EditInv, EditTypeOK, DerivedIsCurrent, Prepared
<1>2. ASSUME NEW c \in Client, Reject(c) PROVE EditInv'
  <2>1. /\ DOMAIN client' = Client
        /\ \A d \in Client : client'[d] # Idle => Prepared(client'[d])
    BY <1>2, ClientsStay DEF Reject
  <2>2. UNCHANGED <<spec, generated, touched, commits, hands>>
    BY <1>2 DEF Reject
  <2> QED BY <2>1, <2>2 DEF EditInv, EditTypeOK, DerivedIsCurrent, Prepared
<1>3. ASSUME NEW c \in Client, Commit(c) PROVE EditInv'
  BY <1>3, CommitKeeps
<1>4. ASSUME GateDone PROVE EditInv'
  <2>1. PICK f \in Present(Feature, spec.feature) :
          spec' = [spec EXCEPT !.feature[f].status = "done", !.feature[f].reason = None]
    BY <1>4 DEF GateDone
  <2>2. f \in Feature /\ spec.feature[f] \in Document /\ spec \in Specification
    BY DEF Present, EditInv, EditTypeOK, Specification
  <2> DEFINE d == [spec.feature[f] EXCEPT !.status = "done", !.reason = None]
  <2>3. d \in Document
    BY <2>2 DEF Document, Status
  <2>4. spec' = [spec EXCEPT !.feature[f] = d]
    BY <2>1, <2>2 DEF Specification
  <2> HIDE DEF d
  <2>5. spec' \in Specification
    BY <2>2, <2>3, <2>4, OneDocument
  <2>6. generated' = Projection(spec') /\ touched' = FALSE
        /\ UNCHANGED <<client, commits, hands>>
    BY <1>4 DEF GateDone, Derive
  <2>7. Projection(spec)' = Projection(spec')
    OBVIOUS
  <2> QED BY <2>5, <2>6, <2>7 DEF EditInv, EditTypeOK, DerivedIsCurrent
<1>5. ASSUME Refresh PROVE EditInv'
  <2>1. generated' = Projection(spec) /\ touched' = FALSE
        /\ UNCHANGED <<spec, client, commits, hands>>
    BY <1>5 DEF Refresh, Derive
  <2>2. Projection(spec)' = Projection(spec)
    BY <2>1
  <2> QED BY <2>1, <2>2 DEF EditInv, EditTypeOK, DerivedIsCurrent
<1>6. ASSUME HandEdit PROVE EditInv'
  <2>1. PICK edit \in HandWritten : spec' = [spec EXCEPT !.feature[edit[1]] = edit[2]]
    BY <1>6 DEF HandEdit
  <2>2. edit[1] \in Feature /\ edit[2] \in Document \cup {None}
    BY EditAssumption
  <2>3. spec \in Specification
    BY DEF EditInv, EditTypeOK
  <2>4. spec' \in Specification
    BY <2>1, <2>2, <2>3, OneDocument
  <2>5. /\ touched' = TRUE /\ hands' \in 0..MaxHands
        /\ UNCHANGED <<generated, client, commits>>
    BY <1>6, EditAssumption DEF HandEdit, EditInv, EditTypeOK
  <2> QED BY <2>4, <2>5 DEF EditInv, EditTypeOK, DerivedIsCurrent
<1>7. CASE UNCHANGED editVars
  BY <1>7 DEF editVars, EditInv, EditTypeOK, DerivedIsCurrent, Prepared
<1> QED BY <1>1, <1>2, <1>3, <1>4, <1>5, <1>6, <1>7 DEF EditNext

LEMMA EditKeepsInv == EditSpec => []EditInv
BY EditInitially, EditStep, PTL DEF EditSpec

\* The specification on disk keeps its form, and a client that prepared a
\* batch holds one revision for every region the batch names, whatever the
\* batches and whatever people write by hand.
THEOREM EditTypeCorrect == EditSpec => []EditTypeOK
<1>1. EditInv => EditTypeOK
  BY DEF EditInv
<1> QED BY <1>1, EditKeepsInv, PTL

\* Inventory and feature index say what the shards say, after any sequence
\* of commits of any batches: an operation that is not listed as needing
\* the inventory changes nothing they show.
THEOREM ProjectionsFollow == EditSpec => []DerivedIsCurrent
<1>1. EditInv => DerivedIsCurrent
  BY DEF EditInv
<1> QED BY <1>1, EditKeepsInv, PTL

\* The regions a batch names cover everything its commit changes, and each
\* of them still was what the client had read: no edit is overwritten that
\* the client has not seen.
THEOREM NothingUnseenIsOverwritten == EditSpec => NoBlindOverwrite
<1> DEFINE HasSeen(c) ==
      commits' # commits /\ client'[c] # client[c] =>
         \A r \in Region : Revision(spec', r) # Revision(spec, r) =>
           /\ r \in DOMAIN client[c].saw
           /\ Revision(spec, r) = client[c].saw[r]
<1>1. ASSUME EditInv, [EditNext]_editVars, NEW c \in Client PROVE HasSeen(c)
  <2>1. SUFFICES ASSUME commits' # commits, client'[c] # client[c],
                        NEW r \in Region, Revision(spec', r) # Revision(spec, r)
                 PROVE  /\ r \in DOMAIN client[c].saw
                        /\ Revision(spec, r) = client[c].saw[r]
    OBVIOUS
  <2>2. Commit(c)
    BY <1>1, <2>1, OnlyCommits
  <2>3. spec' = Written(client[c].batch, spec) /\ Fresh(c)
    BY <2>2 DEF Commit
  <2>4. r \in RegionsForOperations(client[c].batch)
    BY <1>1, <2>1, <2>2, <2>3, CommitKeeps, WrittenIsLocal
  <2> QED BY <1>1, <2>2, <2>3, <2>4, CommitKeeps DEF Fresh
<1>2. EditInv /\ [EditNext]_editVars => \A c \in Client : HasSeen(c)
  BY <1>1
<1> QED BY <1>2, EditKeepsInv, PTL DEF EditSpec, NoBlindOverwrite

\* A batch is worth its operations submitted one after the other.
THEOREM BatchesAreSerial == EditSpec => BatchIsSerial
<1> DEFINE Serial(c) ==
      LET b == client[c].batch IN
       /\ commits' # commits /\ client'[c] # client[c]
       /\ ~RemovedThenWritten(b) /\ OneByOne(b, spec)[2]
       => spec' = OneByOne(b, spec)[1]
<1>1. ASSUME EditInv, [EditNext]_editVars, NEW c \in Client PROVE Serial(c)
  <2> DEFINE b == client[c].batch
  <2>1. SUFFICES ASSUME commits' # commits, client'[c] # client[c],
                        ~RemovedThenWritten(b), OneByOne(b, spec)[2]
                 PROVE  spec' = OneByOne(b, spec)[1]
    BY Zenon
  <2>2. Commit(c)
    BY <1>1, <2>1, OnlyCommits
  <2>3. /\ spec' = Written(b, spec) /\ b \in Seq(Operation) /\ spec \in Specification
        /\ Candidate(b, spec).ok
    BY <1>1, <2>2, CommitKeeps DEF Commit
  <2> QED BY <2>1, <2>3, OneByOneAgrees
<1>2. EditInv /\ [EditNext]_editVars => \A c \in Client : Serial(c)
  BY <1>1
<1> QED BY <1>2, EditKeepsInv, PTL DEF EditSpec, BatchIsSerial
-----------------------------------------------------------------------------
(* The governor of pushed cards                                            *)

\* A ledger that a hook can have read or written.
Book == {led \in LedgerRecord : \A m \in Meter : m[1] = "tokens" => led.tokens <= Most(m)}

LedgerTyped ==
  /\ window \in 0..MaxWindows
  /\ ledger # NoLedger => ledger \in Book
  /\ \A h \in Running :
       hook[h] \in [fp : Fingerprint, writing : BOOLEAN, led : Book]
  /\ DOMAIN hook = Hook
  /\ shown \in [Key -> [Meter -> Int]]
  /\ slips \in [Key -> Nat] /\ begun \subseteq Key

\* How much of a meter a ledger knows to have been shown.
Credit(led, m) ==
  CASE m[1] = "tokens" -> led.tokens
    [] m[1] = "notice" -> IF led.notice THEN 1 ELSE 0
    [] m[1] = "fresh" -> IF led.seen[m[2]] >= 1 THEN 1 ELSE 0
    [] OTHER -> IF led.seen[m[2]] >= 2 THEN 1 ELSE 0

\* What was shown is known, up to a full measure for each slip.
Accounted(n, s, m, credit) == n <= s * Most(m) + credit

Dealt(h, m) == Amount(Card(hook[h].led, hook[h].fp), hook[h].fp, m)

LedgerOf(h) == Governed(hook[h].led, hook[h].fp)

\* If the last hook to write is h, its ledger knows what was shown.
HookKnows(h, m) ==
  Accounted(shown[hook[h].led.key][m], slips[hook[h].led.key], m, Credit(LedgerOf(h), m))

\* The ledger knows it too, but for the card of one hook of the session that
\* has not opened it yet.
LedgerKnows(m) ==
  LET k == ledger.key
      credit == Credit(ledger, m)
  IN \/ Accounted(shown[k][m], slips[k], m, credit)
     \/ \E h \in Serving(k) :
          ~hook[h].writing /\ Accounted(shown[k][m] - Dealt(h, m), slips[k], m, credit)

LedgerInv ==
  /\ LedgerTyped
  /\ \A k \in Key, m \in Meter : Accounted(shown[k][m], slips[k], m, Most(m))
  /\ \A k \in Key \ begun, m \in Meter : shown[k][m] = 0
  /\ \A h \in Running : hook[h].led.key \in begun
  /\ \A h \in Running, m \in Meter : HookKnows(h, m)
  /\ ledger # NoLedger => \A m \in Meter : LedgerKnows(m)

LEMMA MeterParts ==
  ASSUME NEW m \in Meter
  PROVE  /\ m[1] \in {"fresh", "repeat", "notice", "tokens"} /\ m[2] \in Fingerprint
         /\ Most(m) \in Nat
BY LedgerAssumption DEF Meter, Most

\* A ledger never knows of more than one measure.
LEMMA CreditBounds ==
  ASSUME NEW led \in Book, NEW m \in Meter
  PROVE  Credit(led, m) \in Nat /\ Credit(led, m) <= Most(m)
<1> USE LedgerAssumption DEF LedgerRecord
<1>1. /\ led.tokens \in Nat /\ led.notice \in BOOLEAN /\ led.seen \in [Fingerprint -> Nat]
      /\ m[1] = "tokens" => led.tokens <= Most(m)
  BY DEF Book
<1>2. CASE m[1] = "tokens"
  BY <1>1, <1>2 DEF Credit
<1>3. CASE m[1] # "tokens"
  <2>1. Most(m) = 1
    BY <1>3 DEF Most
  <2>2. Credit(led, m) \in {0, 1}
    BY <1>1, <1>3, MeterParts DEF Credit
  <2> QED BY <2>1, <2>2
<1> QED BY <1>2, <1>3

\* One card: the ledger afterwards knows of it and of no other.
LEMMA CardIsCredited ==
  ASSUME NEW led \in Book, NEW fp \in Fingerprint
  PROVE  /\ Governed(led, fp) \in Book /\ Governed(led, fp).key = led.key
         /\ \A m \in Meter :
              /\ Amount(Card(led, fp), fp, m) \in Nat
              /\ Amount(Card(led, fp), fp, m) <= Most(m)
              /\ Credit(Governed(led, fp), m) =
                   Credit(led, m) + Amount(Card(led, fp), fp, m)
<1> USE LedgerAssumption DEF LedgerRecord
<1> DEFINE new == Governed(led, fp)
           card == Card(led, fp)
<1>1. /\ led \in LedgerRecord
      /\ \A m \in Meter : m[1] = "tokens" => led.tokens <= Most(m)
  BY DEF Book
<1>2. CASE led.tokens > Budget
  <2>1. card = IF led.notice THEN "none" ELSE "notice"
    BY <1>2 DEF Card
  <2>2. new = [led EXCEPT !.notice = TRUE]
    BY <1>2 DEF Governed
  <2>3. /\ new.key = led.key /\ new.tokens = led.tokens /\ new.notice = TRUE
        /\ new.seen = led.seen
        /\ new \in LedgerRecord
    BY <1>1, <2>2
  <2>4. new \in Book
    BY <1>1, <2>3 DEF Book
  <2>5. ASSUME NEW m \in Meter
        PROVE  /\ Amount(card, fp, m) \in Nat /\ Amount(card, fp, m) <= Most(m)
               /\ Credit(new, m) = Credit(led, m) + Amount(card, fp, m)
    <3>1. Amount(card, fp, m) = IF m[1] = "notice" /\ ~led.notice THEN 1 ELSE 0
      BY <2>1, MeterParts DEF Amount, Cost
    <3>2. Credit(new, m) = IF m[1] = "notice" THEN 1 ELSE Credit(led, m)
      BY <2>3 DEF Credit
    <3>3. m[1] = "notice" => Credit(led, m) = IF led.notice THEN 1 ELSE 0
      BY DEF Credit
    <3>4. m[1] = "notice" => Most(m) = 1
      BY DEF Most
    <3>5. Credit(led, m) \in Nat /\ Most(m) \in Nat
      BY CreditBounds, MeterParts
    <3> HIDE DEF card, new
    <3> QED BY <3>1, <3>2, <3>3, <3>4, <3>5
  <2> HIDE DEF new, card
  <2>6. QED BY <2>3, <2>4, <2>5 DEF new, card
<1>3. CASE ~(led.tokens > Budget)
  <2> DEFINE cost == Cost(card)
  <2>1. card = IF led.seen[fp] = 0 THEN "fresh"
               ELSE IF led.seen[fp] = 1 THEN "repeat" ELSE "none"
    BY <1>1, <1>3 DEF Card
  <2>2. cost \in Nat /\ \A m \in Meter : m[1] = "tokens" => Budget + cost <= Most(m)
    BY <2>1 DEF Cost, Most
  <2> DEFINE seen == [led.seen EXCEPT ![fp] = led.seen[fp] + 1]
             tokens == led.tokens + cost
  <2>3. new = [led EXCEPT !.tokens = tokens, !.seen = seen]
    BY <1>1, <1>3 DEF Governed
  <2>4. seen \in [Fingerprint -> Nat] /\ tokens \in Nat
    BY <1>1, <2>2
  <2> HIDE DEF cost, seen, tokens
  <2>5. /\ new.key = led.key /\ new.tokens = tokens
        /\ new.notice = led.notice /\ new.seen = seen
        /\ new \in LedgerRecord
    BY <1>1, <2>3, <2>4
  <2>6. new \in Book
    BY <1>1, <1>3, <2>2, <2>5, MeterParts DEF Book, tokens
  <2>7. ASSUME NEW m \in Meter
        PROVE  /\ Amount(card, fp, m) \in Nat /\ Amount(card, fp, m) <= Most(m)
               /\ Credit(new, m) = Credit(led, m) + Amount(card, fp, m)
    <3>1. CASE m[1] = "tokens"
      <4>1. Amount(card, fp, m) = cost
        BY <3>1 DEF Amount, cost
      <4>2. Credit(new, m) = led.tokens + cost /\ Credit(led, m) = led.tokens
        BY <3>1, <2>5 DEF Credit, tokens
      <4> QED BY <3>1, <4>1, <4>2, <2>2, MeterParts
    <3>2. CASE m[1] = "notice"
      <4>1. Amount(card, fp, m) = 0
        BY <3>2, <2>1 DEF Amount
      <4>2. Credit(new, m) = Credit(led, m)
        BY <3>2, <2>5 DEF Credit
      <4> QED BY <4>1, <4>2, CreditBounds, MeterParts
    <3>3. CASE m[1] \notin {"tokens", "notice"}
      <4>1. Amount(card, fp, m) = IF card = m[1] /\ fp = m[2] THEN 1 ELSE 0
        BY <3>3 DEF Amount
      <4>2. Most(m) = 1
        BY <3>3 DEF Most
      <4>3. m[1] \in {"fresh", "repeat"} /\ m[2] \in Fingerprint
        BY <3>3, MeterParts
      <4>4. m[1] = "fresh" => /\ Credit(new, m) = IF seen[m[2]] >= 1 THEN 1 ELSE 0
                              /\ Credit(led, m) = IF led.seen[m[2]] >= 1 THEN 1 ELSE 0
        BY <2>5 DEF Credit
      <4>5. m[1] = "repeat" => /\ Credit(new, m) = IF seen[m[2]] >= 2 THEN 1 ELSE 0
                               /\ Credit(led, m) = IF led.seen[m[2]] >= 2 THEN 1 ELSE 0
        BY <2>5 DEF Credit
      <4>6. seen[m[2]] = IF fp = m[2] THEN led.seen[fp] + 1 ELSE led.seen[m[2]]
        BY <1>1, <4>3 DEF seen
      <4>7. led.seen[fp] \in Nat /\ led.seen[m[2]] \in Nat
        BY <1>1, <4>3
      <4> HIDE DEF new, card
      <4>8. CASE m[1] = "fresh"
        BY <4>8, <4>1, <4>2, <4>4, <4>6, <4>7, <2>1
      <4>9. CASE m[1] = "repeat"
        BY <4>9, <4>1, <4>2, <4>5, <4>6, <4>7, <2>1
      <4> QED BY <4>3, <4>8, <4>9
    <3> QED BY <3>1, <3>2, <3>3
  <2> HIDE DEF new, card
  <2>8. QED BY <2>5, <2>6, <2>7 DEF new, card
<1> QED BY <1>1, <1>2, <1>3

\* What is known, in sums; a slip pays for one more measure.
LEMMA KnownInSums ==
  ASSUME NEW m \in Meter, NEW s \in Nat
  PROVE  /\ Most(m) \in Nat /\ s * Most(m) \in Nat
         /\ (s + 1) * Most(m) = s * Most(m) + Most(m)
<1> DEFINE most == Most(m)
<1>1. most \in Nat
  BY MeterParts
<1> HIDE DEF most
<1>2. s * most \in Nat /\ (s + 1) * most = s * most + most
  BY <1>1, SMT
<1> QED BY <1>1, <1>2 DEF most

LEMMA SlipPays ==
  ASSUME NEW m \in Meter, NEW n \in Int, NEW s \in Nat, NEW c \in Nat,
         NEW a \in Int, Accounted(n, s, m, c), a <= Most(m)
  PROVE  Accounted(n + a, s + 1, m, c)
BY KnownInSums DEF Accounted

LEMMA CardPays ==
  ASSUME NEW m \in Meter, NEW n \in Int, NEW s \in Nat, NEW c \in Nat,
         NEW a \in Int, Accounted(n, s, m, c)
  PROVE  Accounted(n + a, s, m, c + a)
BY KnownInSums DEF Accounted

LEMMA KnownStays ==
  ASSUME NEW m \in Meter, NEW n \in Int, NEW s \in Nat, NEW c \in Nat,
         NEW a \in Nat, NEW d \in Nat, Accounted(n, s, m, c), c <= d
  PROVE  Accounted(n - a, s, m, d) /\ Accounted(n, s, m, d)
<1> DEFINE p == s * Most(m)
<1>1. p \in Nat /\ n <= p + c
  BY KnownInSums DEF Accounted
<1> HIDE DEF p
<1>2. n - a <= p + d /\ n <= p + d
  BY <1>1
<1> QED BY <1>2 DEF Accounted, p

LEMMA SlipRenews ==
  ASSUME NEW m \in Meter, NEW n \in Int, NEW s \in Nat, NEW c \in Nat,
         Accounted(n, s, m, Most(m))
  PROVE  Accounted(n, s + 1, m, c)
BY KnownInSums DEF Accounted

LEMMA NothingIsKnown ==
  ASSUME NEW m \in Meter, NEW s \in Nat, NEW c \in Nat
  PROVE  Accounted(0, s, m, c)
BY KnownInSums DEF Accounted

\* The bound of the property is knowledge of one full measure.
LEMMA LedgerInvGoverns == LedgerInv => GovernorHolds
<1> SUFFICES ASSUME LedgerInv, NEW k \in Key, NEW m \in Meter
             PROVE  shown[k][m] <= (1 + slips[k]) * Most(m)
  BY DEF GovernorHolds
<1>1. /\ shown[k][m] \in Int /\ slips[k] \in Nat
      /\ Accounted(shown[k][m], slips[k], m, Most(m))
  BY DEF LedgerInv, LedgerTyped
<1> DEFINE most == Most(m)
           p == slips[k] * most
<1>2. most \in Nat /\ shown[k][m] <= p + most
  BY <1>1, MeterParts DEF Accounted
<1> HIDE DEF most
<1>3. (1 + slips[k]) * most = p + most
  BY <1>1, <1>2, SMT
<1> HIDE DEF p
<1>4. shown[k][m] <= (1 + slips[k]) * most
  BY <1>2, <1>3
<1> QED BY <1>4 DEF most

LEMMA LedgerInitially == LedgerInit => LedgerInv
<1> USE LedgerAssumption
<1> SUFFICES ASSUME LedgerInit PROVE LedgerInv
  OBVIOUS
<1>1. Running = {}
  BY DEF LedgerInit, Running
<1>2. \A k \in Key, m \in Meter : shown[k][m] = 0 /\ slips[k] = 0
  BY DEF LedgerInit
<1>3. LedgerTyped
  BY <1>1 DEF LedgerInit, LedgerTyped
<1>4. ASSUME NEW k \in Key, NEW m \in Meter
      PROVE  Accounted(shown[k][m], slips[k], m, Most(m))
  BY <1>2, NothingIsKnown, MeterParts
<1>5. QED
  BY <1>1, <1>2, <1>3, <1>4 DEF LedgerInit, LedgerInv

\* What the ledger, the hooks and the bound are to a session that no step
\* concerns.
LEMMA KeyTyped ==
  ASSUME LedgerTyped, NEW session \in Session \cup {NoId}
  PROVE  KeyOf(session) \in Key
BY DEF KeyOf, Key, LedgerTyped

LEMMA LedgerLoad ==
  ASSUME LedgerInv, NEW h \in Hook, NEW session \in Session \cup {NoId},
         NEW fp \in Fingerprint, Load(h, session, fp)
  PROVE  LedgerInv'
<1>2. PICK key \in Key : key = KeyOf(session)
  BY KeyTyped DEF LedgerInv
<1> DEFINE lost == ledger = NoLedger \/ ledger.key # key
           led == IF lost THEN Empty(key) ELSE ledger
           late == Serving(key) # {} \/ (lost /\ key \in begun)
           amount == [m \in Meter |-> Amount(Card(led, fp), fp, m)]
           loaded == [fp |-> fp, writing |-> FALSE, led |-> led]
<1>1. /\ hook[h] = NoLoad /\ hook' = [hook EXCEPT ![h] = loaded]
      /\ shown' = [shown EXCEPT ![key] = [m \in Meter |-> @[m] + Amount(Card(led, fp), fp, m)]]
      /\ slips' = [slips EXCEPT ![key] = IF late THEN @ + 1 ELSE @]
      /\ begun' = begun \cup {key}
      /\ UNCHANGED <<ledger, window>>
  BY <1>2 DEF Load
<1>3. led \in Book /\ led.key = key
  <2>1. Empty(key) \in Book /\ Empty(key).key = key
    BY <1>2, MeterParts DEF Empty, Book, LedgerRecord
  <2> QED BY <2>1 DEF LedgerInv, LedgerTyped
<1>4. /\ Governed(led, fp) \in Book
      /\ \A m \in Meter : /\ amount[m] \in Nat /\ amount[m] <= Most(m)
                          /\ Credit(Governed(led, fp), m) = Credit(led, m) + amount[m]
  BY <1>3, CardIsCredited
<1>5. loaded \in [fp : Fingerprint, writing : BOOLEAN, led : Book]
  BY <1>3
<1>6. /\ Running' = Running \cup {h} /\ h \notin Running /\ DOMAIN hook' = Hook
      /\ \A i \in Running : hook'[i] = hook[i]
      /\ hook'[h].fp = fp /\ hook'[h].led = led /\ hook'[h].writing = FALSE
      /\ hook'[h] \in [fp : Fingerprint, writing : BOOLEAN, led : Book]
  <2>1. DOMAIN hook = Hook
    BY DEF LedgerInv, LedgerTyped
  <2>2. loaded # NoLoad
    BY <1>5, LedgerAssumption DEF HookRecord, Book
  <2>3. loaded.fp = fp /\ loaded.led = led /\ loaded.writing = FALSE
    OBVIOUS
  <2>4. hook'[h] = loaded
    BY <1>1, <2>1
  <2> HIDE DEF loaded, led
  <2>5. QED
    BY <1>1, <1>5, <2>1, <2>2, <2>3, <2>4 DEF Running
<1>7. /\ \A k \in Key \ {key} : Serving(k)' = Serving(k)
      /\ Serving(key)' = Serving(key) \cup {h}
  <2> HIDE DEF led, lost, late, amount, loaded
  <2>1. /\ Running' = Running \cup {h} /\ h \notin Running /\ hook'[h].led.key = key
        /\ \A i \in Running : hook'[i].led.key = hook[i].led.key
    BY <1>3, <1>6
  <2>2. ASSUME NEW k \in Key
        PROVE  \A i : i \in Serving(k)' <=> i \in Serving(k) \/ (i = h /\ k = key)
    <3>1. \A i : i \in Serving(k) <=> i \in Running /\ hook[i].led.key = k
      BY DEF Serving
    <3>2. \A i : i \in Serving(k)' <=> i \in Running' /\ hook'[i].led.key = k
      BY DEF Serving
    <3> QED BY <2>1, <3>1, <3>2
  <2>3. ASSUME NEW k \in Key \ {key} PROVE Serving(k)' = Serving(k)
    BY <2>2
  <2>4. \A i : i \in Serving(key)' <=> i \in Serving(key) \/ i = h
    BY <1>2, <2>2
  <2> QED BY <2>3, <2>4
<1>8. /\ \A k \in Key \ {key} : shown'[k] = shown[k] /\ slips'[k] = slips[k]
      /\ \A m \in Meter : shown'[key][m] = shown[key][m] + amount[m]
      /\ slips'[key] = IF late THEN slips[key] + 1 ELSE slips[key]
      /\ \A k \in Key, m \in Meter : shown[k][m] \in Int /\ slips[k] \in Nat
      /\ shown' \in [Key -> [Meter -> Int]] /\ slips' \in [Key -> Nat]
  <2> DEFINE more == [m \in Meter |-> shown[key][m] + Amount(Card(led, fp), fp, m)]
  <2>1. shown \in [Key -> [Meter -> Int]] /\ slips \in [Key -> Nat]
    BY DEF LedgerInv, LedgerTyped
  <2>2. more \in [Meter -> Int]
    BY <1>2, <1>4, <2>1
  <2>3. shown' = [shown EXCEPT ![key] = more]
    BY <1>1, <1>2, <2>1
  <2>4. \A m \in Meter : more[m] = shown[key][m] + amount[m]
    OBVIOUS
  <2> HIDE DEF more, amount, late
  <2> QED BY <1>1, <1>2, <2>1, <2>2, <2>3, <2>4
<1>9. LedgerTyped'
  BY <1>1, <1>2, <1>6, <1>8 DEF LedgerInv, LedgerTyped
<1>10. \A m \in Meter : Credit(led, m) \in Nat
  BY <1>3, CreditBounds
<1>11. ASSUME NEW m \in Meter
       PROVE  Accounted(shown[key][m], slips'[key], m, Credit(led, m))
  <2>1. CASE late
    <3>1. Accounted(shown[key][m], slips[key], m, Most(m))
      BY <1>2 DEF LedgerInv
    <3> HIDE DEF late, led
    <3> QED BY <2>1, <3>1, <1>2, <1>8, <1>10, SlipRenews
  <2>2. CASE ~late /\ lost
    <3>1. shown[key][m] = 0 /\ slips'[key] = slips[key]
      BY <1>2, <1>8, <2>2 DEF LedgerInv
    <3> HIDE DEF late, led
    <3> QED BY <3>1, <1>2, <1>8, <1>10, NothingIsKnown
  <2>3. CASE ~late /\ ~lost
    <3>1. ledger # NoLedger /\ ledger.key = key /\ led = ledger /\ Serving(key) = {}
          /\ slips'[key] = slips[key]
      BY <2>3, <1>8
    <3>2. LedgerKnows(m)
      BY <3>1 DEF LedgerInv
    <3> HIDE DEF led
    <3> QED BY <3>1, <3>2 DEF LedgerKnows
  <2> QED BY <2>1, <2>2, <2>3
<1> HIDE DEF late, led, amount
<1>12. ASSUME NEW m \in Meter
       PROVE  Accounted(shown'[key][m], slips'[key], m, Credit(Governed(led, fp), m))
  <2>1. /\ shown[key][m] \in Int /\ slips'[key] \in Nat /\ Credit(led, m) \in Nat
        /\ amount[m] \in Int
    BY <1>2, <1>4, <1>8, <1>10
  <2>2. Accounted(shown[key][m] + amount[m], slips'[key], m, Credit(led, m) + amount[m])
    BY <1>11, <2>1, CardPays
  <2> QED BY <1>4, <1>8, <2>2
<1>13. ASSUME NEW k \in Key, NEW m \in Meter
       PROVE  Accounted(shown'[k][m], slips'[k], m, Most(m))
  <2>1. CASE k # key
    BY <2>1, <1>8 DEF LedgerInv
  <2>2. CASE k = key
    <3>1. Accounted(shown'[key][m], slips'[key], m, Credit(Governed(led, fp), m))
      BY <1>12
    <3>2. /\ shown'[key][m] \in Int /\ slips'[key] \in Nat /\ Most(m) \in Nat
          /\ Credit(Governed(led, fp), m) \in Nat
          /\ Credit(Governed(led, fp), m) <= Most(m)
      BY <1>2, <1>4, <1>9, CreditBounds, MeterParts DEF LedgerTyped
    <3> QED BY <2>2, <3>1, <3>2, KnownStays
  <2> QED BY <2>1, <2>2
<1>14. ASSUME NEW i \in Running', NEW m \in Meter PROVE HookKnows(i, m)'
  <2>1. CASE i = h
    BY <2>1, <1>3, <1>6, <1>12 DEF HookKnows, LedgerOf
  <2>2. CASE i # h
    <3> DEFINE k == hook[i].led.key
               credit == Credit(LedgerOf(i), m)
    <3>1. i \in Running /\ hook'[i] = hook[i]
      BY <1>6, <2>2
    <3>2. k \in Key /\ Accounted(shown[k][m], slips[k], m, credit) /\ credit \in Nat
      <4>1. hook[i] \in [fp : Fingerprint, writing : BOOLEAN, led : Book]
        BY <3>1 DEF LedgerInv, LedgerTyped
      <4>2. HookKnows(i, m)
        BY <3>1 DEF LedgerInv
      <4>3. LedgerOf(i) \in Book
        BY <4>1, CardIsCredited DEF LedgerOf
      <4> QED BY <4>1, <4>2, <4>3, CreditBounds DEF HookKnows, Book, LedgerRecord
    <3>3. k = key => slips'[k] = slips[k] + 1
      BY <3>1, <1>8 DEF Serving, late
    <3>4. Accounted(shown'[k][m], slips'[k], m, credit)
      <4> HIDE DEF k, credit
      <4>1. CASE k = key
        <5>1. /\ shown[k][m] \in Int /\ slips[k] \in Nat /\ amount[m] \in Int
              /\ amount[m] <= Most(m) /\ shown'[k][m] = shown[k][m] + amount[m]
          BY <4>1, <3>2, <1>4, <1>8
        <5> QED BY <5>1, <3>2, <3>3, <4>1, SlipPays
      <4>2. CASE k # key
        BY <4>2, <3>2, <1>8
      <4> QED BY <4>1, <4>2
    <3> QED BY <3>1, <3>4 DEF HookKnows, LedgerOf
  <2> QED BY <2>1, <2>2
<1>15. ASSUME ledger' # NoLedger, NEW m \in Meter PROVE LedgerKnows(m)'
  <2>0. ledger' = ledger /\ ledger \in Book
    BY <1>1, <1>15 DEF LedgerInv, LedgerTyped
  <2> DEFINE credit == Credit(ledger, m)
  <2>1. PICK k \in Key : k = ledger.key /\ k = ledger'.key /\ credit \in Nat /\ credit' = credit
    BY <2>0, CreditBounds DEF Book, LedgerRecord
  <2>2. LedgerKnows(m)
    BY <1>15, <2>0 DEF LedgerInv
  <2>3. \A i \in Serving(k) : i \in Running /\ i \in Serving(k)' /\ hook'[i] = hook[i]
    BY <1>6, <1>7, <2>1 DEF Serving
  <2>4. CASE k # key
    <3>1. shown'[k] = shown[k] /\ slips'[k] = slips[k]
      BY <2>1, <2>4, <1>8
    <3> QED BY <2>1, <2>2, <2>3, <3>1 DEF LedgerKnows, Dealt
  <2>5. CASE k = key /\ ~late
    <3>1. led = ledger
      BY <1>15, <2>0, <2>1, <2>5 DEF led
    <3>5. h \in Serving(k)' /\ hook'[h].writing = FALSE
      <4> HIDE DEF credit
      <4> QED BY <2>5, <1>6, <1>7
    <3>2. Accounted(shown[k][m], slips'[k], m, credit)
      BY <2>5, <3>1, <1>11
    <3>3. Dealt(h, m)' = amount[m]
      BY <1>6 DEF Dealt, amount
    <3>4. shown'[k][m] - Dealt(h, m)' = shown[k][m]
      BY <2>5, <3>3, <1>2, <1>4, <1>8
    <3> HIDE DEF credit
    <3> QED BY <2>1, <3>2, <3>4, <3>5 DEF LedgerKnows, credit
  <2>6. CASE k = key /\ late
    <3>1. slips'[k] = slips[k] + 1 /\ shown'[k][m] = shown[k][m] + amount[m]
          /\ shown[k][m] \in Int /\ slips[k] \in Nat
          /\ amount[m] \in Nat /\ amount[m] <= Most(m)
      BY <2>6, <1>2, <1>4, <1>8
    <3>2. CASE Accounted(shown[k][m], slips[k], m, credit)
      <4>1. Accounted(shown'[k][m], slips'[k], m, credit)
        <5> HIDE DEF credit
        <5>1. amount[m] \in Int
          BY <3>1
        <5> QED BY <2>1, <3>1, <3>2, <5>1, SlipPays
      <4> QED BY <2>1, <4>1 DEF LedgerKnows
    <3>3. ASSUME NEW i \in Serving(k), ~hook[i].writing,
                 Accounted(shown[k][m] - Dealt(i, m), slips[k], m, credit)
          PROVE  LedgerKnows(m)'
      <4>1. Dealt(i, m)' = Dealt(i, m) /\ Dealt(i, m) \in Nat
        <5>1. hook[i] \in [fp : Fingerprint, writing : BOOLEAN, led : Book]
          BY <2>3 DEF LedgerInv, LedgerTyped
        <5> QED BY <5>1, <2>3, CardIsCredited DEF Dealt
      <4>2. Accounted(shown'[k][m] - Dealt(i, m), slips'[k], m, credit)
        <5> DEFINE n == shown[k][m] - Dealt(i, m)
        <5>1. n \in Int /\ shown'[k][m] - Dealt(i, m) = n + amount[m]
          BY <3>1, <4>1
        <5>2. Accounted(n + amount[m], slips[k] + 1, m, credit)
          <6> HIDE DEF n, credit
          <6>1. Accounted(n, slips[k], m, credit)
            BY <3>3 DEF n
          <6>2. amount[m] \in Int
            BY <3>1
          <6> QED BY <2>1, <3>1, <5>1, <6>1, <6>2, SlipPays
        <5> HIDE DEF n
        <5> QED BY <3>1, <5>1, <5>2
      <4>3. hook'[i] = hook[i] /\ i \in Serving(k)'
        BY <2>3, <3>3
      <4> HIDE DEF credit
      <4> QED BY <2>1, <3>3, <4>1, <4>2, <4>3 DEF LedgerKnows, credit
    <3> QED BY <2>1, <2>2, <3>2, <3>3 DEF LedgerKnows, credit
  <2> QED BY <2>4, <2>5, <2>6
<1>16. \A k \in Key \ begun', m \in Meter : shown'[k][m] = 0
  BY <1>1, <1>2, <1>8 DEF LedgerInv
<1>17. \A i \in Running' : hook'[i].led.key \in begun'
  BY <1>1, <1>3, <1>6 DEF LedgerInv
<1> QED BY <1>9, <1>13, <1>14, <1>15, <1>16, <1>17 DEF LedgerInv

\* A step by which hooks end, and which makes no more of what was shown:
\* what the hooks that go on know, they know afterwards.
LEMMA HooksKnow ==
  ASSUME LedgerInv, LedgerTyped', begun' = begun, Running' \subseteq Running,
         \A i \in Running' : hook'[i].led = hook[i].led /\ hook'[i].fp = hook[i].fp,
         \A k \in Key, m \in Meter, c \in Nat :
           Accounted(shown[k][m], slips[k], m, c) => Accounted(shown'[k][m], slips'[k], m, c),
         \A k \in Key \ begun, m \in Meter : shown'[k][m] = shown[k][m],
         ledger' # NoLedger => \A m \in Meter : LedgerKnows(m)'
  PROVE  LedgerInv'
<1>1. \A k \in Key, m \in Meter : Accounted(shown'[k][m], slips'[k], m, Most(m))
  BY MeterParts DEF LedgerInv
<1>2. \A k \in Key \ begun', m \in Meter : shown'[k][m] = 0
  BY DEF LedgerInv
<1>3. \A i \in Running' : hook'[i].led.key \in begun'
  BY DEF LedgerInv
<1>4. ASSUME NEW i \in Running', NEW m \in Meter PROVE HookKnows(i, m)'
  <2>1. /\ HookKnows(i, m) /\ LedgerOf(i)' = LedgerOf(i)
        /\ hook'[i].led.key = hook[i].led.key
    BY DEF LedgerInv, LedgerOf
  <2>2. hook[i].led.key \in Key /\ LedgerOf(i) \in Book
    <3>1. hook[i] \in [fp : Fingerprint, writing : BOOLEAN, led : Book]
      BY DEF LedgerInv, LedgerTyped
    <3> QED BY <3>1, CardIsCredited DEF LedgerOf, Book, LedgerRecord
  <2>3. Credit(LedgerOf(i), m) \in Nat
    BY <2>2, CreditBounds
  <2> QED BY <2>1, <2>2, <2>3 DEF HookKnows
<1> QED BY <1>1, <1>2, <1>3, <1>4 DEF LedgerInv

\* So does a ledger that stays, if its session keeps the hooks that have not
\* opened it and nothing more is shown or counted.
LEMMA LedgerStays ==
  ASSUME LedgerInv, NEW k \in Key, ledger # NoLedger, k = ledger.key,
         ledger' = ledger, shown'[k] = shown[k], slips'[k] = slips[k],
         \A i \in Running : hook[i].led.key = k /\ ~hook[i].writing =>
                              i \in Running' /\ hook'[i] = hook[i],
         NEW m \in Meter
  PROVE  LedgerKnows(m)'
<1>1. LedgerKnows(m)
  BY DEF LedgerInv
<1>2. Credit(ledger, m)' = Credit(ledger, m) /\ ledger'.key = k
  BY DEF Credit
<1>3. CASE Accounted(shown[k][m], slips[k], m, Credit(ledger, m))
  BY <1>2, <1>3 DEF LedgerKnows
<1>4. ASSUME NEW i \in Serving(k), ~hook[i].writing,
             Accounted(shown[k][m] - Dealt(i, m), slips[k], m, Credit(ledger, m))
      PROVE  LedgerKnows(m)'
  <2>1. i \in Running' /\ hook'[i] = hook[i] /\ hook[i].led.key = k
    BY <1>4 DEF Serving
  <2>2. Dealt(i, m)' = Dealt(i, m) /\ i \in Serving(k)'
    BY <2>1 DEF Dealt, Serving
  <2> QED BY <1>2, <1>4, <2>1, <2>2 DEF LedgerKnows
<1> QED BY <1>1, <1>3, <1>4 DEF LedgerKnows

\* A hook that runs, and the end of it.
LEMMA HookParts ==
  ASSUME LedgerInv, NEW h \in Hook, hook[h] # NoLoad
  PROVE  /\ h \in Running /\ hook[h].led.key \in Key \cap begun
         /\ hook[h] \in [fp : Fingerprint, writing : BOOLEAN, led : Book]
         /\ \A m \in Meter : Dealt(h, m) \in Nat
<1>1. h \in Running
  BY DEF Running
<1>2. hook[h] \in [fp : Fingerprint, writing : BOOLEAN, led : Book]
  BY <1>1 DEF LedgerInv, LedgerTyped
<1> QED BY <1>1, <1>2, CardIsCredited DEF LedgerInv, Dealt, Book, LedgerRecord

LEMMA HookEnds ==
  ASSUME LedgerInv, NEW h \in Hook, hook[h] # NoLoad, Ends(h)
  PROVE  /\ Running' = Running \ {h} /\ DOMAIN hook' = Hook
         /\ \A i \in Running' : hook'[i] = hook[i]
BY DEF LedgerInv, LedgerTyped, Ends, Running

LEMMA LedgerOpen ==
  ASSUME LedgerInv, NEW h \in Hook, Open(h)
  PROVE  LedgerInv'
<1>1. /\ hook[h] # NoLoad /\ hook' = [hook EXCEPT ![h].writing = TRUE]
      /\ ledger' = NoLedger /\ UNCHANGED <<window, shown, slips, begun>>
  BY DEF Open
<1>2. hook[h] \in [fp : Fingerprint, writing : BOOLEAN, led : Book] /\ DOMAIN hook = Hook
  BY <1>1, HookParts DEF LedgerInv, LedgerTyped
<1> DEFINE opened == [hook[h] EXCEPT !.writing = TRUE]
<1>3. /\ opened \in [fp : Fingerprint, writing : BOOLEAN, led : Book]
      /\ opened.led = hook[h].led /\ opened.fp = hook[h].fp
  BY <1>2
<1>4. hook' = [hook EXCEPT ![h] = opened]
  BY <1>1, <1>2
<1>5. opened # NoLoad
  BY <1>3, LedgerAssumption DEF HookRecord, Book
<1> HIDE DEF opened
<1>6. /\ Running' = Running /\ DOMAIN hook' = Hook /\ hook'[h] = opened
      /\ \A i \in Running \ {h} : hook'[i] = hook[i]
  BY <1>1, <1>2, <1>4, <1>5 DEF Running
<1>7. LedgerTyped'
  BY <1>1, <1>3, <1>6 DEF LedgerInv, LedgerTyped
<1>8. \A i \in Running' : hook'[i].led = hook[i].led /\ hook'[i].fp = hook[i].fp
  BY <1>3, <1>6
<1> QED BY <1>1, <1>6, <1>7, <1>8, HooksKnow

LEMMA LedgerSave ==
  ASSUME LedgerInv, NEW h \in Hook, Save(h)
  PROVE  LedgerInv'
<1>1. /\ hook[h] # NoLoad /\ Ends(h)
      /\ ledger' = LedgerOf(h) \/ ledger' = NoLedger
      /\ UNCHANGED <<window, shown, slips, begun>>
  BY DEF Save, LedgerOf
<1>2. /\ h \in Running
      /\ hook[h] \in [fp : Fingerprint, writing : BOOLEAN, led : Book]
  BY <1>1, HookParts
<1>3. LedgerOf(h) \in Book /\ LedgerOf(h).key = hook[h].led.key
  BY <1>2, CardIsCredited DEF LedgerOf
<1>4. /\ Running' \subseteq Running /\ DOMAIN hook' = Hook
      /\ \A i \in Running' : hook'[i] = hook[i]
  BY <1>1, HookEnds
<1>5. LedgerTyped'
  BY <1>1, <1>3, <1>4 DEF LedgerInv, LedgerTyped
<1>6. ASSUME ledger' # NoLedger, NEW m \in Meter PROVE LedgerKnows(m)'
  <2>1. ledger' = LedgerOf(h) /\ HookKnows(h, m)
    BY <1>1, <1>2, <1>6 DEF LedgerInv
  <2> QED BY <2>1, <1>1, <1>3 DEF LedgerKnows, HookKnows
<1> QED BY <1>1, <1>4, <1>5, <1>6, HooksKnow

LEMMA LedgerUnopened ==
  ASSUME LedgerInv, NEW h \in Hook, Unopened(h)
  PROVE  LedgerInv'
<1>0. hook[h] # NoLoad /\ Ends(h)
  BY DEF Unopened
<1>1. PICK k \in Key : k = hook[h].led.key
  BY <1>0, HookParts
<1>2. /\ slips' = [slips EXCEPT ![k] = @ + 1] /\ UNCHANGED <<ledger, window, shown, begun>>
  BY <1>1 DEF Unopened
<1>3. /\ slips'[k] = slips[k] + 1 /\ \A j \in Key \ {k} : slips'[j] = slips[j]
      /\ slips' \in [Key -> Nat] /\ shown \in [Key -> [Meter -> Int]]
      /\ slips \in [Key -> Nat]
  BY <1>2 DEF LedgerInv, LedgerTyped
<1>4. /\ Running' = Running \ {h} /\ DOMAIN hook' = Hook
      /\ \A i \in Running' : hook'[i] = hook[i]
  BY <1>0, HookEnds
<1>5. LedgerTyped'
  BY <1>2, <1>3, <1>4 DEF LedgerInv, LedgerTyped
<1>6. ASSUME NEW j \in Key, NEW m \in Meter, NEW c \in Nat,
             j = k \/ Accounted(shown[j][m], slips[j], m, c)
      PROVE  Accounted(shown'[j][m], slips'[j], m, c)
  <2>1. Accounted(shown[j][m], slips[j], m, Most(m)) /\ shown[j][m] \in Int
    BY <1>3 DEF LedgerInv
  <2>2. CASE j = k
    BY <1>2, <1>3, <2>1, <2>2, SlipRenews
  <2> QED BY <1>2, <1>3, <1>6, <2>2
<1>7. ASSUME ledger' # NoLedger, NEW m \in Meter PROVE LedgerKnows(m)'
  <2>1. ledger \in Book /\ ledger' = ledger
    BY <1>2, <1>7 DEF LedgerInv, LedgerTyped
  <2>2. PICK j \in Key : j = ledger.key
    BY <2>1 DEF Book, LedgerRecord
  <2>3. CASE j # k
    <3>1. \A i \in Running : hook[i].led.key = j => i \in Running' /\ hook'[i] = hook[i]
      BY <1>1, <1>4, <2>3
    <3>2. shown'[j] = shown[j] /\ slips'[j] = slips[j]
      BY <1>2, <1>3, <2>3
    <3> QED BY <1>7, <2>1, <2>2, <3>1, <3>2, LedgerStays
  <2>4. CASE j = k
    <3>1. Credit(ledger, m) \in Nat
      BY <2>1, CreditBounds
    <3>2. Accounted(shown'[j][m], slips'[j], m, Credit(ledger, m))
      BY <1>6, <2>4, <3>1
    <3> QED BY <2>1, <2>2, <3>2 DEF LedgerKnows
  <2> QED BY <2>3, <2>4
<1> QED BY <1>2, <1>4, <1>5, <1>6, <1>7, HooksKnow

LEMMA LedgerUnwritten ==
  ASSUME LedgerInv, NEW h \in Hook, Unwritten(h)
  PROVE  LedgerInv'
<1>1. /\ hook[h] # NoLoad /\ hook[h].writing /\ Ends(h)
      /\ ledger' = ledger \/ ledger' = NoLedger
      /\ UNCHANGED <<window, shown, slips, begun>>
  BY DEF Unwritten
<1>2. /\ Running' = Running \ {h} /\ DOMAIN hook' = Hook
      /\ \A i \in Running' : hook'[i] = hook[i]
  BY <1>1, HookEnds
<1>3. LedgerTyped'
  BY <1>1, <1>2 DEF LedgerInv, LedgerTyped
<1>4. ASSUME ledger' # NoLedger, NEW m \in Meter PROVE LedgerKnows(m)'
  <2>1. ledger' = ledger /\ ledger \in Book
    BY <1>1, <1>4 DEF LedgerInv, LedgerTyped
  <2>2. PICK j \in Key : j = ledger.key
    BY <2>1 DEF Book, LedgerRecord
  <2>3. \A i \in Running : ~hook[i].writing => i \in Running' /\ hook'[i] = hook[i]
    BY <1>1, <1>2
  <2> QED BY <1>1, <1>4, <2>1, <2>2, <2>3, LedgerStays
<1> QED BY <1>1, <1>2, <1>3, <1>4, HooksKnow

LEMMA LedgerKill ==
  ASSUME LedgerInv, NEW h \in Hook, Kill(h)
  PROVE  LedgerInv'
<1>0. hook[h] # NoLoad /\ Ends(h)
  BY DEF Kill
<1>1. PICK k \in Key : k = hook[h].led.key
  BY <1>0, HookParts
<1>2. \A m \in Meter : Dealt(h, m) \in Nat
  BY <1>0, HookParts
<1>3. /\ \A m \in Meter : shown'[k][m] = shown[k][m] - Dealt(h, m)
      /\ \A j \in Key \ {k} : shown'[j] = shown[j]
      /\ shown' \in [Key -> [Meter -> Int]] /\ shown \in [Key -> [Meter -> Int]]
      /\ slips \in [Key -> Nat] /\ UNCHANGED <<ledger, window, slips, begun>>
  <2> DEFINE fewer == [m \in Meter |-> shown[k][m] - Dealt(h, m)]
  <2>1. shown \in [Key -> [Meter -> Int]] /\ slips \in [Key -> Nat]
    BY DEF LedgerInv, LedgerTyped
  <2>2. fewer \in [Meter -> Int]
    BY <1>2, <2>1
  <2>3. shown' = [shown EXCEPT ![k] = fewer] /\ UNCHANGED <<ledger, window, slips, begun>>
    BY <1>1, <2>1 DEF Kill, Dealt
  <2>4. \A m \in Meter : fewer[m] = shown[k][m] - Dealt(h, m)
    OBVIOUS
  <2> HIDE DEF fewer
  <2> QED BY <2>1, <2>2, <2>3, <2>4
<1>4. /\ Running' = Running \ {h} /\ DOMAIN hook' = Hook
      /\ \A i \in Running' : hook'[i] = hook[i]
  BY <1>0, HookEnds
<1>5. LedgerTyped'
  BY <1>3, <1>4 DEF LedgerInv, LedgerTyped
<1>6. ASSUME NEW j \in Key, NEW m \in Meter, NEW c \in Nat,
             Accounted(shown[j][m], slips[j], m, c)
      PROVE  Accounted(shown'[j][m], slips'[j], m, c)
  <2>1. CASE j = k
    <3>1. shown[j][m] \in Int /\ slips[j] \in Nat
      BY <1>3
    <3> QED BY <1>2, <1>3, <1>6, <2>1, <3>1, KnownStays
  <2> QED BY <1>3, <1>6, <2>1
<1>7. \A j \in Key \ begun, m \in Meter : shown'[j][m] = shown[j][m]
  BY <1>0, <1>1, <1>3, HookParts
<1>8. ASSUME ledger' # NoLedger, NEW m \in Meter PROVE LedgerKnows(m)'
  <2>1. ledger \in Book /\ ledger' = ledger
    BY <1>3, <1>8 DEF LedgerInv, LedgerTyped
  <2>2. PICK j \in Key : j = ledger.key
    BY <2>1 DEF Book, LedgerRecord
  <2>3. CASE j # k
    <3>1. \A i \in Running : hook[i].led.key = j => i \in Running' /\ hook'[i] = hook[i]
      BY <1>1, <1>4, <2>3
    <3>2. shown'[j] = shown[j] /\ slips'[j] = slips[j]
      BY <1>3, <2>3
    <3> QED BY <1>8, <2>1, <2>2, <3>1, <3>2, LedgerStays
  <2>4. CASE j = k
    <3> DEFINE credit == Credit(ledger, m)
    <3>1. credit \in Nat /\ credit' = credit
      BY <2>1, CreditBounds
    <3>2. LedgerKnows(m)
      BY <1>8, <2>1 DEF LedgerInv
    <3>3. /\ shown[k][m] \in Int /\ slips[k] \in Nat /\ slips' = slips
          /\ shown'[k][m] = shown[k][m] - Dealt(h, m)
      BY <1>3
    <3> HIDE DEF credit
    <3>4. CASE Accounted(shown[k][m], slips[k], m, credit)
      <4>1. Accounted(shown'[k][m], slips'[k], m, credit)
        BY <1>6, <3>1, <3>4
      <4> QED BY <2>1, <2>2, <2>4, <3>1, <4>1 DEF LedgerKnows, credit
    <3>5. ASSUME NEW i \in Serving(k), ~hook[i].writing,
                 Accounted(shown[k][m] - Dealt(i, m), slips[k], m, credit)
          PROVE  LedgerKnows(m)'
      <4>1. CASE i = h
        <5>1. Accounted(shown'[k][m], slips'[k], m, credit)
          BY <3>3, <3>5, <4>1
        <5> QED BY <2>1, <2>2, <2>4, <3>1, <5>1 DEF LedgerKnows, credit
      <4>2. CASE i # h
        <5>1. i \in Running' /\ hook'[i] = hook[i] /\ hook[i] # NoLoad /\ i \in Hook
              /\ hook[i].led.key = k
          BY <1>4, <3>5, <4>2 DEF Serving, Running
        <5>2. Dealt(i, m)' = Dealt(i, m) /\ i \in Serving(k)' /\ Dealt(i, m) \in Nat
          BY <5>1, HookParts DEF Dealt, Serving
        <5> DEFINE n == shown[k][m] - Dealt(i, m)
        <5>3. n \in Int /\ shown'[k][m] - Dealt(i, m) = n - Dealt(h, m)
          BY <1>2, <3>3, <5>2
        <5>4. Accounted(n, slips[k], m, credit)
          BY <3>5
        <5> HIDE DEF n
        <5>5. Accounted(n - Dealt(h, m), slips[k], m, credit)
          <6>1. Dealt(h, m) \in Nat /\ credit <= credit
            BY <1>2, <3>1
          <6> QED BY <3>1, <3>3, <5>3, <5>4, <6>1, KnownStays
        <5>6. Accounted(shown'[k][m] - Dealt(i, m)', slips'[k], m, credit)
          BY <3>3, <5>2, <5>3, <5>5
        <5> QED BY <2>1, <2>2, <2>4, <3>1, <3>5, <5>1, <5>2, <5>6 DEF LedgerKnows, credit
      <4> QED BY <4>1, <4>2
    <3> QED BY <2>2, <2>4, <3>2, <3>4, <3>5 DEF LedgerKnows, credit
  <2> QED BY <2>3, <2>4
<1> QED BY <1>3, <1>4, <1>5, <1>6, <1>7, <1>8, HooksKnow

LEMMA LedgerElapse ==
  ASSUME LedgerInv, Elapse \/ UNCHANGED ledgerVars
  PROVE  LedgerInv'
<1>1. /\ window' \in 0..MaxWindows /\ UNCHANGED <<ledger, hook, shown, slips, begun>>
  BY LedgerAssumption DEF LedgerInv, LedgerTyped, Elapse, ledgerVars
<1>2. Running' = Running /\ LedgerTyped'
  BY <1>1 DEF Running, LedgerInv, LedgerTyped
<1>3. ASSUME ledger' # NoLedger, NEW m \in Meter PROVE LedgerKnows(m)'
  <2>1. ledger' = ledger /\ ledger \in Book
    BY <1>1, <1>3 DEF LedgerInv, LedgerTyped
  <2>2. PICK j \in Key : j = ledger.key
    BY <2>1 DEF Book, LedgerRecord
  <2> QED BY <1>1, <1>2, <1>3, <2>1, <2>2, LedgerStays
<1> QED BY <1>1, <1>2, <1>3, HooksKnow

LEMMA LedgerStep == LedgerInv /\ [LedgerNext]_ledgerVars => LedgerInv'
<1> SUFFICES ASSUME LedgerInv, [LedgerNext]_ledgerVars PROVE LedgerInv'
  OBVIOUS
<1> USE DEF LedgerNext
<1>1. ASSUME NEW h \in Hook, NEW session \in Session \cup {NoId}, NEW fp \in Fingerprint,
             Load(h, session, fp)
      PROVE  LedgerInv'
  BY <1>1, LedgerLoad
<1>2. ASSUME NEW h \in Hook,
             Open(h) \/ Save(h) \/ Unopened(h) \/ Unwritten(h) \/ Kill(h)
      PROVE  LedgerInv'
  BY <1>2, LedgerOpen, LedgerSave, LedgerUnopened, LedgerUnwritten, LedgerKill
<1>3. CASE Elapse \/ UNCHANGED ledgerVars
  BY <1>3, LedgerElapse
<1> QED BY <1>1, <1>2, <1>3

\* The governor of the hook's cards (hook.ts, buildImpactCard with the ledger
\* of loadPushLedger and writePushLedger), for every number of hooks and
\* sessions, costs and ceiling: a session is shown no more than one measure,
\* and another for each hook of it that ran beside another one, found the
\* ledger gone or could not open it.
THEOREM GovernorIsKept == LedgerSpec => []GovernorHolds
<1>1. LedgerSpec => []LedgerInv
  BY LedgerInitially, LedgerStep, PTL DEF LedgerSpec
<1> QED BY <1>1, LedgerInvGoverns, PTL

-----------------------------------------------------------------------------
(* Migration                                                               *)

Decisions == [view : [Legacy -> FeatureShard], accept : BOOLEAN,
              resolved : Partly([wording : Wording, retain : BOOLEAN])]
Conversions == [by : Operator, source : Partly(FeatureShard),
                original : Partly(FeatureShard), live : SUBSET Legacy,
                checked : BOOLEAN]

MigrationTypes ==
  /\ schema \in {"0.1", "0.2"}
  /\ shard \in [Legacy -> FeatureShard]
  /\ carried \in SUBSET Legacy
  /\ trial \in [Legacy -> {NoTrial} \cup Trials]
  /\ review \in [Operator -> {NoReview} \cup Decisions]
  /\ baseline \in {NoBaseline} \cup Baselines
  /\ apply \in {NoApply} \cup Conversions

\* Under schema 0.1 a `done` is earned or on trial, and a trial that gives a
\* `done` back found an earned one.
ProvisionalInv ==
  schema = "0.1" =>
    /\ baseline = NoBaseline
    /\ \A f \in DoneIn(shard) :
         /\ trial[f] = NoTrial => f \in earned
         /\ trial[f] # NoTrial /\ trial[f].before = "done" => f \in earned

\* What a conversion has read, against the preview and the disk.
ConversionInv ==
  apply # NoApply =>
    LET r == review[apply.by] IN
    /\ schema = "0.1" /\ r # NoReview
    /\ Dropping(r) \subseteq apply.live
    /\ DOMAIN apply.original \subseteq DOMAIN apply.source
    /\ \A f \in DOMAIN apply.original :
         shard[f].status = "done" => apply.original[f].status = "done"
    /\ \A f \in DOMAIN apply.source :
         apply.source[f] # r.view[f] => shard[f] # r.view[f] \/ f \in returned
    /\ apply.checked =>
         /\ DOMAIN apply.original = Legacy
         /\ DoneIn(apply.source) = DoneIn(r.view)
         /\ \A f \in DoneIn(r.view) : apply.original[f].status = "done"
         /\ \A f \in Legacy : apply.source[f] = r.view[f] \/ f \in returned

ReceiptInv ==
  baseline # NoBaseline =>
    \A f \in DOMAIN baseline.authorized :
      /\ <<f, baseline.authorized[f].wording>> \in agreed
      /\ f \in earned \cup doubtful

MigrationInv ==
  MigrationTypes /\ ProvisionalInv /\ ConversionInv /\ ReceiptInv

LEMMA ReadOneMore ==
  ASSUME NEW S, NEW view \in Partly(S), NEW f \in Legacy, NEW s \in S
  PROVE  [g \in DOMAIN view \cup {f} |-> IF g = f THEN s ELSE view[g]] \in Partly(S)
<1>1. PICK D \in SUBSET Legacy : view \in [D -> S]
  BY DEF Partly
<1>2. [g \in DOMAIN view \cup {f} |-> IF g = f THEN s ELSE view[g]] \in [D \cup {f} -> S]
  BY <1>1
<1>3. D \cup {f} \in SUBSET Legacy
  OBVIOUS
<1>4. QED
  BY <1>2, <1>3 DEF Partly

LEMMA EverythingRead ==
  ASSUME NEW S, NEW view \in Partly(S)
  PROVE  DOMAIN view \subseteq Legacy /\ view \in [DOMAIN view -> S]
BY DEF Partly

LEMMA MigrationInitially == MigrationInit => MigrationInv
<1> SUFFICES ASSUME MigrationInit PROVE MigrationInv
  OBVIOUS
<1>1. shard \in [Legacy -> FeatureShard]
  BY MigrationAssumption DEF MigrationInit
<1>2. MigrationTypes
  BY <1>1 DEF MigrationInit, MigrationTypes
<1>3. ProvisionalInv /\ ConversionInv /\ ReceiptInv
  BY DEF MigrationInit, ProvisionalInv, ConversionInv, ReceiptInv
<1>4. QED
  BY <1>2, <1>3 DEF MigrationInv

\* What a migration writes.
LEMMA ConversionTyped ==
  ASSUME NEW r \in Decisions,
         NEW source \in [Legacy -> FeatureShard]
  PROVE  /\ Converted(r, source) \in [Legacy -> FeatureShard]
         /\ Receipt(r, source) \in Baselines
<1> DEFINE intent == Converted(r, source)
           held == {f \in Historic \cap DOMAIN r.resolved : r.resolved[f].retain}
           covered == IF r.accept THEN DoneIn(source) ELSE {}
<1>1. /\ DOMAIN r.resolved \subseteq Legacy
      /\ \A f \in DOMAIN r.resolved : r.resolved[f].wording \in Wording
  <2>1. /\ DOMAIN r.resolved \subseteq Legacy
        /\ r.resolved \in [DOMAIN r.resolved -> [wording : Wording, retain : BOOLEAN]]
    BY EverythingRead DEF Decisions
  <2>2. QED
    BY <2>1
<1>2. \A f \in Legacy : /\ r.view[f].wording \in Wording
                        /\ source[f] \in FeatureShard
  BY DEF FeatureShard, Decisions
<1>3. intent \in [Legacy -> FeatureShard]
  BY <1>1, <1>2 DEF Converted, FeatureShard
<1>4. \A f \in Legacy : intent[f].wording \in Wording /\ intent[f].strict \in BOOLEAN
  BY <1>3 DEF FeatureShard
<1>5. held \in SUBSET Legacy /\ covered \in SUBSET Legacy
  BY <1>1 DEF DoneIn
<1> HIDE DEF held, covered, intent
<1>6. [f \in held |-> intent[f].wording] \in Partly(Wording)
  <2>1. [f \in held |-> intent[f].wording] \in [held -> Wording]
    BY <1>4, <1>5
  <2>2. QED
    BY <2>1, <1>5 DEF Partly
<1>7. [f \in covered |-> [wording |-> intent[f].wording, strict |-> intent[f].strict]]
        \in Partly([wording : Wording, strict : BOOLEAN])
  <2>1. [f \in covered |-> [wording |-> intent[f].wording, strict |-> intent[f].strict]]
          \in [covered -> [wording : Wording, strict : BOOLEAN]]
    BY <1>4, <1>5
  <2>2. QED
    BY <2>1, <1>5 DEF Partly
<1>8. [f \in Legacy |-> r.view[f].wording] \in [Legacy -> Wording]
  BY <1>2
<1>9. Receipt(r, source) =
        [legacy |-> [f \in Legacy |-> r.view[f].wording],
         retained |-> [f \in held |-> intent[f].wording],
         authorized |-> [f \in covered |->
            [wording |-> intent[f].wording, strict |-> intent[f].strict]]]
  BY DEF Receipt, held, covered, intent
<1>10. Receipt(r, source) \in Baselines
  BY <1>6, <1>7, <1>8, <1>9 DEF Baselines
<1>11. QED
  BY <1>3, <1>10 DEF intent

\* What holds when a conversion is published.
LEMMA AtPublication ==
  ASSUME MigrationInv, Migrate
  PROVE  LET r == review[apply.by]
             source == apply.source
         IN /\ r \in Decisions
            /\ source \in [Legacy -> FeatureShard]
            /\ DoneIn(source) = DoneIn(r.view)
            /\ \A f \in DoneIn(source) : f \in earned \/ trial[f] # NoTrial
            /\ \A f \in Legacy : source[f] = r.view[f] \/ f \in returned
            /\ Dropping(r) \subseteq apply.live
<1> DEFINE r == review[apply.by]
           source == apply.source
<1>1. /\ apply \in Conversions
      /\ apply # NoApply /\ apply.checked
  BY DEF MigrationInv, MigrationTypes, Migrate
<1>2. /\ schema = "0.1" /\ r # NoReview
      /\ Dropping(r) \subseteq apply.live
      /\ DOMAIN apply.original = Legacy
      /\ DOMAIN apply.original \subseteq DOMAIN source
      /\ DoneIn(source) = DoneIn(r.view)
      /\ \A f \in DoneIn(r.view) : apply.original[f].status = "done"
      /\ \A f \in Legacy : source[f] = r.view[f] \/ f \in returned
  BY <1>1 DEF MigrationInv, ConversionInv
<1>3. r \in Decisions
  BY <1>1, <1>2 DEF MigrationInv, MigrationTypes, Conversions
<1>4. source \in [Legacy -> FeatureShard]
  <2>1. source \in Partly(FeatureShard)
    BY <1>1 DEF Conversions
  <2>2. QED
    BY <2>1, <1>2, EverythingRead
<1>5. \A f \in DoneIn(source) : f \in earned \/ trial[f] # NoTrial
  <2>1. shard = apply.original
    BY DEF Migrate
  <2>2. DoneIn(source) \subseteq DoneIn(shard)
    BY <1>2, <2>1 DEF DoneIn
  <2>3. QED
    BY <1>2, <2>2 DEF MigrationInv, ProvisionalInv
<1>6. QED
  BY <1>2, <1>3, <1>4, <1>5

\* A step that reads or decides, and changes neither the workspace nor a trial.
LEMMA ReadingKeepsDone ==
  ASSUME MigrationInv, UNCHANGED <<schema, shard, baseline, trial, earned, agreed, doubtful>>
  PROVE  ProvisionalInv' /\ ReceiptInv'
BY DEF MigrationInv, ProvisionalInv, ReceiptInv, DoneIn

\* A step under schema 0.1 while nobody converts.
LEMMA NobodyConverts ==
  ASSUME apply = NoApply, apply' = apply PROVE ConversionInv'
BY DEF ConversionInv

LEMMA PreviewKeeps ==
  ASSUME MigrationInv, NEW o \in Operator, Preview(o) PROVE MigrationInv'
<1>1. PICK accept \in BOOLEAN, resolved \in Resolutions(shard) :
        review' = [review EXCEPT ![o] =
                     [view |-> shard, accept |-> accept, resolved |-> resolved]]
  BY DEF Preview
<1>2. resolved \in Partly([wording : Wording, retain : BOOLEAN])
  <2>1. Undecided(shard) \in SUBSET Legacy
    BY DEF Undecided
  <2>2. resolved \in [Undecided(shard) -> [wording : Wording, retain : BOOLEAN]]
    BY DEF Resolutions
  <2>3. QED
    BY <2>1, <2>2 DEF Partly
<1>3. MigrationTypes'
  BY <1>1, <1>2 DEF Preview, MigrationInv, MigrationTypes, Decisions
<1>4. ProvisionalInv' /\ ReceiptInv'
  BY ReadingKeepsDone DEF Preview
<1>5. ConversionInv'
  <2>1. apply # NoApply => review'[apply.by] = review[apply.by]
    <3>1. apply # NoApply => apply.by \in Operator /\ review[apply.by] # NoReview
      BY DEF MigrationInv, MigrationTypes, ConversionInv, Conversions
    <3>2. review[o] = NoReview
      BY DEF Preview
    <3>3. QED
      BY <3>1, <3>2, <1>1 DEF MigrationInv, MigrationTypes
  <2>2. UNCHANGED <<apply, shard, schema, returned>>
    BY DEF Preview
  <2>3. QED
    BY <2>1, <2>2 DEF MigrationInv, ConversionInv, DoneIn, Dropping
<1>6. QED
  BY <1>3, <1>4, <1>5 DEF MigrationInv

LEMMA BeginKeeps ==
  ASSUME MigrationInv, NEW o \in Operator, Begin(o) PROVE MigrationInv'
<1>1. /\ UNCHANGED <<schema, shard, carried, baseline, trial, review, earned,
                     agreed, doubtful, returned>>
      /\ apply' = [by |-> o, source |-> <<>>, original |-> <<>>, live |-> carried,
                   checked |-> FALSE]
      /\ schema = "0.1" /\ review[o] # NoReview
      /\ Dropping(review[o]) \subseteq carried
  BY DEF Begin
<1>2. <<>> \in Partly(FeatureShard) /\ DOMAIN << >> = {}
  <2>1. <<>> \in [{} -> FeatureShard]
    OBVIOUS
  <2>2. QED
    BY <2>1 DEF Partly
<1>3. Dropping(review[o]) \in SUBSET Legacy
  BY MigrationAssumption DEF Dropping
<1>4. MigrationTypes'
  <2> DEFINE nothing == << >>
  <2>1. nothing \in Partly(FeatureShard)
    BY <1>2
  <2>2. apply' = [by |-> o, source |-> nothing, original |-> nothing,
                  live |-> carried, checked |-> FALSE]
    BY <1>1
  <2>3. carried \in SUBSET Legacy
    BY DEF MigrationInv, MigrationTypes
  <2> HIDE DEF nothing
  <2>4. apply' \in Conversions
    BY <2>1, <2>2, <2>3 DEF Conversions
  <2>5. QED
    BY <1>1, <2>4 DEF MigrationInv, MigrationTypes
<1>5. ProvisionalInv' /\ ReceiptInv'
  BY <1>1, ReadingKeepsDone
<1>6. ConversionInv'
  <2>1. /\ apply'.live = carried /\ apply'.by = o /\ apply'.checked = FALSE
        /\ DOMAIN apply'.source = {} /\ DOMAIN apply'.original = {}
    BY <1>1, <1>2
  <2>2. Dropping(review'[apply'.by]) = Dropping(review[o])
    BY <2>1, <1>1 DEF Dropping, DoneIn
  <2>3. review'[apply'.by] # NoReview /\ schema' = "0.1"
    BY <2>1, <1>1
  <2>4. QED
    BY <2>1, <2>2, <2>3, <1>1 DEF ConversionInv
<1>7. QED
  BY <1>4, <1>5, <1>6 DEF MigrationInv

LEMMA ReadSourceKeeps ==
  ASSUME MigrationInv, NEW f \in Legacy, ReadSource(f) PROVE MigrationInv'
<1> DEFINE grown == [g \in DOMAIN apply.source \cup {f} |->
                       IF g = f THEN shard[f] ELSE apply.source[g]]
<1>1. /\ UNCHANGED <<schema, shard, carried, baseline, trial, review, earned,
                     agreed, doubtful, returned>>
      /\ apply' = [apply EXCEPT !.source = grown]
      /\ apply # NoApply /\ apply.checked = FALSE
      /\ f \notin DOMAIN apply.source
      /\ DOMAIN apply.source = DOMAIN apply.original
  BY DEF ReadSource, Converting, MigrationInv, MigrationTypes
<1>2. apply \in Conversions
  BY <1>1 DEF MigrationInv, MigrationTypes
<1>3. grown \in Partly(FeatureShard)
  <2>1. shard[f] \in FeatureShard /\ apply.source \in Partly(FeatureShard)
    BY <1>2 DEF MigrationInv, MigrationTypes, Conversions
  <2>2. QED
    BY <2>1, ReadOneMore
<1>4. /\ apply' \in Conversions
      /\ apply'.source = grown /\ apply'.original = apply.original
      /\ apply'.by = apply.by /\ apply'.live = apply.live /\ apply'.checked = FALSE
  <2> HIDE DEF grown
  <2>1. QED
    BY <1>1, <1>2, <1>3 DEF Conversions
<1>5. MigrationTypes'
  BY <1>1, <1>4 DEF MigrationInv, MigrationTypes
<1>6. ProvisionalInv' /\ ReceiptInv'
  BY <1>1, ReadingKeepsDone
<1>7. ConversionInv'
  <2>1. /\ DOMAIN grown = DOMAIN apply.source \cup {f}
        /\ grown[f] = shard[f]
        /\ \A g \in DOMAIN apply.source : grown[g] = apply.source[g]
    BY <1>1
  <2>2. /\ schema = "0.1" /\ review[apply.by] # NoReview
        /\ Dropping(review[apply.by]) \subseteq apply.live
        /\ \A g \in DOMAIN apply.original :
             shard[g].status = "done" => apply.original[g].status = "done"
        /\ \A g \in DOMAIN apply.source :
             apply.source[g] # review[apply.by].view[g] =>
               shard[g] # review[apply.by].view[g] \/ g \in returned
    BY <1>1 DEF MigrationInv, ConversionInv
  <2>3. review'[apply'.by] = review[apply.by]
        /\ Dropping(review'[apply'.by]) = Dropping(review[apply.by])
    BY <1>1, <1>4 DEF Dropping, DoneIn
  <2> HIDE DEF grown
  <2>4. QED
    BY <1>1, <1>4, <2>1, <2>2, <2>3 DEF ConversionInv
<1>8. QED
  BY <1>5, <1>6, <1>7 DEF MigrationInv

LEMMA ReadOriginalKeeps ==
  ASSUME MigrationInv, NEW f \in Legacy, ReadOriginal(f) PROVE MigrationInv'
<1> DEFINE grown == [g \in DOMAIN apply.original \cup {f} |->
                       IF g = f THEN shard[f] ELSE apply.original[g]]
<1>1. /\ UNCHANGED <<schema, shard, carried, baseline, trial, review, earned,
                     agreed, doubtful, returned>>
      /\ apply' = [apply EXCEPT !.original = grown]
      /\ apply # NoApply /\ apply.checked = FALSE
      /\ f \in DOMAIN apply.source
  BY DEF ReadOriginal, Converting, MigrationInv, MigrationTypes
<1>2. apply \in Conversions
  BY <1>1 DEF MigrationInv, MigrationTypes
<1>3. grown \in Partly(FeatureShard)
  <2>1. shard[f] \in FeatureShard /\ apply.original \in Partly(FeatureShard)
    BY <1>2 DEF MigrationInv, MigrationTypes, Conversions
  <2>2. QED
    BY <2>1, ReadOneMore
<1>4. /\ apply' \in Conversions
      /\ apply'.original = grown /\ apply'.source = apply.source
      /\ apply'.by = apply.by /\ apply'.live = apply.live /\ apply'.checked = FALSE
  <2> HIDE DEF grown
  <2>1. QED
    BY <1>1, <1>2, <1>3 DEF Conversions
<1>5. MigrationTypes'
  BY <1>1, <1>4 DEF MigrationInv, MigrationTypes
<1>6. ProvisionalInv' /\ ReceiptInv'
  BY <1>1, ReadingKeepsDone
<1>7. ConversionInv'
  <2>1. /\ DOMAIN grown = DOMAIN apply.original \cup {f}
        /\ grown[f] = shard[f]
        /\ \A g \in DOMAIN apply.original : g # f => grown[g] = apply.original[g]
    BY <1>1
  <2>2. /\ schema = "0.1" /\ review[apply.by] # NoReview
        /\ Dropping(review[apply.by]) \subseteq apply.live
        /\ DOMAIN apply.original \subseteq DOMAIN apply.source
        /\ \A g \in DOMAIN apply.original :
             shard[g].status = "done" => apply.original[g].status = "done"
        /\ \A g \in DOMAIN apply.source :
             apply.source[g] # review[apply.by].view[g] =>
               shard[g] # review[apply.by].view[g] \/ g \in returned
    BY <1>1 DEF MigrationInv, ConversionInv
  <2>3. review'[apply'.by] = review[apply.by]
        /\ Dropping(review'[apply'.by]) = Dropping(review[apply.by])
    BY <1>1, <1>4 DEF Dropping, DoneIn
  <2> HIDE DEF grown
  <2>4. \A g \in DOMAIN grown : shard[g].status = "done" => grown[g].status = "done"
    BY <2>1, <2>2
  <2>5. QED
    BY <1>1, <1>4, <2>1, <2>2, <2>3, <2>4 DEF ConversionInv
<1>8. QED
  BY <1>5, <1>6, <1>7 DEF MigrationInv

LEMMA RecheckKeeps ==
  ASSUME MigrationInv, Recheck PROVE MigrationInv'
<1> DEFINE r == review[apply.by]
<1>1. /\ UNCHANGED <<schema, shard, carried, baseline, trial, review, earned,
                     agreed, doubtful, returned>>
      /\ apply' = [apply EXCEPT !.checked = TRUE]
      /\ apply # NoApply /\ DOMAIN apply.original = Legacy
      /\ DoneIn(apply.source) = DoneIn(r.view) /\ shard = r.view
  BY DEF Recheck, Converting, SamePreview
<1>2. apply \in Conversions
  BY <1>1 DEF MigrationInv, MigrationTypes
<1>3. /\ apply' \in Conversions
      /\ apply'.source = apply.source /\ apply'.original = apply.original
      /\ apply'.by = apply.by /\ apply'.live = apply.live
  BY <1>1, <1>2 DEF Conversions
<1>4. MigrationTypes'
  BY <1>1, <1>3 DEF MigrationInv, MigrationTypes
<1>5. ProvisionalInv' /\ ReceiptInv'
  BY <1>1, ReadingKeepsDone
<1>6. ConversionInv'
  <2>1. /\ schema = "0.1" /\ r # NoReview
        /\ Dropping(r) \subseteq apply.live
        /\ DOMAIN apply.original \subseteq DOMAIN apply.source
        /\ \A g \in DOMAIN apply.original :
             shard[g].status = "done" => apply.original[g].status = "done"
        /\ \A g \in DOMAIN apply.source :
             apply.source[g] # r.view[g] => shard[g] # r.view[g] \/ g \in returned
    BY <1>1 DEF MigrationInv, ConversionInv
  <2>2. /\ review'[apply'.by] = r
        /\ Dropping(review'[apply'.by]) = Dropping(r)
    BY <1>1, <1>3 DEF Dropping, DoneIn
  <2>3. \A g \in DoneIn(r.view) : apply.original[g].status = "done"
    BY <1>1, <2>1 DEF DoneIn
  <2>4. \A g \in Legacy : apply.source[g] = r.view[g] \/ g \in returned
    BY <1>1, <2>1
  <2>5. DoneIn(apply'.source) = DoneIn(review'[apply'.by].view)
        /\ DoneIn(review'[apply'.by].view) = DoneIn(r.view)
    BY <1>1, <1>3, <2>2 DEF DoneIn
  <2> HIDE DEF r
  <2>6. QED
    BY <1>1, <1>3, <2>1, <2>2, <2>3, <2>4, <2>5 DEF ConversionInv
<1>7. QED
  BY <1>4, <1>5, <1>6 DEF MigrationInv

LEMMA MigrateKeeps ==
  ASSUME MigrationInv, Migrate PROVE MigrationInv'
<1> DEFINE r == review[apply.by]
           source == apply.source
           covered == IF r.accept THEN DoneIn(source) ELSE {}
<1>1. /\ r \in Decisions
      /\ source \in [Legacy -> FeatureShard]
      /\ DoneIn(source) = DoneIn(r.view)
      /\ \A f \in DoneIn(source) : f \in earned \/ trial[f] # NoTrial
  BY AtPublication
<1>2. /\ shard' = Converted(r, source)
      /\ baseline' = Receipt(r, source)
      /\ agreed' = IF ~r.accept THEN {}
                   ELSE {<<f, Converted(r, r.view)[f].wording>> : f \in Legacy}
      /\ doubtful' = {f \in Legacy : trial[f] # NoTrial}
      /\ schema' = "0.2" /\ apply' = NoApply
      /\ review' = [review EXCEPT ![apply.by] = NoReview]
      /\ UNCHANGED <<carried, trial, earned>>
  BY DEF Migrate
<1>3. MigrationTypes'
  <2>1. shard' \in [Legacy -> FeatureShard] /\ baseline' \in Baselines
    BY <1>1, <1>2, ConversionTyped
  <2>2. review' \in [Operator -> {NoReview} \cup Decisions]
    BY <1>2 DEF MigrationInv, MigrationTypes
  <2>3. QED
    BY <1>2, <2>1, <2>2 DEF MigrationInv, MigrationTypes
<1>4. ProvisionalInv' /\ ConversionInv'
  BY <1>2 DEF ProvisionalInv, ConversionInv
<1>5. ReceiptInv'
  <2>1. baseline'.authorized =
          [f \in covered |-> [wording |-> Converted(r, source)[f].wording,
                              strict |-> Converted(r, source)[f].strict]]
    BY <1>2 DEF Receipt
  <2>2. covered \subseteq Legacy
    BY DEF DoneIn
  <2>3. ASSUME NEW f \in covered
        PROVE  /\ baseline'.authorized[f].wording = Converted(r, r.view)[f].wording
               /\ <<f, Converted(r, r.view)[f].wording>> \in agreed'
               /\ f \in earned' \cup doubtful'
    <3>1. f \in Legacy /\ r.accept /\ f \in DoneIn(source)
      BY <2>2, <2>3
    <3>2. Converted(r, source)[f].wording = Converted(r, r.view)[f].wording
      BY <3>1 DEF Converted
    <3>3. baseline'.authorized[f].wording = Converted(r, source)[f].wording
      <4> HIDE DEF covered, source, r
      <4>1. QED
        BY <2>1, <2>3
    <3>4. <<f, Converted(r, r.view)[f].wording>> \in agreed'
      BY <1>2, <3>1
    <3>5. QED
      BY <1>1, <1>2, <3>1, <3>2, <3>3, <3>4
  <2>4. DOMAIN baseline'.authorized = covered
    BY <2>1
  <2> HIDE DEF covered, source, r
  <2>5. QED
    BY <2>3, <2>4 DEF ReceiptInv
<1>6. QED
  BY <1>3, <1>4, <1>5 DEF MigrationInv

LEMMA GiveUpKeeps ==
  ASSUME MigrationInv, NEW o \in Operator, GiveUp(o) PROVE MigrationInv'
<1>1. /\ UNCHANGED <<schema, shard, carried, baseline, trial, earned, agreed,
                     doubtful>>
      /\ review' = [review EXCEPT ![o] = NoReview]
      /\ IF apply # NoApply /\ apply.by = o THEN apply' = NoApply
         ELSE UNCHANGED <<apply, returned>>
  BY DEF GiveUp
<1>2. MigrationTypes'
  BY <1>1 DEF MigrationInv, MigrationTypes
<1>3. ProvisionalInv' /\ ReceiptInv'
  BY <1>1, ReadingKeepsDone
<1>4. ConversionInv'
  <2>1. CASE apply' = NoApply
    BY <2>1 DEF ConversionInv
  <2>2. CASE apply' # NoApply
    <3>1. UNCHANGED <<apply, returned>> /\ apply # NoApply /\ apply.by # o
      BY <1>1, <2>2
    <3>2. apply.by \in Operator
      BY <3>1 DEF MigrationInv, MigrationTypes, Conversions
    <3>3. review'[apply.by] = review[apply.by]
      BY <1>1, <3>1, <3>2 DEF MigrationInv, MigrationTypes
    <3>4. QED
      BY <1>1, <3>1, <3>3 DEF MigrationInv, ConversionInv, DoneIn, Dropping
  <2>3. QED
    BY <2>1, <2>2
<1>5. QED
  BY <1>2, <1>3, <1>4 DEF MigrationInv

\* A status written into a shard.
LEMMA StatusWritten ==
  ASSUME MigrationInv, NEW f \in Legacy, NEW status \in ShardStatus,
         WithStatus(f, status)
  PROVE  /\ shard' \in [Legacy -> FeatureShard]
         /\ shard'[f].status = status
         /\ \A g \in Legacy \ {f} : shard'[g] = shard[g]
<1>1. shard \in [Legacy -> FeatureShard]
  BY DEF MigrationInv, MigrationTypes
<1> DEFINE new == [shard[f] EXCEPT !.status = status]
<1>2. new \in FeatureShard /\ new.status = status
  BY <1>1 DEF FeatureShard
<1>3. shard' = [shard EXCEPT ![f] = new]
  BY DEF WithStatus
<1> HIDE DEF new
<1>4. QED
  BY <1>1, <1>2, <1>3

LEMMA MarkDoneKeeps ==
  ASSUME MigrationInv, NEW f \in Legacy, MarkDone(f) PROVE MigrationInv'
<1>1. /\ UNCHANGED <<schema, carried, baseline, review, apply, earned, agreed,
                     doubtful, returned>>
      /\ WithStatus(f, "done") /\ apply = NoApply /\ schema = "0.1"
      /\ trial[f] = NoTrial
      /\ trial' = [trial EXCEPT ![f] = [before |-> shard[f].status, marked |-> shard'[f]]]
  BY DEF MarkDone
<1>2. /\ shard' \in [Legacy -> FeatureShard]
      /\ \A g \in Legacy \ {f} : shard'[g] = shard[g]
  BY <1>1, StatusWritten DEF ShardStatus
<1>3. shard[f].status \in ShardStatus /\ shard'[f] \in FeatureShard
  BY <1>2 DEF MigrationInv, MigrationTypes, FeatureShard
<1>4. /\ trial' \in [Legacy -> {NoTrial} \cup Trials]
      /\ trial'[f].before = shard[f].status /\ trial'[f] # NoTrial
      /\ \A g \in Legacy \ {f} : trial'[g] = trial[g]
  BY <1>1, <1>3, MigrationAssumption DEF MigrationInv, MigrationTypes, Trials
<1>5. MigrationTypes'
  BY <1>1, <1>2, <1>4 DEF MigrationInv, MigrationTypes
<1>6. ProvisionalInv'
  <2>1. shard[f].status = "done" => f \in earned
    BY <1>1 DEF MigrationInv, ProvisionalInv, DoneIn
  <2>2. QED
    BY <1>1, <1>2, <1>4, <2>1 DEF MigrationInv, ProvisionalInv, DoneIn
<1>7. ConversionInv' /\ ReceiptInv'
  BY <1>1, NobodyConverts DEF MigrationInv, ReceiptInv
<1>8. QED
  BY <1>5, <1>6, <1>7 DEF MigrationInv

LEMMA PassKeeps ==
  ASSUME MigrationInv, NEW f \in Legacy, Pass(f) PROVE MigrationInv'
<1>1. /\ UNCHANGED <<schema, shard, carried, baseline, review, apply, agreed,
                     doubtful, returned>>
      /\ apply = NoApply /\ earned' = earned \cup {f}
      /\ trial' = [trial EXCEPT ![f] = NoTrial]
  BY DEF Pass
<1>2. MigrationTypes'
  BY <1>1 DEF MigrationInv, MigrationTypes
<1>3. ProvisionalInv'
  <2>1. \A g \in Legacy \ {f} : trial'[g] = trial[g]
    BY <1>1 DEF MigrationInv, MigrationTypes
  <2>2. QED
    BY <1>1, <2>1 DEF MigrationInv, ProvisionalInv, DoneIn
<1>4. ConversionInv' /\ ReceiptInv'
  BY <1>1, NobodyConverts DEF MigrationInv, ReceiptInv
<1>5. QED
  BY <1>2, <1>3, <1>4 DEF MigrationInv

LEMMA TakeBackKeeps ==
  ASSUME MigrationInv, NEW f \in Legacy, TakeBack(f) PROVE MigrationInv'
<1>1. /\ UNCHANGED <<schema, carried, baseline, review, apply, earned, agreed,
                     doubtful, returned>>
      /\ apply = NoApply /\ trial[f] # NoTrial
      /\ IF shard[f].status = "done" THEN WithStatus(f, trial[f].before)
         ELSE UNCHANGED shard
      /\ trial' = [trial EXCEPT ![f] = NoTrial]
  BY DEF TakeBack
<1>2. trial[f].before \in ShardStatus
  BY <1>1 DEF MigrationInv, MigrationTypes, Trials
<1>3. /\ shard' \in [Legacy -> FeatureShard]
      /\ shard'[f].status = "done" =>
           shard[f].status = "done" /\ trial[f].before = "done"
      /\ \A g \in Legacy \ {f} : shard'[g] = shard[g]
  <2>1. CASE shard[f].status = "done"
    BY <1>1, <1>2, <2>1, StatusWritten
  <2>2. CASE shard[f].status # "done"
    BY <1>1, <2>2 DEF MigrationInv, MigrationTypes
  <2>3. QED
    BY <2>1, <2>2
<1>4. /\ trial' \in [Legacy -> {NoTrial} \cup Trials]
      /\ trial'[f] = NoTrial
      /\ \A g \in Legacy \ {f} : trial'[g] = trial[g]
  BY <1>1 DEF MigrationInv, MigrationTypes
<1>5. MigrationTypes'
  BY <1>1, <1>3, <1>4 DEF MigrationInv, MigrationTypes
<1>6. ProvisionalInv'
  <2>1. schema = "0.1" /\ shard'[f].status = "done" => f \in earned
    BY <1>1, <1>3 DEF MigrationInv, ProvisionalInv, DoneIn
  <2>2. QED
    BY <1>1, <1>3, <1>4, <2>1 DEF MigrationInv, ProvisionalInv, DoneIn
<1>7. ConversionInv' /\ ReceiptInv'
  BY <1>1, NobodyConverts DEF MigrationInv, ReceiptInv
<1>8. QED
  BY <1>5, <1>6, <1>7 DEF MigrationInv

LEMMA CompleteUnder02Keeps ==
  ASSUME MigrationInv, NEW f \in Legacy, CompleteUnder02(f) PROVE MigrationInv'
<1>1. /\ UNCHANGED <<schema, carried, trial, baseline, review, apply, earned,
                     agreed, doubtful, returned>>
      /\ apply = NoApply /\ schema = "0.2" /\ WithStatus(f, "done")
  BY DEF CompleteUnder02
<1>2. shard' \in [Legacy -> FeatureShard]
  BY <1>1, StatusWritten DEF ShardStatus
<1>3. MigrationTypes'
  BY <1>1, <1>2 DEF MigrationInv, MigrationTypes
<1>4. ProvisionalInv' /\ ConversionInv' /\ ReceiptInv'
  BY <1>1, NobodyConverts DEF MigrationInv, ProvisionalInv, ReceiptInv
<1>5. QED
  BY <1>3, <1>4 DEF MigrationInv

\* A person with an editor never makes a feature `done`.
LEMMA TouchClaimsNothing ==
  ASSUME MigrationInv, NEW f \in Legacy, Touch(f)
  PROVE  /\ shard' \in [Legacy -> FeatureShard]
         /\ \A g \in Legacy : shard'[g].status = "done" => shard[g].status = "done"
         /\ \A g \in Legacy \ {f} : shard'[g] = shard[g]
<1>1. shard \in [Legacy -> FeatureShard]
  BY DEF MigrationInv, MigrationTypes
<1>2. CASE \E w \in Wording : shard' = [shard EXCEPT ![f].wording = w]
  <2>1. PICK w \in Wording : shard' = [shard EXCEPT ![f].wording = w]
    BY <1>2
  <2> DEFINE new == [shard[f] EXCEPT !.wording = w]
  <2>2. new \in FeatureShard /\ new.status = shard[f].status
    BY <1>1 DEF FeatureShard
  <2>3. shard' = [shard EXCEPT ![f] = new]
    BY <2>1
  <2> HIDE DEF new
  <2>4. QED
    BY <1>1, <2>2, <2>3
<1>3. CASE \E w \in Rest : shard' = [shard EXCEPT ![f].rest = w]
  <2>1. PICK w \in Rest : shard' = [shard EXCEPT ![f].rest = w]
    BY <1>3
  <2> DEFINE new == [shard[f] EXCEPT !.rest = w]
  <2>2. new \in FeatureShard /\ new.status = shard[f].status
    BY <1>1 DEF FeatureShard
  <2>3. shard' = [shard EXCEPT ![f] = new]
    BY <2>1
  <2> HIDE DEF new
  <2>4. QED
    BY <1>1, <2>2, <2>3
<1>4. CASE WithStatus(f, "in_progress")
  BY <1>4, StatusWritten DEF ShardStatus
<1>5. QED
  BY <1>2, <1>3, <1>4 DEF Touch

LEMMA TouchKeeps ==
  ASSUME MigrationInv, NEW f \in Legacy, Touch(f) PROVE MigrationInv'
<1>1. /\ UNCHANGED <<schema, carried, trial, baseline, review, apply, agreed,
                     doubtful>>
      /\ earned' = IF schema = "0.1" THEN earned \cap DoneIn(shard') ELSE earned
      /\ returned' = IF apply # NoApply /\ shard'[f] = review[apply.by].view[f]
                     THEN returned \cup {f} ELSE returned
  BY DEF Touch
<1>2. /\ shard' \in [Legacy -> FeatureShard]
      /\ \A g \in Legacy : shard'[g].status = "done" => shard[g].status = "done"
      /\ \A g \in Legacy \ {f} : shard'[g] = shard[g]
  BY TouchClaimsNothing
<1>3. MigrationTypes'
  BY <1>1, <1>2 DEF MigrationInv, MigrationTypes
<1>4. ProvisionalInv'
  <2>1. DoneIn(shard') \subseteq DoneIn(shard)
    BY <1>2 DEF DoneIn
  <2>2. QED
    BY <1>1, <2>1 DEF MigrationInv, ProvisionalInv
<1>5. ConversionInv'
  <2>1. SUFFICES ASSUME apply # NoApply PROVE ConversionInv'
    BY <1>1 DEF ConversionInv
  <2> DEFINE r == review[apply.by]
  <2>2. /\ schema = "0.1" /\ r # NoReview
        /\ Dropping(r) \subseteq apply.live
        /\ DOMAIN apply.original \subseteq DOMAIN apply.source
        /\ \A g \in DOMAIN apply.original :
             shard[g].status = "done" => apply.original[g].status = "done"
        /\ \A g \in DOMAIN apply.source :
             apply.source[g] # r.view[g] => shard[g] # r.view[g] \/ g \in returned
        /\ apply.checked =>
             /\ DOMAIN apply.original = Legacy
             /\ DoneIn(apply.source) = DoneIn(r.view)
             /\ \A g \in DoneIn(r.view) : apply.original[g].status = "done"
             /\ \A g \in Legacy : apply.source[g] = r.view[g] \/ g \in returned
    BY <2>1 DEF MigrationInv, ConversionInv
  <2>3. DOMAIN apply.source \subseteq Legacy
    BY <2>1, EverythingRead DEF MigrationInv, MigrationTypes, Conversions
  <2>4. returned \subseteq returned' /\ (shard'[f] = r.view[f] => f \in returned')
    BY <1>1, <2>1
  <2>5. \A g \in DOMAIN apply.source :
          apply.source[g] # r.view[g] => shard'[g] # r.view[g] \/ g \in returned'
    BY <1>2, <2>2, <2>3, <2>4
  <2>6. \A g \in DOMAIN apply.original :
          shard'[g].status = "done" => apply.original[g].status = "done"
    BY <1>2, <2>2, <2>3
  <2>7. /\ review'[apply'.by] = r /\ Dropping(review'[apply'.by]) = Dropping(r)
        /\ DoneIn(review'[apply'.by].view) = DoneIn(r.view)
        /\ DoneIn(apply'.source) = DoneIn(apply.source)
    BY <1>1 DEF Dropping, DoneIn
  <2> HIDE DEF r
  <2>8. QED
    BY <1>1, <2>2, <2>4, <2>5, <2>6, <2>7 DEF ConversionInv
<1>6. ReceiptInv'
  <2>1. baseline # NoBaseline => earned' = earned
    BY <1>1 DEF MigrationInv, ProvisionalInv
  <2>2. QED
    BY <1>1, <2>1 DEF MigrationInv, ReceiptInv
<1>7. QED
  BY <1>3, <1>4, <1>5, <1>6 DEF MigrationInv

LEMMA RetitleKeeps ==
  ASSUME MigrationInv, NEW f \in Legacy, Retitle(f) PROVE MigrationInv'
<1>1. /\ UNCHANGED <<schema, shard, trial, baseline, review, apply, earned,
                     agreed, doubtful, returned>>
      /\ carried' \in SUBSET Legacy
  BY DEF Retitle, MigrationInv, MigrationTypes
<1>2. QED
  BY <1>1 DEF MigrationInv, MigrationTypes, ProvisionalInv, ConversionInv, ReceiptInv,
              DoneIn, Dropping

LEMMA MigrationStep ==
  ASSUME MigrationInv, [MigrationNext]_migrationVars
  PROVE  MigrationInv'
<1>1. CASE GitCommit \/ UNCHANGED migrationVars
  <2>1. UNCHANGED <<schema, shard, carried, trial, baseline, review, apply, earned,
                    agreed, doubtful, returned>>
    BY <1>1 DEF GitCommit, migrationVars
  <2>2. QED
    BY <2>1 DEF MigrationInv, MigrationTypes, ProvisionalInv, ConversionInv, ReceiptInv,
                DoneIn, Dropping
<1>2. QED
  BY <1>1, PreviewKeeps, BeginKeeps, GiveUpKeeps, ReadSourceKeeps, ReadOriginalKeeps,
     RecheckKeeps, MigrateKeeps, MarkDoneKeeps, PassKeeps, TakeBackKeeps,
     CompleteUnder02Keeps, TouchKeeps, RetitleKeeps DEF MigrationNext

LEMMA MigrationKeepsInv == MigrationSpec => []MigrationInv
BY MigrationInitially, MigrationStep, PTL DEF MigrationSpec

\* The receipt of a migration stands in only for what the operator accepted, of
\* features that were done for good (migrationBaselineCandidatesFromWorkspace).
THEOREM ReceiptStandsInForTheEarned == MigrationSpec => []StandsInForTheEarned
<1>1. MigrationInv => StandsInForTheEarned
  BY DEF MigrationInv, ReceiptInv, StandsInForTheEarned, StandsIn, Strictly
<1>2. QED
  BY <1>1, MigrationKeepsInv, PTL

\* A migration writes what its operator reviewed (applyMigration).
THEOREM MigrationConvertsWhatWasReviewed == MigrationSpec => ConvertsWhatWasReviewed
<1>1. ASSUME MigrationInv, [MigrationNext]_migrationVars, schema' # schema
      PROVE  Migrate
  BY <1>1 DEF MigrationNext, migrationVars, Preview, Begin, GiveUp, ReadSource,
              ReadOriginal, MarkDone, Pass, TakeBack, CompleteUnder02, Touch, Retitle,
              Recheck, GitCommit
<1>2. ASSUME MigrationInv, Migrate, NEW f \in Legacy
      PROVE  LET r == review[apply.by] IN
             shard'[f] = Converted(r, r.view)[f] \/ f \in returned
  <2>1. LET r == review[apply.by] IN
        /\ shard' = Converted(r, apply.source)
        /\ apply.source[f] = r.view[f] \/ f \in returned
    BY <1>2, AtPublication DEF Migrate
  <2>2. QED
    BY <2>1 DEF Converted
<1>3. MigrationInv /\ [MigrationNext]_migrationVars =>
        [schema' # schema =>
           \A f \in Legacy :
             \/ shard'[f] = Converted(review[apply.by], review[apply.by].view)[f]
             \/ f \in returned]_migrationVars
  BY <1>1, <1>2
<1>4. QED
  BY <1>3, MigrationKeepsInv, PTL DEF MigrationSpec, ConvertsWhatWasReviewed

\* A completed criterion keeps a test through the migration
\* (requireLiveProofForCompletedMigrationDrops, selectCriterionTestBindings).
THEOREM MigrationKeepsProofs == MigrationSpec => DoneKeepsItsProof
<1>1. ASSUME MigrationInv, [MigrationNext]_migrationVars, schema' # schema
      PROVE  Migrate
  BY <1>1 DEF MigrationNext, migrationVars, Preview, Begin, GiveUp, ReadSource,
              ReadOriginal, MarkDone, Pass, TakeBack, CompleteUnder02, Touch, Retitle,
              Recheck, GitCommit
<1>2. ASSUME MigrationInv, Migrate, NEW f \in Historic \cap DoneIn(shard')
      PROVE  Selected(f)' # "none"
  <2> DEFINE r == review[apply.by]
             source == apply.source
  <2>1. /\ r \in Decisions
        /\ source \in [Legacy -> FeatureShard]
        /\ DoneIn(source) = DoneIn(r.view)
        /\ Dropping(r) \subseteq apply.live
    BY <1>2, AtPublication
  <2>2. /\ shard' = Converted(r, source) /\ baseline' = Receipt(r, source)
        /\ carried' = carried /\ ProofUnmoved(r)
    BY <1>2 DEF Migrate
  <2>3. f \in Legacy /\ f \in Historic /\ f \in DoneIn(r.view)
    <3>1. f \in Legacy /\ shard'[f].status = source[f].status
      BY <1>2, <2>2, MigrationAssumption DEF Converted
    <3>2. QED
      BY <1>2, <2>1, <3>1 DEF DoneIn
  <2>4. baseline' # NoBaseline
    <3>1. baseline' \in Baselines
      BY <2>1, <2>2, ConversionTyped
    <3>2. NoBaseline \notin Baselines
      BY MigrationAssumption
    <3>3. QED
      BY <3>1, <3>2
  <2>5. CASE f \in carried
    BY <2>2, <2>5 DEF Selected
  <2>6. CASE f \in DOMAIN r.resolved /\ r.resolved[f].retain
    <3>1. shard'[f].strict /\ shard'[f].wording = r.resolved[f].wording
      BY <2>2, <2>3, <2>6 DEF Converted
    <3>2. f \in DOMAIN baseline'.retained /\ baseline'.retained[f] = r.resolved[f].wording
      BY <2>2, <2>3, <2>6 DEF Receipt, Converted
    <3>3. StillReviewed(f)'
      BY <3>1, <3>2 DEF StillReviewed
    <3>4. QED
      BY <2>4, <3>3 DEF Selected
  <2>7. CASE f \in DOMAIN r.resolved /\ ~r.resolved[f].retain
    <3>1. f \in Dropping(r)
      BY <2>3, <2>7 DEF Dropping
    <3>2. f \in carried
      BY <2>1, <2>2, <3>1 DEF ProofUnmoved
    <3>3. QED
      BY <2>2, <3>2 DEF Selected
  <2>8. CASE f \notin DOMAIN r.resolved
    <3>1. ~shard'[f].strict /\ shard'[f].wording = r.view[f].wording
      BY <2>2, <2>3, <2>8 DEF Converted
    <3>2. baseline'.legacy[f] = r.view[f].wording
      BY <2>2, <2>3 DEF Receipt
    <3>3. StillLegacy(f)'
      BY <3>1, <3>2 DEF StillLegacy
    <3>4. QED
      BY <2>3, <2>4, <3>3 DEF Selected
  <2>9. QED
    BY <2>6, <2>7, <2>8
<1>3. MigrationInv /\ [MigrationNext]_migrationVars =>
        [schema' # schema =>
           \A f \in Historic \cap DoneIn(shard') : Selected(f)' # "none"]_migrationVars
  BY <1>1, <1>2
<1>4. QED
  BY <1>3, MigrationKeepsInv, PTL DEF MigrationSpec, DoneKeepsItsProof
-----------------------------------------------------------------------------
(* Sign-off                                                                *)

\* A receipt over contents that its signer could see when confirming: what it
\* was sealed with was expected in one world that looked like that.
Backed(r, seen) ==
  \E w : /\ seen = Seen(w, r.claim, r.about)
         /\ r.sealed = Expected(w, r.claim, r.about)
         /\ r.sealed # Unresolved
         /\ r.claim = "uat" => r.matrix = Current(w, r.about)

Sound(s) == ~s.moved => Backed(s.receipt, s.seen)

\* What a signer has confirmed is what is there unless it is marked as moved.
DeskOK(d, w) ==
  d # NoDesk =>
    /\ d.phase \in {"confirmed", "compiled"} =>
         /\ {"phase", "moved"} \subseteq DOMAIN d
         /\ ~d.moved => d.seen = Seen(w, d.says.claim, d.says.about)
    /\ d.phase = "compiled" /\ ~d.moved => d.spec = Part(w, SpecPlace)
    /\ d.phase = "signed" => Sound(d)

OnFile == receipts \subseteq {s.receipt : s \in signed}

SignInv ==
  /\ world = [x \in Place |-> world[x]]
  /\ desk = [p \in Signer |-> desk[p]]
  /\ OnFile
  /\ \A s \in signed : Sound(s)
  /\ \A p \in Signer : DeskOK(desk[p], world)

LEMMA SameParts ==
  ASSUME NEW w, NEW v, NEW S, NEW T, Part(w, S) = Part(v, T)
  PROVE  S = T /\ \A x \in S : w[x] = v[x]
<1>1. DOMAIN Part(w, S) = S /\ DOMAIN Part(v, T) = T
  BY DEF Part
<1>2. \A x \in S : Part(w, S)[x] = w[x] /\ Part(v, S)[x] = v[x]
  BY DEF Part
<1>3. QED
  BY <1>1, <1>2

LEMMA PartsAgree ==
  ASSUME NEW w, NEW v, NEW S, \A x \in S : w[x] = v[x]
  PROVE  Part(w, S) = Part(v, S)
BY DEF Part

LEMMA SameTags ==
  ASSUME NEW a, NEW S, NEW T, {a} \X S = {a} \X T
  PROVE  S = T
<1>1. \A x : x \in S <=> <<a, x>> \in {a} \X S
  OBVIOUS
<1>2. \A x : x \in T <=> <<a, x>> \in {a} \X T
  OBVIOUS
<1>3. QED
  BY <1>1, <1>2

\* Same code, same feature, same prerequisites.
LEMMA SameRuntime ==
  ASSUME NEW w, NEW v, NEW f, RuntimeClosure(w, f) = RuntimeClosure(v, f)
  PROVE  /\ Reached(w, f) = Reached(v, f)
         /\ \A g \in Reached(w, f) : w[<<"code", g>>] = v[<<"code", g>>]
<1> DEFINE S == {"code"} \X Reached(w, f)
           T == {"code"} \X Reached(v, f)
<1>1. S = T /\ \A x \in S : w[x] = v[x]
  <2>1. Part(w, S) = Part(v, T)
    BY DEF RuntimeClosure
  <2>2. QED
    BY <2>1, SameParts
<1>2. Reached(w, f) = Reached(v, f)
  BY <1>1, SameTags
<1>3. \A g \in Reached(w, f) : <<"code", g>> \in S
  OBVIOUS
<1>4. QED
  BY <1>1, <1>2, <1>3

LEMMA SameAuthors ==
  ASSUME NEW w, NEW v, NEW f, AuthorMapping(w, f) = AuthorMapping(v, f)
  PROVE  \A g \in Reached(w, f) : w[<<"author", g>>] = v[<<"author", g>>]
<1> DEFINE S == {"author"} \X Reached(w, f)
           T == {"author"} \X Reached(v, f)
<1>1. \A x \in S : w[x] = v[x]
  <2>1. Part(w, S) = Part(v, T)
    BY DEF AuthorMapping
  <2>2. QED
    BY <2>1, SameParts
<1>2. \A g \in Reached(w, f) : <<"author", g>> \in S
  OBVIOUS
<1>3. QED
  BY <1>1, <1>2

LEMMA SameTests ==
  ASSUME NEW w, NEW v, NEW S, NEW T,
         VerificationClosure(w, S) = VerificationClosure(v, T)
  PROVE  \A c \in S : w[<<"tests", c>>] = v[<<"tests", c>>]
<1> DEFINE A == {"tests"} \X S
           B == {"tests"} \X T
<1>1. \A x \in A : w[x] = v[x]
  <2>1. Part(w, A) = Part(v, B)
    BY DEF VerificationClosure
  <2>2. QED
    BY <2>1, SameParts
<1>2. \A c \in S : <<"tests", c>> \in A
  OBVIOUS
<1>3. QED
  BY <1>1, <1>2

\* The places somebody relies on, one kind at a time.
LEMMA ReliedOn ==
  ASSUME NEW w, NEW claim, NEW about
  PROVE  LET f == SubjectFeature(claim, about)
             cs == SubjectClauses(claim, about)
         IN /\ Relied(w, claim, about) =
                 {<<"prose", f>>} \cup ({"clause"} \X cs)
                   \cup ({"tests"} \X (cs \cap Current(w, f)))
                   \cup ({"code", "author"} \X Reached(w, f))
                   \cup (IF claim = "uat" THEN {<<"needs", f>>} ELSE {})
            /\ \A g : <<"code", g>> \in Relied(w, claim, about) <=> g \in Reached(w, f)
            /\ \A c : <<"tests", c>> \in Relied(w, claim, about) <=> c \in cs \cap Current(w, f)
<1> DEFINE f == SubjectFeature(claim, about)
           cs == SubjectClauses(claim, about)
<1>1. Relied(w, claim, about) =
        {<<"prose", f>>} \cup ({"clause"} \X cs)
          \cup ({"tests"} \X (cs \cap Current(w, f)))
          \cup ({"code", "author"} \X Reached(w, f))
          \cup (IF claim = "uat" THEN {<<"needs", f>>} ELSE {})
  BY DEF Relied
<1> HIDE DEF f, cs
<1>2. /\ \A g : <<"code", g>> \in Relied(w, claim, about) <=> g \in Reached(w, f)
      /\ \A c : <<"tests", c>> \in Relied(w, claim, about) <=> c \in cs \cap Current(w, f)
  BY <1>1
<1>3. QED
  BY <1>1, <1>2 DEF f, cs

\* What was expected tells everything the signer relied on.
LEMMA ExpectedShowsSeen ==
  ASSUME NEW w, NEW v, NEW claim \in {"audit", "uat"}, NEW about,
         claim = "audit" => about \in Clause,
         Expected(w, claim, about) = Expected(v, claim, about),
         Expected(w, claim, about) # Unresolved
  PROVE  Seen(w, claim, about) = Seen(v, claim, about)
<1> DEFINE f == SubjectFeature(claim, about)
           cs == SubjectClauses(claim, about)
<1>0. /\ claim = "uat" => f = about /\ cs = {c \in Clause : Owner[c] = f}
      /\ claim = "audit" => f = Owner[about] /\ cs = {about}
  BY DEF SubjectFeature, SubjectClauses
<1> HIDE DEF f, cs
<1>1. /\ RuntimeClosure(w, f) = RuntimeClosure(v, f)
      /\ AuthorMapping(w, f) = AuthorMapping(v, f)
      /\ claim = "audit" =>
           /\ w[<<"clause", about>>] # Removed /\ v[<<"clause", about>>] # Removed
           /\ SubjectClosure(w, about) = SubjectClosure(v, about)
           /\ VerificationClosure(w, {about}) = VerificationClosure(v, {about})
      /\ claim = "uat" =>
           /\ ContractClosure(w, about) = ContractClosure(v, about)
           /\ VerificationClosure(w, Current(w, about)) = VerificationClosure(v, Current(v, about))
  <2>1. CASE claim = "uat"
    <3>1. /\ Expected(w, claim, about) =
               [subject |-> ContractClosure(w, about),
                inputs |-> VerificationClosure(w, Current(w, about)),
                runtime |-> RuntimeClosure(w, about),
                authors |-> AuthorMapping(w, about)]
          /\ Expected(v, claim, about) =
               [subject |-> ContractClosure(v, about),
                inputs |-> VerificationClosure(v, Current(v, about)),
                runtime |-> RuntimeClosure(v, about),
                authors |-> AuthorMapping(v, about)]
      BY <2>1 DEF Expected
    <3>2. QED
      BY <1>0, <2>1, <3>1
  <2>2. CASE claim = "audit"
    <3>1. w[<<"clause", about>>] # Removed /\ v[<<"clause", about>>] # Removed
      BY <2>2 DEF Expected
    <3>2. /\ Expected(w, claim, about) =
               [subject |-> SubjectClosure(w, about),
                inputs |-> VerificationClosure(w, {about}),
                runtime |-> RuntimeClosure(w, Owner[about]),
                authors |-> AuthorMapping(w, Owner[about])]
          /\ Expected(v, claim, about) =
               [subject |-> SubjectClosure(v, about),
                inputs |-> VerificationClosure(v, {about}),
                runtime |-> RuntimeClosure(v, Owner[about]),
                authors |-> AuthorMapping(v, Owner[about])]
      BY <2>2, <3>1 DEF Expected
    <3>3. QED
      BY <1>0, <2>2, <3>1, <3>2
  <2>3. QED
    BY <2>1, <2>2
<1>2. /\ Reached(w, f) = Reached(v, f)
      /\ \A g \in Reached(w, f) : w[<<"code", g>>] = v[<<"code", g>>]
      /\ \A g \in Reached(w, f) : w[<<"author", g>>] = v[<<"author", g>>]
  BY <1>1, SameRuntime, SameAuthors
<1>3. /\ w[<<"prose", f>>] = v[<<"prose", f>>]
      /\ claim = "uat" => w[<<"needs", f>>] = v[<<"needs", f>>]
      /\ \A c \in cs : w[<<"clause", c>>] = v[<<"clause", c>>]
      /\ cs \cap Current(w, f) = cs \cap Current(v, f)
      /\ \A c \in cs \cap Current(w, f) : w[<<"tests", c>>] = v[<<"tests", c>>]
  <2>1. CASE claim = "uat"
    <3> DEFINE S == {<<"prose", f>>, <<"needs", f>>} \cup ({"clause"} \X Current(w, f))
               T == {<<"prose", f>>, <<"needs", f>>} \cup ({"clause"} \X Current(v, f))
    <3>1. Part(w, S) = Part(v, T)
      BY <1>0, <1>1, <2>1 DEF ContractClosure
    <3>2. S = T /\ \A x \in S : w[x] = v[x]
      BY <3>1, SameParts
    <3>3. \A c : /\ c \in Current(w, f) <=> <<"clause", c>> \in S
                 /\ c \in Current(v, f) <=> <<"clause", c>> \in T
      OBVIOUS
    <3>4. Current(w, f) = Current(v, f)
      BY <3>2, <3>3
    <3>5. /\ w[<<"prose", f>>] = v[<<"prose", f>>]
          /\ w[<<"needs", f>>] = v[<<"needs", f>>]
          /\ \A c \in Current(w, f) : w[<<"clause", c>>] = v[<<"clause", c>>]
      BY <3>2, <3>3
    <3> HIDE DEF S, T
    <3>6. \A c \in cs : w[<<"clause", c>>] = v[<<"clause", c>>]
      <4>1. ASSUME NEW c \in cs PROVE w[<<"clause", c>>] = v[<<"clause", c>>]
        <5>1. /\ c \in Current(w, f) <=> w[<<"clause", c>>] # Removed
              /\ c \in Current(v, f) <=> v[<<"clause", c>>] # Removed
          BY <1>0, <2>1, <4>1 DEF Current
        <5>2. QED
          BY <3>4, <3>5, <4>1, <5>1
      <4>2. QED
        BY <4>1
    <3>7. \A c \in Current(w, f) : w[<<"tests", c>>] = v[<<"tests", c>>]
      <4>1. VerificationClosure(w, Current(w, f)) = VerificationClosure(v, Current(v, f))
        BY <1>0, <1>1, <2>1
      <4>2. QED
        <5>1. ASSUME NEW c \in Current(w, f) PROVE w[<<"tests", c>>] = v[<<"tests", c>>]
          BY <4>1, <5>1, SameTests
        <5>2. QED
          BY <5>1
    <3>8. QED
      BY <3>4, <3>5, <3>6, <3>7
  <2>2. CASE claim = "audit"
    <3> DEFINE S == {<<"prose", f>>, <<"clause", about>>}
    <3>1. Part(w, S) = Part(v, S)
      BY <1>0, <1>1, <2>2 DEF SubjectClosure
    <3>2. \A x \in S : w[x] = v[x]
      BY <3>1, SameParts
    <3>3. \A c \in {about} : w[<<"tests", c>>] = v[<<"tests", c>>]
      BY <1>1, <2>2, SameTests
    <3>4. cs \cap Current(w, f) = cs \cap Current(v, f)
      BY <1>0, <1>1, <2>2 DEF Current
    <3>5. QED
      BY <1>0, <2>2, <3>2, <3>3, <3>4
  <2>3. QED
    BY <2>1, <2>2
<1>6. /\ Relied(w, claim, about) =
           {<<"prose", f>>} \cup ({"clause"} \X cs)
             \cup ({"tests"} \X (cs \cap Current(w, f)))
             \cup ({"code", "author"} \X Reached(w, f))
             \cup (IF claim = "uat" THEN {<<"needs", f>>} ELSE {})
      /\ Relied(v, claim, about) =
           {<<"prose", f>>} \cup ({"clause"} \X cs)
             \cup ({"tests"} \X (cs \cap Current(v, f)))
             \cup ({"code", "author"} \X Reached(v, f))
             \cup (IF claim = "uat" THEN {<<"needs", f>>} ELSE {})
  BY ReliedOn DEF f, cs
<1>7. Relied(w, claim, about) = Relied(v, claim, about)
  BY <1>2, <1>3, <1>6
<1>8. \A x \in Relied(w, claim, about) : w[x] = v[x]
  <2> SUFFICES ASSUME NEW x \in Relied(w, claim, about) PROVE w[x] = v[x]
    OBVIOUS
  <2>1. CASE x = <<"prose", f>>
    BY <1>3, <2>1
  <2>2. CASE x \in {"clause"} \X cs
    BY <1>3, <2>2
  <2>3. CASE x \in {"tests"} \X (cs \cap Current(w, f))
    BY <1>3, <2>3
  <2>4. CASE x \in {"code", "author"} \X Reached(w, f)
    BY <1>2, <2>4
  <2>5. CASE claim = "uat" /\ x = <<"needs", f>>
    BY <1>3, <2>5
  <2>6. QED
    BY <1>6, <2>1, <2>2, <2>3, <2>4, <2>5
<1>9. QED
  BY <1>7, <1>8, PartsAgree DEF Seen

\* And what the signer relied on determines what is expected.
LEMMA SeenShowsExpected ==
  ASSUME NEW w, NEW v, NEW claim \in {"audit", "uat"}, NEW about,
         claim = "audit" => about \in Clause,
         Seen(w, claim, about) = Seen(v, claim, about)
  PROVE  /\ Expected(w, claim, about) = Expected(v, claim, about)
         /\ claim = "uat" => Current(w, about) = Current(v, about)
<1> DEFINE f == SubjectFeature(claim, about)
           cs == SubjectClauses(claim, about)
<1>0. /\ claim = "uat" => f = about /\ cs = {c \in Clause : Owner[c] = f}
      /\ claim = "audit" => f = Owner[about] /\ cs = {about}
  BY DEF SubjectFeature, SubjectClauses
<1> HIDE DEF f, cs
<1>1. /\ Relied(w, claim, about) = Relied(v, claim, about)
      /\ \A x \in Relied(w, claim, about) : w[x] = v[x]
  BY SameParts DEF Seen
<1>4. /\ Relied(w, claim, about) =
           {<<"prose", f>>} \cup ({"clause"} \X cs)
             \cup ({"tests"} \X (cs \cap Current(w, f)))
             \cup ({"code", "author"} \X Reached(w, f))
             \cup (IF claim = "uat" THEN {<<"needs", f>>} ELSE {})
      /\ \A g : <<"code", g>> \in Relied(w, claim, about) <=> g \in Reached(w, f)
      /\ \A g : <<"code", g>> \in Relied(v, claim, about) <=> g \in Reached(v, f)
      /\ \A c : <<"tests", c>> \in Relied(w, claim, about) <=> c \in cs \cap Current(w, f)
      /\ \A c : <<"tests", c>> \in Relied(v, claim, about) <=> c \in cs \cap Current(v, f)
  BY ReliedOn DEF f, cs
<1>5. Reached(w, f) = Reached(v, f)
  BY <1>1, <1>4
<1>6. cs \cap Current(w, f) = cs \cap Current(v, f)
  BY <1>1, <1>4
<1>7. /\ <<"prose", f>> \in Relied(w, claim, about)
      /\ claim = "uat" => <<"needs", f>> \in Relied(w, claim, about)
      /\ \A c \in cs : <<"clause", c>> \in Relied(w, claim, about)
      /\ \A c \in cs \cap Current(w, f) : <<"tests", c>> \in Relied(w, claim, about)
      /\ \A g \in Reached(w, f) : /\ <<"code", g>> \in Relied(w, claim, about)
                                  /\ <<"author", g>> \in Relied(w, claim, about)
  BY <1>4
<1>8. /\ w[<<"prose", f>>] = v[<<"prose", f>>]
      /\ claim = "uat" => w[<<"needs", f>>] = v[<<"needs", f>>]
      /\ \A c \in cs : w[<<"clause", c>>] = v[<<"clause", c>>]
      /\ \A c \in cs \cap Current(w, f) : w[<<"tests", c>>] = v[<<"tests", c>>]
      /\ \A g \in Reached(w, f) : /\ w[<<"code", g>>] = v[<<"code", g>>]
                                  /\ w[<<"author", g>>] = v[<<"author", g>>]
  BY <1>1, <1>7
<1>9. RuntimeClosure(w, f) = RuntimeClosure(v, f) /\ AuthorMapping(w, f) = AuthorMapping(v, f)
  <2>1. \A x \in {"code"} \X Reached(w, f) : w[x] = v[x]
    <3>1. \A x \in {"code"} \X Reached(w, f) : \E g \in Reached(w, f) : x = <<"code", g>>
      OBVIOUS
    <3>2. QED
      BY <1>8, <3>1
  <2>2. \A x \in {"author"} \X Reached(w, f) : w[x] = v[x]
    <3>1. \A x \in {"author"} \X Reached(w, f) : \E g \in Reached(w, f) : x = <<"author", g>>
      OBVIOUS
    <3>2. QED
      BY <1>8, <3>1
  <2>3. QED
    BY <1>5, <2>1, <2>2, PartsAgree DEF RuntimeClosure, AuthorMapping
<1>10. CASE claim = "uat"
  <2>1. f = about /\ cs = {c \in Clause : Owner[c] = f}
    BY <1>0, <1>10
  <2>2. Current(w, f) = Current(v, f) /\ cs \cap Current(w, f) = Current(w, f)
    BY <1>6, <2>1 DEF Current
  <2>3. \A x \in {<<"prose", f>>, <<"needs", f>>} \cup ({"clause"} \X Current(w, f)) : w[x] = v[x]
    BY <1>8, <1>10, <2>1 DEF Current
  <2>4. \A x \in {"tests"} \X Current(w, f) : w[x] = v[x]
    BY <1>8, <2>2
  <2>5. ContractClosure(w, f) = ContractClosure(v, f)
    BY <2>2, <2>3, PartsAgree DEF ContractClosure
  <2>6. VerificationClosure(w, Current(w, f)) = VerificationClosure(v, Current(v, f))
    BY <2>2, <2>4, PartsAgree DEF VerificationClosure
  <2>7. QED
    BY <1>9, <1>10, <2>1, <2>2, <2>5, <2>6 DEF Expected
<1>11. CASE claim = "audit"
  <2>1. f = Owner[about] /\ cs = {about}
    BY <1>0, <1>11
  <2>2. w[<<"clause", about>>] = v[<<"clause", about>>]
    BY <1>8, <2>1
  <2>3. CASE w[<<"clause", about>>] = Removed
    BY <1>11, <2>2, <2>3 DEF Expected
  <2>4. CASE w[<<"clause", about>>] # Removed
    <3>1. about \in cs \cap Current(w, f)
      BY <1>11, <2>1, <2>4 DEF Current
    <3>2. \A x \in {<<"prose", f>>, <<"clause", about>>} : w[x] = v[x]
      BY <1>8, <2>2
    <3>3. \A x \in {"tests"} \X {about} : w[x] = v[x]
      BY <1>8, <3>1
    <3>4. SubjectClosure(w, about) = SubjectClosure(v, about)
      BY <2>1, <3>2, PartsAgree DEF SubjectClosure
    <3>5. VerificationClosure(w, {about}) = VerificationClosure(v, {about})
      BY <3>3, PartsAgree DEF VerificationClosure
    <3>6. QED
      BY <1>9, <1>11, <2>1, <2>2, <3>4, <3>5 DEF Expected
  <2>5. QED
    BY <2>3, <2>4
<1>12. QED
  BY <1>10, <1>11

LEMMA SignInitially == SignInit => SignInv
<1> SUFFICES ASSUME SignInit PROVE SignInv
  OBVIOUS
<1>1. world = [x \in Place |-> world[x]]
  BY SignOffAssumption DEF SignInit
<1>2. desk = [p \in Signer |-> desk[p]] /\ \A p \in Signer : DeskOK(desk[p], world)
  BY DEF SignInit, DeskOK
<1>3. receipts = {} /\ signed = {}
  BY DEF SignInit
<1>4. QED
  BY <1>1, <1>2, <1>3 DEF SignInv, OnFile

\* A signer's move, which leaves the world and what is on file alone.
LEMMA AtOneDesk ==
  ASSUME SignInv, NEW p \in Signer, NEW d, DeskOK(d, world),
         desk' = [desk EXCEPT ![p] = d], UNCHANGED <<world, receipts, signed>>
  PROVE  SignInv'
<1>1. desk' = [q \in Signer |-> desk'[q]]
  BY DEF SignInv
<1>2. \A q \in Signer : DeskOK(desk'[q], world')
  <2>1. ASSUME NEW q \in Signer PROVE DeskOK(desk'[q], world')
    <3>1. desk'[q] = IF q = p THEN d ELSE desk[q]
      BY DEF SignInv
    <3>2. DeskOK(desk[q], world) /\ world' = world
      BY DEF SignInv
    <3>3. QED
      BY <3>1, <3>2
  <2>2. QED
    BY <2>1
<1>3. QED
  BY <1>1, <1>2 DEF SignInv, OnFile

LEMMA AssertionKeeps ==
  ASSUME SignInv, NEW p \in Signer, Assertion(p)
  PROVE  SignInv'
<1>1. PICK s \in Statement : desk' = [desk EXCEPT ![p] = [phase |-> "asked", says |-> s]]
  BY DEF Assertion
<1>2. DeskOK([phase |-> "asked", says |-> s], world)
  BY DEF DeskOK
<1>3. UNCHANGED <<world, receipts, signed>>
  BY DEF Assertion
<1>4. QED
  BY <1>1, <1>2, <1>3, AtOneDesk

LEMMA ConfirmKeeps ==
  ASSUME SignInv, NEW p \in Signer, Confirm(p)
  PROVE  SignInv'
<1> DEFINE s == desk[p].says
           d == [phase |-> "confirmed", says |-> s, key |-> registry[s.issuer],
                 moved |-> FALSE, seen |-> Seen(world, s.claim, s.about)]
<1>1. desk' = [desk EXCEPT ![p] = d] /\ UNCHANGED <<world, receipts, signed>>
  BY DEF Confirm
<1>2. DeskOK(d, world)
  BY DEF DeskOK
<1> HIDE DEF d
<1>3. QED
  BY <1>1, <1>2, AtOneDesk

LEMMA WithdrawKeeps ==
  ASSUME SignInv, NEW p \in Signer, Withdraw(p)
  PROVE  SignInv'
<1>1. desk' = [desk EXCEPT ![p] = NoDesk] /\ UNCHANGED <<world, receipts, signed>>
  BY DEF Withdraw, Away
<1>2. DeskOK(NoDesk, world)
  BY DEF DeskOK
<1>3. QED
  BY <1>1, <1>2, AtOneDesk

LEMMA CompileKeeps ==
  ASSUME SignInv, NEW p \in Signer, Compile(p)
  PROVE  SignInv'
<1> DEFINE e == desk[p]
           d == [phase |-> "compiled", says |-> e.says, key |-> e.key, moved |-> e.moved,
                 seen |-> e.seen, spec |-> Part(world, SpecPlace)]
<1>1. desk' = [desk EXCEPT ![p] = d] /\ UNCHANGED <<world, receipts, signed>>
  BY DEF Compile, SignInv
<1>2. ~e.moved => e.seen = Seen(world, e.says.claim, e.says.about)
  <2>1. e # NoDesk /\ e.phase = "confirmed" /\ DeskOK(e, world)
    BY DEF Compile, Sits, SignInv
  <2> HIDE DEF e
  <2>2. QED
    BY <2>1 DEF DeskOK
<1>3. DeskOK(d, world)
  BY <1>2 DEF DeskOK
<1> HIDE DEF d
<1>4. QED
  BY <1>1, <1>3, AtOneDesk

LEMMA SignKeeps ==
  ASSUME SignInv, NEW p \in Signer, Sign(p)
  PROVE  SignInv'
<1> DEFINE e == desk[p]
           w == [x \in Place |-> IF x \in SpecPlace THEN e.spec[x] ELSE world[x]]
           f == e.says.about
           matrix == IF e.says.claim = "uat" THEN Current(w, f) ELSE {}
           sealed == Expected(w, e.says.claim, e.says.about)
           r == [claim |-> e.says.claim, about |-> e.says.about,
                 issuer |-> e.says.issuer, failing |-> e.says.failing,
                 key |-> e.key, matrix |-> matrix, sealed |-> sealed]
           d == [phase |-> "signed", moved |-> e.moved, seen |-> e.seen, receipt |-> r]
<1>1. /\ desk' = [desk EXCEPT ![p] = d] /\ UNCHANGED <<world, receipts, signed>>
      /\ sealed # Unresolved
  BY DEF Sign
<1>2. e # NoDesk /\ e.phase = "compiled" /\ DeskOK(e, world)
  BY DEF Sign, Sits, SignInv
<1>3. ~e.moved => e.seen = Seen(w, e.says.claim, e.says.about)
  <2> SUFFICES ASSUME ~e.moved PROVE e.seen = Seen(w, e.says.claim, e.says.about)
    OBVIOUS
  <2>1. e.seen = Seen(world, e.says.claim, e.says.about) /\ e.spec = Part(world, SpecPlace)
    <3> HIDE DEF e
    <3>1. QED
      BY <1>2 DEF DeskOK
  <2>2. w = world
    <3>1. world = [x \in Place |-> world[x]]
      BY DEF SignInv
    <3>2. \A x \in SpecPlace : e.spec[x] = world[x]
      BY <2>1 DEF Part
    <3> HIDE DEF e
    <3>3. \A x \in Place : w[x] = world[x]
      BY <3>2
    <3>4. QED
      BY <3>1, <3>3
  <2> HIDE DEF e, w
  <2>3. QED
    BY <2>1, <2>2
<1>4. Sound(d)
  <2> SUFFICES ASSUME ~e.moved PROVE Backed(r, e.seen)
    BY DEF Sound
  <2>1. /\ r.claim = e.says.claim /\ r.about = e.says.about
        /\ r.sealed = sealed /\ r.matrix = matrix
    OBVIOUS
  <2>2. /\ e.seen = Seen(w, r.claim, r.about)
        /\ r.sealed = Expected(w, r.claim, r.about)
        /\ r.sealed # Unresolved
        /\ r.claim = "uat" => r.matrix = Current(w, r.about)
    BY <1>1, <1>3, <2>1
  <2> HIDE DEF e, w, r
  <2>3. QED
    BY <2>2 DEF Backed
<1>5. DeskOK(d, world)
  <2>1. d.phase = "signed"
    OBVIOUS
  <2> HIDE DEF d
  <2>2. QED
    BY <1>4, <2>1 DEF DeskOK
<1> HIDE DEF d
<1>6. QED
  BY <1>1, <1>5, AtOneDesk

LEMMA IngestKeeps ==
  ASSUME SignInv, NEW p \in Signer, Ingest(p)
  PROVE  SignInv'
<1> DEFINE e == desk[p]
           s == [receipt |-> e.receipt, seen |-> e.seen, moved |-> e.moved]
<1>1. /\ receipts' = receipts \cup {e.receipt} /\ signed' = signed \cup {s}
      /\ desk' = [desk EXCEPT ![p] = NoDesk] /\ world' = world
  BY DEF Ingest, Away
<1>2. e # NoDesk /\ e.phase = "signed" /\ DeskOK(e, world)
  BY DEF Ingest, Sits, SignInv
<1>3. Sound(s)
  <2>1. Sound(e)
    <3> HIDE DEF e
    <3>1. QED
      BY <1>2 DEF DeskOK
  <2>2. s.receipt = e.receipt /\ s.seen = e.seen /\ s.moved = e.moved
    OBVIOUS
  <2> HIDE DEF s, e
  <2>3. QED
    BY <2>1, <2>2 DEF Sound
<1>4. \A x \in signed' : Sound(x)
  <2> HIDE DEF s
  <2>1. QED
    BY <1>1, <1>3 DEF SignInv
<1>5. OnFile'
  <2>1. s.receipt = e.receipt
    OBVIOUS
  <2> HIDE DEF s, e
  <2>2. QED
    BY <1>1, <2>1 DEF SignInv, OnFile
<1>6. /\ desk' = [q \in Signer |-> desk'[q]]
      /\ \A q \in Signer : desk'[q] = IF q = p THEN NoDesk ELSE desk[q]
  BY <1>1 DEF SignInv
<1>7. \A q \in Signer : DeskOK(desk'[q], world')
  <2>1. ASSUME NEW q \in Signer PROVE DeskOK(desk'[q], world')
    <3>1. DeskOK(desk[q], world) /\ DeskOK(NoDesk, world)
      BY DEF SignInv, DeskOK
    <3>2. QED
      BY <1>1, <1>6, <3>1
  <2>2. QED
    BY <2>1
<1>8. QED
  BY <1>1, <1>4, <1>5, <1>6, <1>7 DEF SignInv

\* Receipts that come and go were all signed here.
LEMMA FilesKeep ==
  ASSUME SignInv, UNCHANGED <<world, desk, signed>>,
         receipts' \subseteq receipts \cup {s.receipt : s \in signed}
  PROVE  SignInv'
BY DEF SignInv, OnFile

LEMMA ChangeKeeps ==
  ASSUME SignInv, NEW x \in Place, Change(x)
  PROVE  SignInv'
<1>1. /\ \E v : world' = [world EXCEPT ![x] = v]
      /\ desk' = [q \in Signer |->
           IF Sits(q, "confirmed") \/ Sits(q, "compiled")
           THEN [desk[q] EXCEPT !.moved = TRUE] ELSE desk[q]]
      /\ UNCHANGED <<receipts, signed>>
  BY DEF Change
<1>2. world' = [y \in Place |-> world'[y]]
  BY <1>1 DEF SignInv
<1>3. ASSUME NEW q \in Signer PROVE DeskOK(desk'[q], world')
  <2> DEFINE e == desk[q]
             d == desk'[q]
  <2>1. DeskOK(e, world)
    BY DEF SignInv
  <2>2. CASE Sits(q, "confirmed") \/ Sits(q, "compiled")
    <3>1. d = [e EXCEPT !.moved = TRUE] /\ e # NoDesk /\ e.phase \in {"confirmed", "compiled"}
      BY <1>1, <2>2 DEF Sits
    <3> HIDE DEF d, e
    <3>2. {"phase", "moved"} \subseteq DOMAIN e
      BY <2>1, <3>1 DEF DeskOK
    <3>3. DOMAIN d = DOMAIN e /\ d.moved = TRUE /\ d.phase = e.phase
      BY <3>1, <3>2
    <3>4. DeskOK(d, world')
      BY <3>1, <3>2, <3>3 DEF DeskOK
    <3>5. QED
      BY <3>4 DEF d
  <2>3. CASE ~(Sits(q, "confirmed") \/ Sits(q, "compiled"))
    <3>1. d = e /\ (e # NoDesk => e.phase \notin {"confirmed", "compiled"})
      BY <1>1, <2>3 DEF Sits
    <3> HIDE DEF d, e
    <3>2. DeskOK(d, world')
      BY <2>1, <3>1 DEF DeskOK
    <3>3. QED
      BY <3>2 DEF d
  <2>4. QED
    BY <2>2, <2>3
<1>4. QED
  BY <1>1, <1>2, <1>3 DEF SignInv, OnFile

LEMMA SignStep == SignInv /\ [SignNext]_signVars => SignInv'
<1> SUFFICES ASSUME SignInv, [SignNext]_signVars PROVE SignInv'
  OBVIOUS
<1>1. ASSUME NEW p \in Signer,
             Assertion(p) \/ Confirm(p) \/ Withdraw(p) \/ Compile(p) \/ Sign(p) \/ Ingest(p)
      PROVE  SignInv'
  BY <1>1, AssertionKeeps, ConfirmKeeps, WithdrawKeeps, CompileKeeps, SignKeeps, IngestKeeps
<1>2. ASSUME NEW s \in signed, Deliver(s.receipt) PROVE SignInv'
  BY <1>2, FilesKeep DEF Deliver
<1>3. CASE Disturb
  <2>1. ASSUME NEW x \in Place, Change(x) PROVE SignInv'
    BY <2>1, ChangeKeeps
  <2>2. ASSUME NEW i \in Issuer, Register(i) PROVE SignInv'
    BY <2>2, FilesKeep DEF Register
  <2>3. CASE CheckOut
    BY <2>3, FilesKeep DEF CheckOut
  <2>4. QED
    BY <1>3, <2>1, <2>2, <2>3 DEF Disturb
<1>4. CASE UNCHANGED signVars
  BY <1>4, FilesKeep DEF signVars
<1>5. QED
  BY <1>1, <1>2, <1>3, <1>4 DEF SignNext

LEMMA SignKeepsInv == SignSpec => []SignInv
BY SignInitially, SignStep, PTL DEF SignSpec

\* What a verified receipt was signed over is what is there now, or nobody
\* knows what the signer saw.
LEMMA VerifiedIsSeen ==
  ASSUME SignInv, NEW claim \in {"audit", "uat"}, NEW about,
         claim = "audit" => about \in Clause,
         NEW r \in Claims(claim, about)
  PROVE  \E s \in Here(claim, about) \cup Blurred(claim, about) : s.receipt = r
<1>1. /\ r \in receipts /\ r.claim = claim /\ r.about = about
      /\ registry[r.issuer] = r.key
      /\ r.sealed = Expected(world, claim, about)
  BY DEF Claims, Verified
<1>2. PICK s \in signed : s.receipt = r
  BY <1>1 DEF SignInv, OnFile
<1>3. s \in Live(claim, about)
  BY <1>1, <1>2 DEF Live
<1>4. CASE s.moved
  BY <1>2, <1>3, <1>4 DEF Blurred
<1>5. CASE ~s.moved
  <2>1. Backed(r, s.seen)
    BY <1>2, <1>5 DEF SignInv, Sound
  <2>2. PICK w : /\ s.seen = Seen(w, claim, about)
                 /\ r.sealed = Expected(w, claim, about)
                 /\ r.sealed # Unresolved
    BY <1>1, <2>1 DEF Backed
  <2>3. Seen(w, claim, about) = Seen(world, claim, about)
    <3>1. /\ Expected(w, claim, about) = Expected(world, claim, about)
          /\ Expected(w, claim, about) # Unresolved
      BY <1>1, <2>2
    <3>2. QED
      BY ONLY <3>1, ExpectedShowsSeen, claim \in {"audit", "uat"},
              claim = "audit" => about \in Clause
  <2>4. s \in Here(claim, about)
    BY <1>3, <1>5, <2>2, <2>3 DEF Here
  <2>5. QED
    BY <1>2, <2>4
<1>6. QED
  BY <1>4, <1>5

\* And whoever signed for what is there now is heard.
LEMMA SeenIsVerified ==
  ASSUME SignInv, NEW claim \in {"audit", "uat"}, NEW about,
         claim = "audit" => about \in Clause,
         NEW s \in Here(claim, about)
  PROVE  /\ s.receipt \in Claims(claim, about)
         /\ claim = "uat" => s.receipt.matrix = Current(world, about)
<1> DEFINE r == s.receipt
<1>1. /\ s \in signed /\ r \in receipts /\ r.claim = claim /\ r.about = about
      /\ registry[r.issuer] = r.key
      /\ ~s.moved /\ s.seen = Seen(world, claim, about)
  BY DEF Here, Live
<1>2. Backed(r, s.seen)
  BY <1>1 DEF SignInv, Sound
<1> HIDE DEF r
<1>3. PICK w : /\ s.seen = Seen(w, claim, about)
               /\ r.sealed = Expected(w, claim, about)
               /\ claim = "uat" => r.matrix = Current(w, about)
  BY <1>1, <1>2 DEF Backed
<1>4. /\ Expected(w, claim, about) = Expected(world, claim, about)
      /\ claim = "uat" => Current(w, about) = Current(world, about)
  <2>1. Seen(w, claim, about) = Seen(world, claim, about)
    BY <1>1, <1>3
  <2>2. QED
    BY ONLY <2>1, SeenShowsExpected, claim \in {"audit", "uat"},
            claim = "audit" => about \in Clause
<1>5. Verified(r)
  BY <1>1, <1>3, <1>4 DEF Verified
<1>6. r \in Claims(claim, about)
  BY <1>1, <1>5 DEF Claims
<1>7. QED
  BY <1>3, <1>4, <1>6 DEF r

\* Any reduction that needs a sufficient claim and hears every failed one.
LEMMA ReductionStands ==
  ASSUME SignInv, NEW claim \in {"audit", "uat"}, NEW about,
         claim = "audit" => about \in Clause,
         NEW sufficient \in SUBSET Claims(claim, about),
         \A s \in Here(claim, about) : s.receipt \in sufficient
  PROVE  Stands(claim, about, ReducedClaims(Claims(claim, about), sufficient))
<1> DEFINE claims == Claims(claim, about)
           here == Here(claim, about)
           perhaps == here \cup Blurred(claim, about)
           verdict == ReducedClaims(claims, sufficient)
<1>1. \A r \in claims : \E s \in perhaps : s.receipt = r
  BY VerifiedIsSeen
<1>2. \A s \in here : s.receipt \in sufficient
  OBVIOUS
<1>3. sufficient \subseteq claims
  OBVIOUS
<1> HIDE DEF claims, here, perhaps
<1>4. /\ verdict = "verified" => sufficient # {} /\ \A r \in claims : r.failing = {}
      /\ verdict = "failed" => \E r \in claims : r.failing # {}
      /\ verdict = "unverified" => sufficient = {}
  BY DEF ReducedClaims
<1> HIDE DEF verdict
<1>5. verdict = "verified" => perhaps \ Faults(perhaps) # {} /\ Faults(here) = {}
  BY <1>1, <1>2, <1>3, <1>4 DEF Faults
<1>6. verdict = "failed" => Faults(perhaps) # {}
  BY <1>1, <1>4 DEF Faults
<1>7. verdict = "unverified" => here = {}
  BY <1>2, <1>4
<1>8. QED
  BY <1>5, <1>6, <1>7 DEF Stands, verdict, claims, here, perhaps

LEMMA AuditsStand == SignInv => AuditStands
<1> SUFFICES ASSUME SignInv, NEW c \in Clause PROVE Stands("audit", c, Audit(c))
  BY DEF AuditStands
<1>1. \A s \in Here("audit", c) : s.receipt \in Claims("audit", c)
  BY SeenIsVerified
<1>2. QED
  BY <1>1, ReductionStands DEF Audit

LEMMA AcceptancesStand == SignInv => UatStands
<1> SUFFICES ASSUME SignInv, NEW f \in Shipped PROVE Stands("uat", f, Uat(f))
  BY DEF UatStands
<1> DEFINE sufficient == {r \in Claims("uat", f) : r.matrix = Current(world, f)}
<1>1. \A s \in Here("uat", f) : s.receipt \in sufficient
  BY SeenIsVerified
<1>2. sufficient \in SUBSET Claims("uat", f)
  OBVIOUS
<1> HIDE DEF sufficient
<1>3. Stands("uat", f, ReducedClaims(Claims("uat", f), sufficient))
  BY <1>1, <1>2, ReductionStands
<1>4. QED
  BY <1>3 DEF Uat, sufficient

LEMMA LabelsStand == SignInv => LabelStands
<1> SUFFICES ASSUME SignInv, NEW f \in Shipped, Independent({f})
             PROVE  \E c \in Clause : \E s \in Here("audit", c) \cup Blurred("audit", c) :
                      /\ Owner[c] = f
                      /\ s.moved \/ \A x \in DOMAIN s.seen :
                           x[1] = "author" => s.seen[x] \notin {Anonymous, s.receipt.issuer}
  BY DEF LabelStands
<1>1. PICK c \in Clause : \E r \in Claims("audit", c) :
        Owner[c] = f /\ r.issuer \notin Credited(f) /\ Anonymous \notin Credited(f)
  BY DEF Independent
<1>2. PICK r \in Claims("audit", c) :
        Owner[c] = f /\ r.issuer \notin Credited(f) /\ Anonymous \notin Credited(f)
  BY <1>1
<1>3. PICK s \in Here("audit", c) \cup Blurred("audit", c) : s.receipt = r
  BY VerifiedIsSeen
<1>4. ASSUME ~s.moved, NEW x \in DOMAIN s.seen, x[1] = "author"
      PROVE  s.seen[x] \notin {Anonymous, s.receipt.issuer}
  <2>1. s.seen = Part(world, Relied(world, "audit", c))
    BY <1>3, <1>4 DEF Here, Blurred, Seen
  <2>2. x \in Relied(world, "audit", c) /\ s.seen[x] = world[x]
    BY <1>4, <2>1 DEF Part
  <2>3. PICK g \in Reached(world, f) : x = <<"author", g>>
    <3>1. SubjectFeature("audit", c) = f
      BY <1>2 DEF SubjectFeature
    <3>2. x \in {<<"prose", f>>} \cup ({"clause"} \X SubjectClauses("audit", c))
                  \cup ({"tests"} \X (SubjectClauses("audit", c) \cap Current(world, f)))
                  \cup ({"code", "author"} \X Reached(world, f))
      BY <2>2, <3>1, ReliedOn
    <3>3. QED
      BY <1>4, <3>2
  <2>4. s.seen[x] \in Credited(f)
    BY <2>2, <2>3 DEF Credited
  <2>5. QED
    BY <1>2, <1>3, <2>4
<1>5. QED
  BY <1>2, <1>3, <1>4

\* At every moment a gate counts a sign-off for exactly what was confirmed.
THEOREM SignOffsStand == SignSpec => []SignOffStands
<1>1. SignInv => SignOffStands
  BY AuditsStand, AcceptancesStand, LabelsStand DEF SignOffStands
<1>2. QED
  BY <1>1, SignKeepsInv, PTL
=============================================================================
