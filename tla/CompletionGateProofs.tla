------------------------- MODULE CompletionGateProofs -------------------------
(***************************************************************************)
(* The completion properties for any number of attempts, processes and     *)
(* edits.                                                                  *)
(***************************************************************************)
EXTENDS CompletionGate, SequenceTheorems, TLAPS

\* Every action but the edits of others, which change the disk in their own ways.
AttemptStep(a) ==
  \/ Prepare(a) \/ Begin(a) \/ Capture(a) \/ Observe(a) \/ Green(a)
  \/ Refuse(a) \/ Consume(a) \/ ConsumeRetired(a) \/ CommitRefused(a)

\* What an edit by others may do to the feature, the receipt and the ledger.
LEMMA EditCases ==
  ASSUME TypeOK, Others
  PROVE  /\ Edit
         /\ shard' \in Shard /\ code' \in Code /\ receipt' \in Seals
         /\ \/ shard'.status = "in_progress" /\ ledger' = Append(ledger, "begin")
            \/ shard'.status = shard.status /\ ledger' = ledger
            \/ shard.status # "done" /\ shard'.status = "blocked" /\ ledger' = ledger
         /\ \/ receipt' = receipt
            \/ receipt' = None
            \/ code \in GoodCode /\ code' = code /\ receipt' = Tree
<1>1. CASE BlockFeature
  BY <1>1 DEF BlockFeature, TypeOK, Shard, Status
<1>2. CASE Restamp
  BY <1>2 DEF Restamp, TypeOK, Seals
<1>3. CASE Reverify
  BY <1>3 DEF Reverify, TypeOK, Tree, Seals, Inputs
<1>4. ASSUME NEW t \in Text, BeginFeature(t)
      PROVE  /\ Edit
             /\ shard' \in Shard /\ code' = code /\ receipt' = receipt
             /\ shard'.status = "in_progress" /\ ledger' = Append(ledger, "begin")
  BY <1>4 DEF BeginFeature, Shard, Status
<1>5. ASSUME NEW t \in Text, EditText(t)
      PROVE  /\ Edit
             /\ shard' \in Shard /\ code' = code /\ receipt' = receipt
             /\ shard'.status = shard.status /\ ledger' = ledger
  BY <1>5 DEF EditText, TypeOK, Shard
<1>6. ASSUME NEW c \in Code, EditCode(c)
      PROVE  /\ Edit
             /\ shard' = shard /\ code' \in Code /\ receipt' = receipt
             /\ ledger' = ledger
  BY <1>6 DEF EditCode
<1>7. QED
  BY <1>1, <1>2, <1>3, <1>4, <1>5, <1>6 DEF Others, TypeOK

LEMMA TreeTyped == TypeOK => Tree \in Inputs
BY DEF TypeOK, Tree, Inputs

LEMMA NothingTyped == Nothing \in Registers
BY DEF Nothing, Registers

LEMMA TypeInit == Init => TypeOK
<1>1. ASSUME Init PROVE run \in [Attempt -> Registers]
  BY <1>1, NothingTyped DEF Init
<1>2. ASSUME Init PROVE ledger \in Seq({"begin", "done"})
  BY <1>2 DEF Init
<1>3. QED
  BY <1>1, <1>2, CompletionAssumption
     DEF Init, TypeOK, EpochsAreOpen, Seals, Phase

LEMMA TypeStep == TypeOK /\ [Next]_vars => TypeOK'
<1> SUFFICES ASSUME TypeOK, [Next]_vars PROVE TypeOK'
  OBVIOUS
<1> USE CompletionAssumption
<1>1. ASSUME NEW a \in Attempt, Prepare(a) PROVE TypeOK'
  <2>1. run' \in [Attempt -> Registers]
    BY <1>1 DEF Prepare, TypeOK, Registers
  <2>2. QED
    BY <1>1, <2>1
       DEF Prepare, Goto, TypeOK, EpochsAreOpen, Phase, disk, counters
<1>2. ASSUME NEW a \in Attempt, Begin(a) PROVE TypeOK'
  <2>1. run' \in [Attempt -> Registers]
    BY <1>2 DEF Begin, TypeOK, Registers
  <2>2. QED
    BY <1>2, <2>1
       DEF Begin, Goto, Peers, TypeOK, EpochsAreOpen, Phase, disk, counters
<1>3. ASSUME NEW a \in Attempt, Capture(a) PROVE TypeOK'
  <2>1. run' \in [Attempt -> Registers]
    BY <1>3, TreeTyped DEF Capture, TypeOK, Registers
  <2>2. QED
    BY <1>3, <2>1
       DEF Capture, Goto, TypeOK, EpochsAreOpen, Phase, disk, counters
<1>4. ASSUME NEW a \in Attempt, Observe(a) PROVE TypeOK'
  <2>1. run' \in [Attempt -> Registers]
    BY <1>4 DEF Observe, TypeOK, Registers
  <2>2. QED
    BY <1>4, <2>1 DEF Observe, TypeOK, EpochsAreOpen, disk, counters
<1>5. ASSUME NEW a \in Attempt, Green(a) PROVE TypeOK'
  BY <1>5 DEF Green, Goto, TypeOK, EpochsAreOpen, Phase, disk, counters
<1>6. ASSUME NEW a \in Attempt, NEW from, NEW how \in Over, End(a, from, how)
      PROVE  run' \in [Attempt -> Registers] /\ phase' \in [Attempt -> Phase]
  BY <1>6, NothingTyped DEF End, Goto, TypeOK, Over, Phase
<1>7. ASSUME NEW a \in Attempt, Refuse(a) PROVE TypeOK'
  <2>1. run' \in [Attempt -> Registers] /\ phase' \in [Attempt -> Phase]
    BY <1>6, <1>7 DEF Refuse, Over
  <2>2. QED
    BY <1>7, <2>1 DEF Refuse, End, Goto, TypeOK, EpochsAreOpen, disk, counters
<1>8. ASSUME NEW a \in Attempt, Consume(a) PROVE TypeOK'
  BY <1>8 DEF Consume, Goto, TypeOK, EpochsAreOpen, Phase, disk, counters
<1>9. ASSUME NEW a \in Attempt, ConsumeRetired(a) PROVE TypeOK'
  <2>1. run' \in [Attempt -> Registers] /\ phase' \in [Attempt -> Phase]
    BY <1>6, <1>9 DEF ConsumeRetired, Over
  <2>2. QED
    BY <1>9, <2>1
       DEF ConsumeRetired, End, Goto, TypeOK, EpochsAreOpen, disk, counters
<1>10. ASSUME NEW a \in Attempt, CommitRefused(a) PROVE TypeOK'
  <2>1. run' \in [Attempt -> Registers] /\ phase' \in [Attempt -> Phase]
    BY <1>6, <1>10 DEF CommitRefused, Over
  <2>2. QED
    BY <1>10, <2>1
       DEF CommitRefused, End, Goto, TypeOK, EpochsAreOpen, disk, counters
<1>11. ASSUME NEW a \in Attempt, Commit(a) PROVE TypeOK'
  <2>1. run' \in [Attempt -> Registers] /\ phase' \in [Attempt -> Phase]
    BY <1>6, <1>11 DEF Commit, Over
  <2>2. Done(shard) \in Shard
    BY DEF Done, TypeOK, Shard, Status
  <2>3. receipt' \in Seals
    BY <1>11, <2>2, TreeTyped DEF Commit, Sealed, Seals, Inputs
  <2>4. ledger' \in Seq({"begin", "done"})
    BY <1>11 DEF Commit, TypeOK
  <2>5. returned' \in SUBSET Attempt
    BY <1>11 DEF Commit, CameBack, TypeOK
  <2>6. QED
    BY <1>11, <2>1, <2>2, <2>3, <2>4, <2>5
       DEF Commit, End, Goto, TypeOK, EpochsAreOpen, counters
<1>12. ASSUME Others PROVE TypeOK'
  <2>1. ledger' \in Seq({"begin", "done"})
    BY <1>12, EditCases DEF TypeOK
  <2>2. QED
    BY <1>12, <2>1, EditCases DEF Edit, CameBack, TypeOK, EpochsAreOpen
<1>13. ASSUME NEW p \in Process, Crash(p) PROVE TypeOK'
  <2>1. run' \in [Attempt -> Registers]
    BY <1>13, NothingTyped DEF Crash, TypeOK
  <2>2. phase' \in [Attempt -> Phase]
    BY <1>13 DEF Crash, TypeOK, Phase
  <2>3. EpochsAreOpen'
    BY <1>13 DEF Crash, TypeOK, EpochsAreOpen
  <2>4. QED
    BY <1>13, <2>1, <2>2, <2>3 DEF Crash, TypeOK, disk
<1>14. ASSUME UNCHANGED vars PROVE TypeOK'
  BY <1>14 DEF vars, disk, counters, TypeOK, EpochsAreOpen
<1>15. QED
  BY <1>1, <1>2, <1>3, <1>4, <1>5, <1>7, <1>8, <1>9, <1>10, <1>11, <1>12,
     <1>13, <1>14 DEF Next

\* Types, and the open epochs: a listed writer belongs to a gate of its process
\* that has begun and was not used (beginPrepared.., consumePrepared..).
THEOREM TypeCorrect == Spec => []TypeOK
BY TypeInit, TypeStep, PTL DEF Spec
-----------------------------------------------------------------------------
(* The status and the ledger                                               *)

LastIs(e) == Len(ledger) > 0 /\ ledger[Len(ledger)] = e

\* An attempt in flight was prepared from a feature in progress, whose last
\* event is the checkpoint that began it.
Begun ==
  /\ shard.status = "in_progress" => LastIs("begin")
  /\ \A a \in Attempt :
       phase[a] \in {"prepared", "loaded", "gating", "green", "consumed"}
         => run[a].mark.shard.status = "in_progress"

LedgerInv == Begun /\ LedgerExplainsStatus /\ CompletionsAnswerBegins

LEMMA LedgerAppend ==
  ASSUME TypeOK, NEW e \in {"begin", "done"}, ledger' = Append(ledger, e)
  PROVE  /\ Len(ledger) \in Nat /\ Len(ledger') = Len(ledger) + 1
         /\ ledger'[Len(ledger')] = e
         /\ \A i \in 1..Len(ledger) : ledger'[i] = ledger[i]
BY DEF TypeOK

\* Only a commit moves the marks of the attempts and the ledger apart: the
\* other steps of an attempt leave the disk alone.
LEMMA LedgerStep == TypeOK /\ LedgerInv /\ [Next]_vars => LedgerInv'
<1> SUFFICES ASSUME TypeOK, LedgerInv, [Next]_vars PROVE LedgerInv'
  OBVIOUS
<1> USE DEF LedgerInv
<1>1. ASSUME UNCHANGED <<shard, ledger>>
      PROVE  /\ LedgerExplainsStatus' /\ CompletionsAnswerBegins'
             /\ (shard.status = "in_progress" => LastIs("begin"))'
  BY <1>1 DEF LedgerExplainsStatus, CompletionsAnswerBegins, Begun, LastIs
<1>2. ASSUME NEW a \in Attempt, AttemptStep(a) PROVE UNCHANGED <<shard, ledger>>
  BY <1>2 DEF AttemptStep, Prepare, Begin, Capture, Observe, Green, Refuse,
       Consume, ConsumeRetired, CommitRefused, disk
<1>3. ASSUME NEW a \in Attempt, Prepare(a) PROVE LedgerInv'
  <2>1. run'[a].mark = [shard |-> shard, receipt |-> receipt]
    BY <1>3 DEF Prepare, TypeOK, Registers
  <2>2. \A b \in Attempt \ {a} : run'[b] = run[b] /\ phase'[b] = phase[b]
    BY <1>3 DEF Prepare, Goto, TypeOK
  <2>3. shard.status = "in_progress" /\ UNCHANGED <<shard, ledger>>
    BY <1>3 DEF Prepare, disk
  <2>4. QED
    BY <1>1, <2>1, <2>2, <2>3 DEF Begun
<1>4. ASSUME NEW a \in Attempt, AttemptStep(a), ~Prepare(a) PROVE LedgerInv'
  <2>1. \A b \in Attempt :
          phase'[b] \in {"prepared", "loaded", "gating", "green", "consumed"}
            => /\ run'[b].mark = run[b].mark
               /\ phase[b] \in {"prepared", "loaded", "gating", "green", "consumed"}
    BY <1>4 DEF AttemptStep, Begin, Capture, Observe, Green, Refuse, Consume,
       ConsumeRetired, CommitRefused, End, Goto, TypeOK, Registers
  <2>2. QED
    BY <1>1, <1>2, <1>4, <2>1 DEF Begun
<1>5. ASSUME NEW a \in Attempt, Commit(a) PROVE LedgerInv'
  <2>1. shard.status = "in_progress"
    BY <1>5 DEF Commit, End, Goto, Untouched, Begun
  <2>2. shard'.status = "done"
    BY <1>5 DEF Commit, Done, TypeOK, Shard
  <2>3. LastIs("begin") /\ ledger' = Append(ledger, "done")
    BY <1>5, <2>1 DEF Commit, Begun
  <2>4. LedgerExplainsStatus'
    BY <2>2, <2>3, LedgerAppend DEF LedgerExplainsStatus
  <2>5. CompletionsAnswerBegins'
    BY <2>3, LedgerAppend DEF CompletionsAnswerBegins, LastIs
  <2>6. Begun'
    BY <1>5, <2>2 DEF Begun, Commit, End, Goto, TypeOK
  <2>7. QED
    BY <2>4, <2>5, <2>6
<1>6. ASSUME Others PROVE LedgerInv'
  <2>1. UNCHANGED <<phase, run>>
    BY <1>6, EditCases DEF Edit
  <2>2. CASE shard'.status = "in_progress" /\ ledger' = Append(ledger, "begin")
    <3>1. LastIs("begin")' /\ LedgerExplainsStatus'
      BY <2>2, LedgerAppend DEF LastIs, LedgerExplainsStatus
    <3>2. CompletionsAnswerBegins'
      BY <2>2, LedgerAppend DEF CompletionsAnswerBegins
    <3>3. QED
      BY <2>1, <2>2, <3>1, <3>2 DEF Begun
  <2>3. CASE shard'.status = shard.status /\ ledger' = ledger
    BY <2>1, <2>3
       DEF Begun, LastIs, LedgerExplainsStatus, CompletionsAnswerBegins
  <2>4. CASE shard.status # "done" /\ shard'.status = "blocked" /\ ledger' = ledger
    BY <2>1, <2>4
       DEF Begun, LastIs, LedgerExplainsStatus, CompletionsAnswerBegins
  <2>5. QED
    BY <1>6, <2>2, <2>3, <2>4, EditCases
<1>7. ASSUME NEW p \in Process, Crash(p) PROVE LedgerInv'
  <2>1. UNCHANGED <<shard, ledger>>
    BY <1>7 DEF Crash, disk
  <2>2. QED
    BY <1>1, <1>7, <2>1 DEF Crash, Begun, TypeOK
<1>8. ASSUME UNCHANGED vars PROVE LedgerInv'
  BY <1>1, <1>8 DEF vars, disk, Begun
<1>9. QED
  BY <1>3, <1>4, <1>5, <1>6, <1>7, <1>8 DEF Next, AttemptStep

LEMMA LedgerInit == Init => LedgerInv
BY DEF Init, LedgerInv, Begun, LedgerExplainsStatus, CompletionsAnswerBegins

\* A feature is done exactly while its last lifecycle event is a completion:
\* status and event share a journal (commitGeneratedAttestation, feature.begin).
\* No start of it is completed twice, whichever processes try: the preimages
\* of a commit are those of a feature in progress.
THEOREM LedgerIsEarned == Spec => []StatusIsEarned
<1>1. LedgerInv => StatusIsEarned
  BY DEF LedgerInv, StatusIsEarned
<1>2. QED
  BY <1>1, TypeInit, TypeStep, LedgerInit, LedgerStep, PTL DEF Spec
-----------------------------------------------------------------------------
(* Writer epochs                                                           *)

\* A retired attempt is stopped before its commit, and is not listed.
RetiredInv ==
  \A a \in retired : /\ phase[a] \in {"green"} \cup Over
                     /\ current[ProcessOf[a]] # a

LEMMA RetiredStep ==
  TypeOK /\ RetiredInv /\ [Next]_vars
    => /\ RetiredInv'
       /\ \A a \in retired : phase'[a] = "kept" => phase[a] = "kept"
<1> SUFFICES ASSUME TypeOK, RetiredInv, [Next]_vars
             PROVE  /\ RetiredInv'
                    /\ \A a \in retired : phase'[a] = "kept" => phase[a] = "kept"
  OBVIOUS
<1> DEFINE Goal == /\ RetiredInv'
                   /\ \A a \in retired : phase'[a] = "kept" => phase[a] = "kept"
<1> USE CompletionAssumption DEF RetiredInv, TypeOK, Over
<1>1. ASSUME NEW a \in Attempt, Begin(a) PROVE Goal
  <2>1. a \notin retired /\ phase' = [phase EXCEPT ![a] = "loaded"]
    BY <1>1 DEF Begin, Goto
  <2>2. \A b \in retired' \ retired :
          b \in Peers(a) \ {a} /\ phase[b] \in {"green"}
    BY <1>1 DEF Begin, Free, Peers, Running, Phase
  <2>3. current' = [current EXCEPT ![ProcessOf[a]] = a] /\ retired' \subseteq Attempt
    BY <1>1 DEF Begin, Peers
  <2>4. QED
    BY <2>1, <2>2, <2>3 DEF Peers
<1>2. ASSUME NEW a \in Attempt,
             Prepare(a) \/ Capture(a) \/ Observe(a) \/ Green(a)
      PROVE  Goal
  BY <1>2 DEF Prepare, Capture, Observe, Green, Goto
<1>3. ASSUME NEW a \in Attempt, Refuse(a) PROVE Goal
  BY <1>3 DEF Refuse, End, Goto
<1>4. ASSUME NEW a \in Attempt, Consume(a) PROVE Goal
  BY <1>4 DEF Consume, Goto
<1>5. ASSUME NEW a \in Attempt, ConsumeRetired(a) \/ CommitRefused(a) PROVE Goal
  BY <1>5 DEF ConsumeRetired, CommitRefused, End, Goto
<1>6. ASSUME NEW a \in Attempt, Commit(a) PROVE Goal
  BY <1>6 DEF Commit, End, Goto
<1>7. ASSUME Others PROVE Goal
  BY <1>7, EditCases DEF Edit
<1>8. ASSUME NEW p \in Process, Crash(p) PROVE Goal
  BY <1>8 DEF Crash
<1>9. ASSUME UNCHANGED vars PROVE Goal
  BY <1>9 DEF vars
<1>10. QED
  BY <1>1, <1>2, <1>3, <1>4, <1>5, <1>6, <1>7, <1>8, <1>9 DEF Next

LEMMA RetiredInit == Init => RetiredInv
BY DEF Init, RetiredInv

\* "Starting a newer gate must retire an older GREEN callback": no callback of a
\* retired attempt ever publishes (CURRENT_SCHEMA02_DONE_WRITERS).
THEOREM EpochsRetire == Spec => RetiredNeverCompletes
<1>1. TypeOK /\ RetiredInv /\ [Next]_vars
        => [\A a \in retired : phase'[a] = "kept" => phase[a] = "kept"]_vars
  BY RetiredStep
<1>2. QED
  BY <1>1, TypeInit, TypeStep, RetiredInit, RetiredStep, PTL
     DEF Spec, RetiredNeverCompletes
-----------------------------------------------------------------------------
(* The receipt                                                             *)

\* What an attempt whose inputs never came back has read while they are still
\* as captured, and what a GREEN one has read.
Watched ==
  \A a \in Attempt :
    /\ phase[a] \in {"idle", "prepared", "loaded"} => run[a].observed = {}
    /\ /\ phase[a] \in {"gating", "green", "consumed"}
       /\ a \notin returned
       /\ run[a].captured = Tree
       => run[a].observed \subseteq {code}
    /\ phase[a] \in {"green", "consumed"}
         => run[a].observed # {} /\ run[a].observed \subseteq GoodCode

ReceiptInv ==
  receipt = None \/ receipt.code \in GoodCode \/ \E a \in returned : phase[a] = "kept"

LEMMA WatchedStep == TypeOK /\ Watched /\ [Next]_vars => Watched'
<1> SUFFICES ASSUME TypeOK, Watched, [Next]_vars PROVE Watched'
  OBVIOUS
<1> USE DEF Watched, TypeOK, Registers
\* A step that leaves the disk and what the others have in hand alone.
<1>1. ASSUME NEW a \in Attempt, AttemptStep(a)
      PROVE  /\ UNCHANGED <<shard, code, returned>> /\ Tree' = Tree
             /\ \A b \in Attempt \ {a} : run'[b] = run[b] /\ phase'[b] = phase[b]
  BY <1>1 DEF AttemptStep, Prepare, Begin, Capture, Observe, Green, Refuse,
       Consume, ConsumeRetired, CommitRefused, End, Goto, disk, Tree
<1>2. ASSUME NEW a \in Attempt, Prepare(a) \/ Begin(a) PROVE Watched'
  <2>1. phase[a] \in {"idle", "prepared"} /\ phase'[a] \in {"prepared", "loaded"}
    BY <1>2 DEF Prepare, Begin, Goto
  <2>2. run'[a].observed = run[a].observed
    BY <1>2 DEF Prepare, Begin
  <2>3. QED
    BY <1>1, <1>2, <2>1, <2>2 DEF AttemptStep
<1>3. ASSUME NEW a \in Attempt, Capture(a) PROVE Watched'
  <2>1. run'[a].observed = {} /\ phase'[a] = "gating"
    BY <1>3 DEF Capture, Goto
  <2>2. QED
    BY <1>1, <1>3, <2>1 DEF AttemptStep
<1>4. ASSUME NEW a \in Attempt, Observe(a) PROVE Watched'
  <2>1. /\ run'[a].observed = run[a].observed \cup {code}
        /\ run'[a].captured = run[a].captured /\ phase' = phase
        /\ phase[a] = "gating"
    BY <1>4 DEF Observe
  <2>2. QED
    BY <1>1, <1>4, <2>1 DEF AttemptStep
<1>5. ASSUME NEW a \in Attempt, Green(a) \/ Consume(a) PROVE Watched'
  <2>1. /\ run' = run /\ phase[a] \in {"gating", "green"}
        /\ run[a].observed # {} /\ run[a].observed \subseteq GoodCode
        /\ phase'[a] \in {"green", "consumed"}
    BY <1>5 DEF Green, Consume, Goto
  <2>2. QED
    BY <1>1, <1>5, <2>1 DEF AttemptStep
<1>6. ASSUME NEW a \in Attempt,
             Refuse(a) \/ ConsumeRetired(a) \/ CommitRefused(a)
      PROVE  Watched'
  <2>1. phase'[a] = "refused"
    BY <1>6 DEF Refuse, ConsumeRetired, CommitRefused, End, Goto
  <2>2. QED
    BY <1>1, <1>6, <2>1 DEF AttemptStep
\* The disk changes: inputs that were captured stay, or come back.
<1>7. ASSUME returned' = returned \cup CameBack,
             \A a \in Attempt : \/ run'[a] = run[a] /\ phase'[a] = phase[a]
                                \/ phase'[a] \in Over
      PROVE  Watched'
  <2> TAKE a \in Attempt
  <2>1. CASE phase'[a] \in Over
    BY <2>1 DEF Over
  <2>2. CASE run'[a] = run[a] /\ phase'[a] = phase[a]
    <3>1. a \notin returned' /\ run[a].captured = Tree'
            => a \notin returned /\ run[a].captured = Tree /\ code' = code
      BY <1>7 DEF CameBack, Tree
    <3>2. QED
      BY <2>2, <3>1
  <2>3. QED
    BY <1>7, <2>1, <2>2
<1>8. ASSUME NEW a \in Attempt, Commit(a) PROVE Watched'
  <2>1. \A b \in Attempt : \/ run'[b] = run[b] /\ phase'[b] = phase[b]
                           \/ phase'[b] \in Over
    BY <1>8 DEF Commit, End, Goto, Over
  <2>2. QED
    BY <1>7, <1>8, <2>1 DEF Commit
<1>9. ASSUME Others PROVE Watched'
  BY <1>7, <1>9, EditCases DEF Edit
<1>10. ASSUME NEW p \in Process, Crash(p) PROVE Watched'
  <2>1. \A a \in Attempt : \/ run'[a] = run[a] /\ phase'[a] = phase[a]
                           \/ phase'[a] = "crashed"
    BY <1>10 DEF Crash
  <2>2. Tree' = Tree /\ UNCHANGED <<code, returned>>
    BY <1>10 DEF Crash, disk, Tree
  <2>3. QED
    BY <2>1, <2>2
<1>11. ASSUME UNCHANGED vars PROVE Watched'
  BY <1>11 DEF vars, disk, Tree
<1>12. QED
  BY <1>2, <1>3, <1>4, <1>5, <1>6, <1>8, <1>9, <1>10, <1>11 DEF Next

LEMMA ReceiptStep ==
  TypeOK /\ Watched /\ ReceiptInv /\ [Next]_vars => ReceiptInv'
<1> SUFFICES ASSUME TypeOK, Watched, ReceiptInv, [Next]_vars PROVE ReceiptInv'
  OBVIOUS
\* Nobody takes a kept attempt back, and no receipt that was written is lost.
<1>1. ASSUME receipt' = receipt \/ receipt' = None,
             returned \subseteq returned',
             \A a \in returned : phase[a] = "kept" => phase'[a] = "kept"
      PROVE  ReceiptInv'
  BY <1>1 DEF ReceiptInv
<1>2. ASSUME NEW a \in Attempt, AttemptStep(a) PROVE ReceiptInv'
  <2>1. receipt' = receipt /\ returned' = returned
    BY <1>2 DEF AttemptStep, Prepare, Begin, Capture, Observe, Green, Refuse,
       Consume, ConsumeRetired, CommitRefused, disk
  <2>2. \A b \in Attempt : phase[b] = "kept" => phase'[b] = "kept"
    BY <1>2 DEF AttemptStep, Prepare, Begin, Capture, Observe, Green, Refuse,
       Consume, ConsumeRetired, CommitRefused, End, Goto, TypeOK
  <2>3. QED
    BY <1>1, <2>1, <2>2 DEF TypeOK
<1>3. ASSUME NEW a \in Attempt, Commit(a) PROVE ReceiptInv'
  <2>1. phase[a] = "consumed" /\ phase'[a] = "kept" /\ returned \subseteq returned'
    BY <1>3 DEF Commit, End, Goto, TypeOK
  <2>2. run[a].captured = Tree /\ receipt' = [Tree EXCEPT !.shard = Done(shard)]
    BY <1>3 DEF Commit, Sealed
  <2>3. receipt'.code = code
    BY <2>2 DEF Tree
  <2>4. CASE a \in returned
    BY <2>1, <2>4 DEF ReceiptInv
  <2>5. CASE a \notin returned
    BY <2>1, <2>2, <2>3, <2>5 DEF Watched, ReceiptInv
  <2>6. QED
    BY <2>4, <2>5
<1>4. ASSUME Others PROVE ReceiptInv'
  <2>1. phase' = phase /\ returned \subseteq returned'
    BY <1>4, EditCases DEF Edit
  <2>2. CASE code \in GoodCode /\ receipt' = Tree
    BY <2>2 DEF ReceiptInv, Tree
  <2>3. CASE receipt' = receipt \/ receipt' = None
    BY <1>1, <2>1, <2>3
  <2>4. QED
    BY <1>4, <2>2, <2>3, EditCases
<1>5. ASSUME NEW p \in Process, Crash(p) PROVE ReceiptInv'
  <2>1. \A a \in Attempt : phase[a] = "kept" => phase'[a] = "kept"
    BY <1>5 DEF Crash, Over
  <2>2. QED
    BY <1>1, <1>5, <2>1 DEF Crash, disk, TypeOK
<1>6. ASSUME UNCHANGED vars PROVE ReceiptInv'
  BY <1>1, <1>6 DEF vars, disk
<1>7. QED
  BY <1>2, <1>3, <1>4, <1>5, <1>6 DEF Next, AttemptStep

LEMMA ReceiptInit == Init => Watched /\ ReceiptInv
BY DEF Init, Watched, ReceiptInv, Nothing

\* A receipt matches only sources its gate passed, whatever was edited while it
\* ran; the exception is an edit undone before the commit (writeAttestation
\* compares the inputs at two moments, and no two comparisons see it).
THEOREM ReceiptsAreTrue == Spec => []ReceiptIsTrue
<1>1. ASSUME TypeOK, ReceiptInv PROVE ReceiptIsTrue
  BY <1>1, TreeTyped, NoneAssumption DEF ReceiptIsTrue, ReceiptInv, Tree
<1>2. QED
  BY <1>1, TypeInit, TypeStep, ReceiptInit, WatchedStep, ReceiptStep, PTL DEF Spec

LEMMA CommitStep ==
  ASSUME TypeOK, Watched, [Next]_vars, NEW a \in Attempt,
         phase[a] = "consumed", phase'[a] = "kept"
  PROVE  code \in GoodCode \/ a \in returned
<1>1. Commit(a)
  <2>1. ASSUME NEW b \in Attempt, AttemptStep(b) PROVE FALSE
    BY <2>1 DEF AttemptStep, Prepare, Begin, Capture, Observe, Green, Refuse,
       Consume, ConsumeRetired, CommitRefused, End, Goto, TypeOK
  <2>2. ASSUME NEW b \in Attempt, Commit(b) PROVE a = b
    BY <2>2 DEF Commit, End, Goto, TypeOK
  <2>3. ~Others /\ ~UNCHANGED vars
    BY EditCases DEF Edit, vars
  <2>4. ASSUME NEW p \in Process, Crash(p) PROVE FALSE
    BY <2>4 DEF Crash, TypeOK
  <2>5. QED
    BY <2>1, <2>2, <2>3, <2>4 DEF Next, AttemptStep
<1>2. run[a].captured = Tree
  BY <1>1 DEF Commit, Sealed
<1>3. QED
  BY <1>2 DEF Watched

\* A feature turns done over sources its own gate has passed, under the same
\* proviso (attestationInputSnapshotMatches, under the lock).
THEOREM GreenBeforeDone == Spec => DoneOnGreen
<1>1. TypeOK /\ Watched /\ [Next]_vars
        => [\A a \in Attempt :
              phase[a] = "consumed" /\ phase'[a] = "kept"
                => code \in GoodCode \/ a \in returned]_vars
  BY CommitStep
<1>2. QED
  BY <1>1, TypeInit, TypeStep, ReceiptInit, WatchedStep, PTL
     DEF Spec, DoneOnGreen

\* Each completion is that of the newest gate of its process, and this gate
\* passed what is completed.
THEOREM CompletionsAreAnswered == Spec => CompletesOnItsGate
BY EpochsRetire, GreenBeforeDone DEF CompletesOnItsGate
=============================================================================
