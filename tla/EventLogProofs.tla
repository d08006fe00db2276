--------------------------- MODULE EventLogProofs ---------------------------
(***************************************************************************)
(* Proofs of EventLog's safety properties, for any gates, sessions, sets   *)
(* of failures and bounds.                                                 *)
(***************************************************************************)
EXTENDS EventLog, TLAPS

LEMMA Types ==
  /\ \A e \in GateRun : e.type = "gate_run" /\ e # NoResult
  /\ \A e \in StopEvent : e.type \in {"stop_blocked", "stop_exit_recorded"}
  /\ Completion.type = "done_attempted" /\ Completion \in Event
  /\ GateRun \subseteq Event /\ StopEvent \subseteq Event
  /\ NoResult \notin GateRun
  BY DEF GateRun, StopEvent, Completion, Event, NoResult

\* A write keeps both logs sequences of events.
LEMMA WriteTyped ==
  ASSUME LogTypeOK, NEW e \in Event, Write(e)
  PROVE  /\ live' \in Seq(Event) /\ rolled' \in Seq(Event)
         /\ recorded' \in Nat /\ faults' \in Nat
<1>1. <<e>> \in Seq(Event) /\ Append(live, e) \in Seq(Event)
  BY DEF LogTypeOK
<1>2. recorded' \in Nat /\ faults' \in Nat
  BY DEF LogTypeOK, Write, CountEvent, CountFault
<1> QED  BY <1>1, <1>2 DEF LogTypeOK, Write
-----------------------------------------------------------------------------
(* Type correctness                                                        *)

LEMMA GateTyped ==
  ASSUME LogTypeOK, NEW g \in Gate, RunGate(g) \/ RecordGate(g) \/ LoseGate(g)
  PROVE  LogTypeOK'
<1>1. CASE RunGate(g)
  <2>1. result' \in [Gate -> GateRun \cup {NoResult}]
    BY <1>1 DEF RunGate, LogTypeOK, GateRun, Found
  <2> QED  BY <1>1, <2>1 DEF RunGate, logs, journal, hooks, LogTypeOK
<1>2. CASE RecordGate(g) \/ LoseGate(g)
  <2>1. result[g] \in Event
    BY <1>2 DEF RecordGate, LoseGate, LogTypeOK, Event
  <2>2. result' \in [Gate -> GateRun \cup {NoResult}]
    BY <1>2 DEF RecordGate, LoseGate, Recorded, LogTypeOK
  <2>3. /\ live' \in Seq(Event) /\ rolled' \in Seq(Event)
        /\ recorded' \in Nat /\ faults' \in Nat
    <3>1. CASE Skip
      BY <3>1 DEF Skip, logs, LogTypeOK
    <3>2. CASE Write(result[g])
      BY <2>1, <3>2, WriteTyped
    <3> QED  BY <1>2, <3>1, <3>2 DEF RecordGate, LoseGate
  <2> QED  BY <1>2, <2>2, <2>3 DEF RecordGate, LoseGate, journal, hooks, LogTypeOK
<1> QED  BY <1>1, <1>2

LEMMA HookTyped ==
  ASSUME LogTypeOK, NEW h \in Session, Inspect(h) \/ HookRuns(h)
  PROVE  LogTypeOK'
<1>1. CASE Inspect(h)
  <2>1. hook' \in [Session -> {"idle", "clean", "failing", "fresh", "blocking",
                               "known"}]
    BY <1>1 DEF Inspect, GotoHook, LogTypeOK
  <2> QED  BY <1>1, <2>1 DEF Inspect, GotoHook, logs, journal, LogTypeOK
<1>2. CASE Resolve(h)
  BY <1>2 DEF Resolve, GotoHook, logs, journal, LogTypeOK, Found
<1>3. CASE Compare(h)
  <2>1. hook' \in [Session -> {"idle", "clean", "failing", "fresh", "blocking",
                               "known"}]
    BY <1>3 DEF Compare, GotoHook, LogTypeOK
  <2> QED  BY <1>3, <2>1 DEF Compare, GotoHook, logs, journal, LogTypeOK
<1>4. CASE Persist(h)
  <2>1. marker' \in Found /\ faults' \in Nat
    BY <1>4 DEF Persist, CountFault, LogTypeOK
  <2> QED  BY <1>4, <2>1 DEF Persist, GotoHook, logs, journal, LogTypeOK
<1>5. ASSUME NEW from \in {"blocking", "known"},
             NEW type \in {"stop_blocked", "stop_exit_recorded"},
             Answer(h, from, type)
      PROVE  LogTypeOK'
  <2> DEFINE e == [type |-> type, failures |-> found[h]]
  <2>1. hook[h] = from /\ found[h] \in Failure
    BY <1>5 DEF Answer, GotoHook, LogTypeOK, Found
  <2>2. e \in Event
    BY <2>1 DEF Event, StopEvent
  <2>3. /\ live' \in Seq(Event) /\ rolled' \in Seq(Event)
        /\ recorded' \in Nat /\ faults' \in Nat
    <3>1. CASE Skip
      BY <3>1 DEF Skip, logs, LogTypeOK
    <3>2. CASE Write(e)
      BY <2>2, <3>2, WriteTyped
    <3> QED  BY <1>5, <3>1, <3>2 DEF Answer
  <2> QED  BY <1>5, <2>1, <2>3 DEF Answer, GotoHook, journal, LogTypeOK, Found
<1> QED  BY <1>1, <1>2, <1>3, <1>4, <1>5 DEF HookRuns, Block, Allow

LEMMA TypeStep == LogTypeOK /\ [LogNext]_logVars => LogTypeOK'
<1> SUFFICES ASSUME LogTypeOK, [LogNext]_logVars PROVE LogTypeOK'
  OBVIOUS
<1>1. ASSUME NEW f \in Found, Change(f) PROVE LogTypeOK'
  BY <1>1 DEF Change, logs, journal, hooks, LogTypeOK
<1>2. CASE CommitCompletion
  <2>1. Append(live, Completion) \in Seq(Event)
    BY Types DEF LogTypeOK
  <2> QED  BY <1>2, <2>1 DEF CommitCompletion, CountEvent, journal, hooks, LogTypeOK
<1>3. CASE Die
  <2>1. Append(live, Completion) \in Seq(Event)
    BY Types DEF LogTypeOK
  <2>2. live' \in Seq(Event)
    BY <1>3, <2>1 DEF Die, LogTypeOK
  <2>3. before' = live /\ faults' \in Nat
    BY <1>3 DEF Die, CountFault, LogTypeOK
  <2>4. /\ pending' \in BOOLEAN
        /\ UNCHANGED <<rolled, failing, marker, result, hook, found, recorded,
                       changes>>
    BY <1>3 DEF Die, hooks
  <2> QED  BY <2>2, <2>3, <2>4 DEF LogTypeOK
<1>4. CASE Recover
  <2>1. live' \in Seq(Event) /\ before' \in Seq(Event)
    BY <1>4 DEF Recover, LogTypeOK
  <2>2. /\ pending' \in BOOLEAN
        /\ UNCHANGED <<rolled, failing, marker, result, hook, found, recorded,
                       changes, faults>>
    BY <1>4 DEF Recover, hooks
  <2> QED  BY <2>1, <2>2 DEF LogTypeOK
<1>5. CASE UNCHANGED logVars
  BY <1>5 DEF logVars, logs, journal, hooks, LogTypeOK
<1> QED  BY <1>1, <1>2, <1>3, <1>4, <1>5, GateTyped, HookTyped DEF LogNext

\* Types, and the hooks' registers, for any number of gates and sessions.
THEOREM TypeCorrect == LogSpec => []LogTypeOK
<1>1. LogInit => LogTypeOK
  <2> SUFFICES ASSUME LogInit PROVE LogTypeOK
    OBVIOUS
  <2>1. <<>> \in Seq(Event)
    OBVIOUS
  <2>2. result \in [Gate -> GateRun \cup {NoResult}]
    BY DEF LogInit
  <2> QED  BY <2>1, <2>2 DEF LogInit, LogTypeOK, Found
<1> QED  BY <1>1, TypeStep, PTL DEF LogSpec
-----------------------------------------------------------------------------
(* The log and a pending journal                                           *)

\* Where a log can go in one step.
LEMMA LogSteps ==
  ASSUME LogTypeOK, [LogNext]_logVars
  PROVE  \/ UNCHANGED <<live, rolled>>
         \/ \E g \in Gate : ~Repeats(result[g]) /\ result[g] \in GateRun
                              /\ ~pending /\ Write(result[g])
         \/ \E e \in StopEvent : ~pending /\ Write(e)
         \/ live' = Append(live, Completion) /\ ~pending
         \/ pending /\ live' = before
                /\ live \in {before, Append(before, Completion)}
<1>1. ASSUME NEW h \in Session, Block(h) \/ Allow(h),
             ~UNCHANGED <<live, rolled>>
      PROVE  \E e \in StopEvent : ~pending /\ Write(e)
  <2>1. found[h] \in Failure
    BY <1>1 DEF Block, Allow, Answer, GotoHook, LogTypeOK, Found
  <2>2. PICK type \in {"stop_blocked", "stop_exit_recorded"} :
          ~pending /\ Write([type |-> type, failures |-> found[h]])
    BY <1>1 DEF Block, Allow, Answer, Skip, logs
  <2>3. [type |-> type, failures |-> found[h]] \in StopEvent
    BY <2>1 DEF StopEvent
  <2> QED  BY <2>2, <2>3
<1>2. ASSUME NEW g \in Gate, RecordGate(g), ~UNCHANGED <<live, rolled>>
      PROVE  ~Repeats(result[g]) /\ result[g] \in GateRun /\ ~pending
               /\ Write(result[g])
  BY <1>2 DEF RecordGate, Skip, logs, LogTypeOK
<1>3. ASSUME NEW h \in Session,
             Inspect(h) \/ Resolve(h) \/ Compare(h) \/ Persist(h)
      PROVE  UNCHANGED <<live, rolled>>
  BY <1>3 DEF Inspect, Resolve, Compare, Persist, logs
<1>4. ASSUME NEW g \in Gate, RunGate(g) \/ LoseGate(g)
      PROVE  UNCHANGED <<live, rolled>>
  BY <1>4 DEF RunGate, LoseGate, Skip, logs
<1>5. ASSUME NEW f \in Found, Change(f) PROVE UNCHANGED <<live, rolled>>
  BY <1>5 DEF Change, logs
<1>6. CASE CommitCompletion
  BY <1>6 DEF CommitCompletion
<1>7. CASE Die
  BY <1>7 DEF Die
<1>8. CASE Recover
  BY <1>8 DEF Recover
<1>9. CASE UNCHANGED logVars
  BY <1>9 DEF logVars, logs
<1> QED  BY <1>1, <1>2, <1>3, <1>4, <1>5, <1>6, <1>7, <1>8, <1>9
         DEF LogNext, HookRuns

LEMMA JournalStep ==
  LogTypeOK /\ JournalStaysRecoverable /\ [LogNext]_logVars => JournalStaysRecoverable'
<1> SUFFICES ASSUME LogTypeOK, JournalStaysRecoverable, [LogNext]_logVars, pending'
             PROVE  live' \in {before', Append(before', Completion)}
  BY DEF JournalStaysRecoverable
<1>1. CASE Die
  BY <1>1 DEF Die
<1>2. CASE ~Die
  <2>1. pending /\ before' = before
    BY <1>2 DEF LogNext, RunGate, RecordGate, LoseGate, Inspect, HookRuns, Resolve,
                Compare, Persist, Block, Allow, Answer, Change, CommitCompletion, Recover,
                journal, logVars
  <2>2. live' \in {live, before}
    BY <2>1, LogSteps
  <2> QED  BY <2>1, <2>2 DEF JournalStaysRecoverable
<1> QED  BY <1>1, <1>2

\* While a journal is pending, the log is one of its two images.
THEOREM JournalIsRecoverable == LogSpec => []JournalStaysRecoverable
<1>1. LogInit => JournalStaysRecoverable
  BY DEF LogInit, JournalStaysRecoverable
<1> QED  BY <1>1, JournalStep, TypeCorrect, PTL DEF LogSpec
-----------------------------------------------------------------------------
(* Repetitions                                                             *)

\* What stands between two gate runs that say the same.
Between(log, i, j) ==
  \E k \in (i + 1)..(j - 1) :
    \/ log[k].type = "stop_blocked"
    \/ log[k].type = "gate_run" /\ log[k] # log[i]

LEMMA AppendedEvents ==
  ASSUME NEW e, live \in Seq(Event)
  PROVE  /\ Append(live, e) \in Seq(Event \cup {e})
         /\ Len(Append(live, e)) = Len(live) + 1
         /\ \A i \in 1..Len(live) : Append(live, e)[i] = live[i]
         /\ Append(live, e)[Len(live) + 1] = e
         /\ Len(live) \in Nat
  OBVIOUS

\* Appending an event keeps the log free of repetitions, unless it is itself
\* the repetition of a gate run.
LEMMA AppendKeeps ==
  ASSUME live \in Seq(Event), GatesDoNotRepeat, NEW e \in Event,
         e.type = "gate_run" => ~Repeats(e), live' = Append(live, e)
  PROVE  GatesDoNotRepeat'
<1> SUFFICES ASSUME NEW i \in 1..Len(live'), NEW j \in 1..Len(live'),
                    i < j, live'[i] = live'[j], live'[i].type = "gate_run"
             PROVE  Between(live', i, j)
  BY Zenon DEF GatesDoNotRepeat, Between
<1>1. /\ Len(live') = Len(live) + 1 /\ Len(live) \in Nat
      /\ \A k \in 1..Len(live) : live'[k] = live[k]
      /\ live'[Len(live) + 1] = e
  BY AppendedEvents
<1>2. i \in 1..Len(live)
  BY <1>1
<1>3. CASE j \in 1..Len(live)
  <2>1. PICK k \in (i + 1)..(j - 1) :
          \/ live[k].type = "stop_blocked"
          \/ live[k].type = "gate_run" /\ live[k] # live[i]
    BY <1>1, <1>2, <1>3 DEF GatesDoNotRepeat
  <2>2. live'[k] = live[k] /\ live'[i] = live[i]
    BY <1>1, <1>2, <1>3
  <2> QED  BY <2>1, <2>2 DEF Between
<1>4. CASE j = Len(live) + 1
  <2>1. live[i] = e /\ live'[i] = live[i]
    BY <1>1, <1>2, <1>4
  <2>2. PICK k \in (i + 1)..Len(live) : live[k].type \in {"gate_run", "stop_blocked"}
    BY <1>1, <1>2, <2>1 DEF Repeats
  <2>3. k \in (i + 1)..(j - 1) /\ k \in 1..Len(live) /\ live'[k] = live[k]
    BY <1>1, <1>2, <1>4
  <2>4. CASE live[k].type = "gate_run" /\ live[k] = e
    <3>1. PICK m \in (i + 1)..(k - 1) :
            \/ live[m].type = "stop_blocked"
            \/ live[m].type = "gate_run" /\ live[m] # live[i]
      BY <1>2, <2>1, <2>3, <2>4 DEF GatesDoNotRepeat
    <3>2. m \in (i + 1)..(j - 1) /\ live'[m] = live[m]
      BY <1>1, <1>2, <2>3, <3>1
    <3> QED  BY <2>1, <3>1, <3>2 DEF Between
  <2> QED  BY <2>1, <2>2, <2>3, <2>4 DEF Between
<1> QED  BY <1>1, <1>3, <1>4

\* A write of an event that does not repeat keeps the log so.
LEMMA WriteKeeps ==
  ASSUME LogTypeOK, GatesDoNotRepeat, NEW e \in Event,
         e.type = "gate_run" => ~Repeats(e), Write(e)
  PROVE  GatesDoNotRepeat'
<1>1. CASE live' = Append(live, e)
  BY <1>1, AppendKeeps DEF LogTypeOK
<1>2. CASE live' = <<e>>
  <2>1. Len(live') = 1
    BY <1>2
  <2> QED  BY <2>1 DEF GatesDoNotRepeat
<1> QED  BY <1>1, <1>2 DEF Write

\* A log that was free of repetitions, and is cut, still is.
LEMMA CutKeeps ==
  ASSUME NEW s \in Seq(Event), live = Append(s, Completion), GatesDoNotRepeat,
         live' = s
  PROVE  GatesDoNotRepeat'
<1>1. /\ Len(live) = Len(s) + 1 /\ Len(s) \in Nat
      /\ \A k \in 1..Len(s) : live[k] = s[k]
  OBVIOUS
<1> SUFFICES ASSUME NEW i \in 1..Len(live'), NEW j \in 1..Len(live'),
                    i < j, live'[i] = live'[j], live'[i].type = "gate_run"
             PROVE  Between(live', i, j)
  BY Zenon DEF GatesDoNotRepeat, Between
<1>2. live[i] = live'[i] /\ live[j] = live'[j]
  BY <1>1
<1>3. PICK k \in (i + 1)..(j - 1) :
        \/ live[k].type = "stop_blocked"
        \/ live[k].type = "gate_run" /\ live[k] # live[i]
  BY <1>1, <1>2 DEF GatesDoNotRepeat
<1>4. live'[k] = live[k]
  BY <1>1
<1> QED  BY <1>2, <1>3, <1>4 DEF Between

LEMMA RepeatStep ==
  LogTypeOK /\ GatesDoNotRepeat /\ [LogNext]_logVars => GatesDoNotRepeat'
<1> SUFFICES ASSUME LogTypeOK, GatesDoNotRepeat, [LogNext]_logVars PROVE GatesDoNotRepeat'
  OBVIOUS
<1>1. CASE UNCHANGED <<live, rolled>>
  BY <1>1 DEF GatesDoNotRepeat
<1>2. ASSUME NEW g \in Gate, ~Repeats(result[g]), result[g] \in GateRun,
             Write(result[g])
      PROVE  GatesDoNotRepeat'
  BY <1>2, Types, WriteKeeps
<1>3. ASSUME NEW e \in StopEvent, Write(e) PROVE GatesDoNotRepeat'
  BY <1>3, Types, WriteKeeps
<1>4. CASE live' = Append(live, Completion)
  BY <1>4, Types, AppendKeeps DEF LogTypeOK
<1>5. CASE live' = before /\ live \in {before, Append(before, Completion)}
  <2>1. CASE live = before
    BY <1>5, <2>1 DEF GatesDoNotRepeat
  <2>2. CASE live = Append(before, Completion)
    BY <1>5, <2>2, CutKeeps DEF LogTypeOK
  <2> QED  BY <1>5, <2>1, <2>2
<1> QED  BY <1>1, <1>2, <1>3, <1>4, <1>5, LogSteps

\* No gate run is recorded a second time without a reason, whatever processes
\* race to record it.
THEOREM RepetitionsAreLeftOut == LogSpec => []GatesDoNotRepeat
<1>1. LogInit => GatesDoNotRepeat
  BY DEF LogInit, GatesDoNotRepeat
<1> QED  BY <1>1, RepeatStep, TypeCorrect, PTL DEF LogSpec
-----------------------------------------------------------------------------
(* Blocks                                                                  *)

\* A log whose last gate run says f, with no blocked stop after it, has no
\* unobserved block of f.
LEMMA LastGateObserves ==
  ASSUME NEW log \in Seq(Event), NEW n \in 1..Len(log),
         log[n].type = "gate_run",
         \A j \in (n + 1)..Len(log) : log[j].type # "stop_blocked",
         NEW i \in 1..Len(log), log[i].type = "stop_blocked",
         log[i].failures = log[n].failures
  PROVE  Observed(log, i)
<1>1. i < n
  OBVIOUS
<1> QED  BY <1>1 DEF Observed

LEMMA RecordObserves ==
  ASSUME LogTypeOK, NEW g \in Gate, RecordGate(g),
         NEW i \in 1..Len(rolled' \o live'),
         (rolled' \o live')[i].type = "stop_blocked",
         (rolled' \o live')[i].failures = result[g].failures
  PROVE  Observed(rolled' \o live', i)
<1> DEFINE log == rolled' \o live'
           e == result[g]
<1>1. e \in GateRun /\ e.type = "gate_run" /\ e \in Event
  BY Types DEF RecordGate, LogTypeOK
<1>2. rolled' \in Seq(Event) /\ live' \in Seq(Event)
  <2>1. CASE Skip
    BY <2>1 DEF Skip, logs, LogTypeOK
  <2>2. CASE Write(e)
    BY <1>1, <2>2, WriteTyped
  <2> QED  BY <2>1, <2>2 DEF RecordGate
<1>3. /\ log \in Seq(Event)
      /\ Len(log) = Len(rolled') + Len(live')
      /\ Len(rolled') \in Nat /\ Len(live') \in Nat
      /\ \A k \in 1..Len(live') : log[Len(rolled') + k] = live'[k]
      /\ \A k \in 1..Len(log) : k > Len(rolled') => log[k] = live'[k - Len(rolled')]
  BY <1>2
<1>4. PICK n \in 1..Len(live') :
        /\ live'[n] = e
        /\ \A j \in (n + 1)..Len(live') : live'[j].type # "stop_blocked"
  <2>1. CASE Repeats(e) /\ Skip
    <3>1. PICK k \in 1..Len(live) :
            /\ live[k] = e
            /\ \A j \in (k + 1)..Len(live) :
                 live[j].type \notin {"gate_run", "stop_blocked"}
      BY <2>1 DEF Repeats
    <3>2. live' = live
      BY <2>1 DEF Skip, logs
    <3> QED  BY <3>1, <3>2
  <2>2. CASE Write(e) /\ live' = Append(live, e)
    <3>1. Len(live') = Len(live) + 1 /\ live'[Len(live) + 1] = e /\ Len(live) \in Nat
      BY <2>2, AppendedEvents DEF LogTypeOK
    <3> QED  BY <3>1
  <2>3. CASE Write(e) /\ live' = <<e>>
    <3>1. Len(live') = 1 /\ live'[1] = e
      BY <2>3
    <3> QED  BY <3>1
  <2> QED  BY <2>1, <2>2, <2>3 DEF RecordGate, Write
<1>5. Len(rolled') + n \in 1..Len(log) /\ log[Len(rolled') + n] = e
  BY <1>3, <1>4
<1>6. \A j \in (Len(rolled') + n + 1)..Len(log) : log[j].type # "stop_blocked"
  <2> TAKE j \in (Len(rolled') + n + 1)..Len(log)
  <2>1. j - Len(rolled') \in (n + 1)..Len(live') /\ log[j] = live'[j - Len(rolled')]
    BY <1>3, <1>4
  <2> QED  BY <1>4, <2>1
<1> HIDE DEF log
<1> QED  BY <1>1, <1>3, <1>5, <1>6, LastGateObserves DEF log

\* Once a gate has recorded what it found, or left it out, no block of that is
\* unobserved in the two logs.
THEOREM GatesObserveBlocks == LogSpec => BlocksAreObserved
<1>1. LogTypeOK /\ [LogNext]_logVars =>
        [\A g \in Gate : RecordGate(g) =>
           LET log == rolled' \o live'
           IN \A i \in 1..Len(log) :
                log[i].type = "stop_blocked"
                  /\ log[i].failures = result[g].failures => Observed(log, i)]_logVars
  BY RecordObserves
<1> QED  BY <1>1, TypeCorrect, PTL DEF LogSpec, BlocksAreObserved

\* Repeated gate runs, and only those, stay out of the log.
THEOREM LogLeavesOutRepetitions == LogSpec => OnlyRepetitionsAreLeftOut
BY RepetitionsAreLeftOut, GatesObserveBlocks, PTL DEF OnlyRepetitionsAreLeftOut
=============================================================================
