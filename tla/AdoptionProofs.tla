---------------------------- MODULE AdoptionProofs ----------------------------
(***************************************************************************)
(* How a project comes to use the engine: the hosts' setup, initialisation *)
(* through the server, and the onboarding interview.                       *)
(***************************************************************************)
EXTENDS HostSetup, ServerInit, Onboarding, WellFoundedInduction, TLAPS

-----------------------------------------------------------------------------
(* Hosts: a run comes to every place once.                                 *)

Position(p) ==
  CASE p = "runtime" -> 1 [] p = "shared skill" -> 2 [] p = "links" -> 3
    [] p = "bridge link" -> 4 [] p = "codex legacy" -> 5
    [] p = "cursor legacy" -> 6 [] p = "codex" -> 7 [] p = "gemini" -> 8
    [] p = "agents" -> 9 [] p = "bridge" -> 10 [] p = "claude skill" -> 11
    [] p = "claude" -> 12 [] p = "cursor skill" -> 13 [] p = "cursor" -> 14
    [] p = "claude section" -> 15 [] p = "agents block" -> 16

LEMMA VisitCount == Len(Visits) = 16
BY DEF Visits

LEMMA PlacesInOrder ==
  /\ Visits[1] = "runtime" /\ Visits[2] = "shared skill" /\ Visits[3] = "links"
  /\ Visits[4] = "bridge link" /\ Visits[5] = "codex legacy"
  /\ Visits[6] = "cursor legacy" /\ Visits[7] = "codex" /\ Visits[8] = "gemini"
  /\ Visits[9] = "agents" /\ Visits[10] = "bridge" /\ Visits[11] = "claude skill"
  /\ Visits[12] = "claude" /\ Visits[13] = "cursor skill" /\ Visits[14] = "cursor"
  /\ Visits[15] = "claude section" /\ Visits[16] = "agents block"
BY DEF Visits

LEMMA PositionOfVisit ==
  \A i \in 1..Len(Visits) : Position(Visits[i]) = i /\ Visits[i] \in Place
<1> SUFFICES ASSUME NEW i \in 1..16
             PROVE  Position(Visits[i]) = i /\ Visits[i] \in Place
  BY VisitCount
<1>1. i \in {1, 2, 3, 4, 5, 6, 7, 8, 9, 10, 11, 12, 13, 14, 15, 16}
  OBVIOUS
<1>2. Position(Visits[i]) = i
  BY <1>1, PlacesInOrder DEF Position
<1>3. Visits[i] \in Place
  BY <1>1, PlacesInOrder DEF Place, Entry, Skill, LegacyEntry, Link
<1> QED BY <1>2, <1>3

-----------------------------------------------------------------------------

\* What a visit leaves behind.
Wired(p) ==
  CASE p = "runtime" -> file[p] = engine
    [] p \in Entry -> file[p] \in {"launcher", "foreign", "damaged"}
    [] p = "bridge" -> file[p] \in {engine} \cup Engine \/ Preserved(p)
    [] OTHER -> TRUE

Selected(run) == {i \in 1..Len(Visits) : Visited(Visits[i], run.hosts, run.update)}

\* The places an undisturbed run has been to are wired, and they come before
\* those it has still to go to.
RunInv ==
  setup # NoSetup =>
    /\ setup.todo \subseteq Selected(setup)
    /\ setup.calm => \A i \in Selected(setup) \ setup.todo :
         Wired(Visits[i]) /\ \A j \in setup.todo : i < j

HostInv == HostSetupTypeOK /\ RunInv /\ HostsStartTheEngine

LEMMA HostInit == HostSetupInit => HostInv
<1>1. HostSetupInit => HostSetupTypeOK
  BY SetupAssumption DEF HostSetupInit, HostSetupTypeOK
<1>2. HostSetupInit => RunInv /\ HostsStartTheEngine
  BY DEF HostSetupInit, RunInv, HostsStartTheEngine
<1> QED BY <1>1, <1>2 DEF HostInv

\* A visit leaves a place wired, with something it may hold.
LEMMA VisitWires ==
  ASSUME HostSetupTypeOK, NEW p \in Place, NEW force \in BOOLEAN,
         file' = [file EXCEPT ![p] = Visit(p, force)], engine' = engine
  PROVE  file'[p] \in Holds(p) /\ Wired(p)'
<1>1. file[p] \in Holds(p) /\ file'[p] = Visit(p, force) /\ engine \in Engine
  BY DEF HostSetupTypeOK
<1>2. CASE p \in Entry
  <2>1. Visit(p, force) = Merge(file[p], "launcher", force) /\ Holds(p) = Marks
    BY <1>2 DEF Visit, Holds, Entry, Skill, LegacyEntry, Link
  <2>3. Wired(p)' <=> file'[p] \in {"launcher", "foreign", "damaged"}
    BY <1>2 DEF Wired, Entry
  <2>2. file[p] \in Marks =>
          Merge(file[p], "launcher", force) \in {"launcher", "foreign", "damaged"}
    BY SetupAssumption DEF Merge, IsKnownLaunch, Marks
  <2> QED BY <1>1, <2>1, <2>2, <2>3 DEF Marks
<1>3. CASE p = "bridge"
  <2>1. Visit(p, force) = Bridge(force) /\ Holds(p) = Marks \cup Engine
    BY <1>3 DEF Visit, Holds, Entry, Skill, LegacyEntry, Link
  <2>5. Wired(p)' <=> file'[p] \in {engine} \cup Engine \/ Preserved(p)'
    BY <1>1, <1>3 DEF Wired, Entry
  <2>2. file'["bridge link"] = file["bridge link"]
    BY <1>3 DEF HostSetupTypeOK
  <2>3. Bridge(force) \in {"damaged", "foreign"} \cup Engine \/ file["bridge link"] # "none"
    BY <1>1, <1>3, <2>1 DEF Bridge, Merge, IsKnownLaunch, Marks
  <2>4. Bridge(force) \in Marks \cup Engine
    BY <1>1, <1>3, <2>1 DEF Bridge, Merge
  <2> QED BY <1>1, <1>3, <2>1, <2>2, <2>3, <2>4, <2>5 DEF Preserved
<1>4. ASSUME p \notin {"runtime", "bridge"} \cup Entry PROVE Wired(p)'
  BY <1>4 DEF Wired
<1>5. CASE p \in {"runtime", "claude section"}
  <2>1. Visit(p, force) = engine /\ Holds(p) = {"none"} \cup Engine
    BY <1>5 DEF Visit, Holds, Entry, Skill, LegacyEntry, Link
  <2> QED BY <1>1, <1>4, <1>5, <2>1 DEF Entry, Wired
<1>6. CASE p \in Skill \cup {"agents block"}
  <2>1. Visit(p, force) \in {file[p], engine}
    BY <1>6 DEF Visit, Entry, Skill, LegacyEntry, Link, CopySkill
  <2>2. Holds(p) = {"none", "foreign"} \cup Engine
    BY <1>6 DEF Holds, Entry, Skill, LegacyEntry, Link
  <2> QED BY <1>1, <1>4, <1>6, <2>1, <2>2 DEF Entry, Skill
<1>7. CASE p \in LegacyEntry
  <2>1. Visit(p, force) \in {"none", file[p]} /\ Holds(p) = Marks \cup Engine
    BY <1>7 DEF Visit, Holds, Entry, Skill, LegacyEntry, Link, RemoveEntry
  <2> QED BY <1>1, <1>4, <1>7, <2>1 DEF Entry, LegacyEntry, Marks
<1>8. CASE p \in Link
  <2>1. Visit(p, force) \in {"none", file[p]}
    BY <1>8 DEF Visit, Entry, Skill, LegacyEntry, Link, RemoveLink
  <2>2. Holds(p) = {"none", "foreign"} \cup Engine
    BY <1>8 DEF Holds, Entry, Skill, LegacyEntry, Link
  <2> QED BY <1>1, <1>4, <1>8, <2>1, <2>2 DEF Entry, Link
<1> QED BY <1>2, <1>3, <1>5, <1>6, <1>7, <1>8 DEF Place

\* A place that is wired stays so while nothing it depends on changes.
LEMMA WiredStays ==
  ASSUME NEW p, Wired(p), engine' = engine, file'[p] = file[p],
         p = "bridge" => file'["bridge link"] = file["bridge link"]
  PROVE  Wired(p)'
BY DEF Wired, Preserved, Entry

\* What is left of a host when every place a run selects is wired.
LEMMA WiredStarts ==
  ASSUME NEW run, run.hosts \subseteq Host,
         \A i \in Selected(run) : Wired(Visits[i])',
         NEW h \in run.hosts, NEW p \in StartsFrom(h)
  PROVE  (Starts(p) = engine \/ Preserved(p) \/ (p = "bridge" /\ file[p] \in Engine))'
<1>1. h \in {"codex", "gemini", "antigravity", "claude", "cursor"}
  BY SetupAssumption
<1>2. file'["runtime"] = engine'
  <2>1. Visited("runtime", run.hosts, run.update) /\ 1 \in 1..Len(Visits)
    BY VisitCount DEF Visited, LegacyEntry, Link
  <2>2. 1 \in Selected(run) /\ Visits[1] = "runtime"
    BY <2>1, PlacesInOrder DEF Selected
  <2>3. Wired("runtime")'
    BY <2>2
  <2> QED BY <2>3 DEF Wired, Entry
<1>3. ASSUME NEW i \in 1..16, Visits[i] = p, Visited(p, run.hosts, run.update)
      PROVE  Wired(p)'
  <2>1. i \in Selected(run)
    BY <1>3, VisitCount DEF Selected
  <2> QED BY <1>3, <2>1
<1>4. CASE h = "antigravity"
  <2>1. p \in {"agents", "bridge"}
    BY <1>4 DEF StartsFrom
  <2>2. Visited(p, run.hosts, run.update)
    BY <1>4, <2>1 DEF Visited, LegacyEntry, Link
  <2>4. \E i \in 1..16 : Visits[i] = p
    <3>1. 9 \in 1..16 /\ 10 \in 1..16
      OBVIOUS
    <3> QED BY <2>1, <3>1, PlacesInOrder
  <2>3. Wired(p)'
    BY <1>3, <2>2, <2>4
  <2> QED BY <1>2, <2>1, <2>3 DEF Wired, Starts, Preserved, Entry
<1>5. CASE h # "antigravity"
  <2>1. p = h /\ p \in Entry \ {"agents"}
    BY <1>1, <1>5 DEF StartsFrom, Entry
  <2>2. Visited(p, run.hosts, run.update)
    BY <2>1 DEF Visited, Entry, LegacyEntry, Link
  <2>4. \E i \in 1..16 : Visits[i] = p
    <3>1. 12 \in 1..16 /\ 14 \in 1..16 /\ 7 \in 1..16 /\ 8 \in 1..16
      OBVIOUS
    <3> QED BY <2>1, <3>1, PlacesInOrder DEF Entry
  <2>3. Wired(p)'
    BY <1>3, <2>2, <2>4
  <2> QED BY <1>2, <2>1, <2>3 DEF Wired, Starts, Preserved, Entry
<1> QED BY <1>4, <1>5

\* A visit of a run that nothing disturbs keeps what the earlier ones did.
LEMMA VisitKeeps == ASSUME HostInv, VisitNext PROVE HostInv'
<1> USE DEF HostInv
<1>1. PICK next \in setup.todo :
        /\ \A i \in setup.todo : next <= i
        /\ file' = [file EXCEPT ![Visits[next]] = Visit(Visits[next], setup.force)]
        /\ under' = (under /\ file'["claude section"] = file["claude section"])
        /\ setup' = IF setup.todo = {next} THEN NoSetup
                    ELSE [setup EXCEPT !.todo = @ \ {next}]
        /\ report' = IF setup.todo = {next} /\ setup.calm
                     THEN setup.hosts
                     ELSE IF file' # file THEN NoReport ELSE report
        /\ setup # NoSetup /\ engine' = engine
  BY DEF VisitNext
<1> DEFINE here == Visits[next]
<1>2. /\ next \in 1..Len(Visits) /\ here \in Place /\ next \in Selected(setup)
      /\ setup.force \in BOOLEAN /\ setup.todo \subseteq 1..Len(Visits)
  BY <1>1, PositionOfVisit DEF RunInv, Selected, HostSetupTypeOK
<1>3. file'[here] \in Holds(here) /\ Wired(here)'
  BY <1>1, <1>2, VisitWires
<1>4. HostSetupTypeOK'
  <2>1. DOMAIN file' = Place /\ \A p \in Place : file'[p] \in Holds(p)
    BY <1>1, <1>3 DEF HostSetupTypeOK
  <2>2. \A p \in Place : Holds(p)' = Holds(p)
    BY DEF Holds
  <2> QED BY <1>1, <2>1, <2>2 DEF HostSetupTypeOK
<1>5. ASSUME setup.calm, NEW i \in Selected(setup) \ (setup.todo \ {next})
      PROVE  Wired(Visits[i])' /\ \A j \in setup.todo \ {next} : i < j
  <2>1. CASE i = next
    <3>1. ASSUME NEW j \in setup.todo \ {next} PROVE next < j
      <4>1. next <= j
        BY <1>1
      <4>2. j \in 1..16 /\ next \in 1..16
        BY <1>2, VisitCount
      <4> QED BY <4>1, <4>2
    <3> QED BY <1>3, <2>1, <3>1
  <2>2. CASE i # next
    <3>1. /\ i \in 1..Len(Visits) /\ Wired(Visits[i])
          /\ \A j \in setup.todo : i < j
      BY <1>1, <1>5, <2>2 DEF RunInv, Selected
    <3>2. Visits[i] # here /\ Visits[i] \in Place
      BY <1>2, <2>2, <3>1, PositionOfVisit
    <3>3. ASSUME Visits[i] = "bridge" PROVE here # "bridge link"
      <4>1. Position("bridge") = 10 /\ Position("bridge link") = 4
        BY DEF Position
      <4>2. i < next
        BY <1>1, <2>2, <3>1
      <4>3. i = 10 /\ Position(here) = next
        BY <1>2, <3>1, <3>3, <4>1, PositionOfVisit
      <4>4. next # 4
        BY <4>2, <4>3
      <4> HIDE DEF here
      <4> QED BY <4>1, <4>3, <4>4
    <3>4. /\ file'[Visits[i]] = file[Visits[i]]
          /\ Visits[i] = "bridge" => file'["bridge link"] = file["bridge link"]
      BY <1>1, <3>2, <3>3 DEF HostSetupTypeOK, Place, Link
    <3> QED BY <1>1, <3>1, <3>4, WiredStays
  <2> QED BY <2>1, <2>2
<1>6. RunInv'
  <2>1. CASE setup.todo = {next}
    BY <1>1, <2>1 DEF RunInv
  <2>2. CASE setup.todo # {next}
    <3>1. /\ setup'.todo = setup.todo \ {next} /\ setup'.calm = setup.calm
          /\ Selected(setup') = Selected(setup)
      BY <1>1, <2>2 DEF HostSetupTypeOK, Selected
    <3>2. (setup' # NoSetup => Selected(setup)' = Selected(setup)) /\ setup.todo \subseteq Selected(setup)
      BY <1>1, <3>1 DEF RunInv, Selected
    <3> QED BY <1>5, <3>1, <3>2 DEF RunInv
  <2> QED BY <2>1, <2>2
<1>7. HostsStartTheEngine'
  <2>1. CASE setup.todo = {next} /\ setup.calm
    <3>1. \A i \in Selected(setup) : Wired(Visits[i])'
      BY <1>5, <2>1
    <3>2. setup.hosts \subseteq Host
      BY <1>1 DEF HostSetupTypeOK
    <3>3. ASSUME NEW h \in setup.hosts, NEW p \in StartsFrom(h)
          PROVE  (Starts(p) = engine \/ Preserved(p) \/ (p = "bridge" /\ file[p] \in Engine))'
      BY <3>1, <3>2, WiredStarts
    <3> QED BY <1>1, <2>1, <3>3 DEF HostsStartTheEngine, StartsFrom
  <2>2. CASE ~(setup.todo = {next} /\ setup.calm)
    BY <1>1, <2>2 DEF HostsStartTheEngine, Starts, Preserved, StartsFrom
  <2> QED BY <2>1, <2>2
<1> QED BY <1>4, <1>6, <1>7

LEMMA OtherHostSteps ==
  ASSUME HostInv, [HostSetupNext]_setupVars, ~VisitNext PROVE HostInv'
<1> USE DEF HostInv
<1>1. ASSUME NEW hosts \in SUBSET Host, NEW force \in BOOLEAN, NEW update \in BOOLEAN,
             BeginSetup(hosts, force, update)
      PROVE  HostInv'
  <2> DEFINE run == [hosts |-> hosts, force |-> force, update |-> update,
                     todo |-> {i \in 1..Len(Visits) : Visited(Visits[i], hosts, update)},
                     calm |-> TRUE]
  <2>1. setup' = run /\ UNCHANGED <<engine, file, under, report>>
    BY <1>1 DEF BeginSetup
  <2>2. 1 \in run.todo
    <3>1. 1 \in 1..Len(Visits)
      BY VisitCount
    <3>2. Visited(Visits[1], hosts, update)
      BY PlacesInOrder DEF Visited, LegacyEntry, Link
    <3> QED BY <3>1, <3>2
  <2>3. run.todo = Selected(run)
    BY DEF Selected
  <2>4. HostSetupTypeOK'
    BY <2>1, <2>2 DEF HostSetupTypeOK, Holds
  <2>5. RunInv'
    <3> HIDE DEF run
    <3>1. setup'.todo = Selected(setup')
      BY <2>1, <2>3
    <3>2. (RunInv)' <=> (setup' # NoSetup =>
             /\ setup'.todo \subseteq Selected(setup')
             /\ setup'.calm => \A i \in Selected(setup') \ setup'.todo :
                  Wired(Visits[i])' /\ \A j \in setup'.todo : i < j)
      BY DEF RunInv, Selected
    <3> QED BY <3>1, <3>2
  <2>6. HostsStartTheEngine'
    BY <2>1 DEF HostsStartTheEngine, Starts, Preserved, StartsFrom
  <2> QED BY <2>4, <2>5, <2>6
<1>2. CASE StopSetup
  BY <1>2 DEF StopSetup, HostSetupTypeOK, RunInv, HostsStartTheEngine, Starts,
     Preserved, StartsFrom, Holds
<1>3. ASSUME NEW e \in Engine, MoveEngine(e) PROVE HostInv'
  BY <1>3 DEF MoveEngine, HostSetupTypeOK, RunInv, HostsStartTheEngine, Holds
<1>4. ASSUME NEW p \in Place, NEW x, UserEdits(p, x) PROVE HostInv'
  <2>1. x \in Holds(p)
    BY <1>4 DEF UserEdits, Holds, Marks, Entry, Skill, LegacyEntry, Link
  <2>2. HostSetupTypeOK'
    BY <1>4, <2>1 DEF UserEdits, HostSetupTypeOK, Holds
  <2>3. RunInv'
    BY <1>4 DEF UserEdits, RunInv, HostSetupTypeOK, Selected
  <2> QED BY <1>4, <2>2, <2>3 DEF UserEdits, HostsStartTheEngine
<1>5. CASE WriteUnder \/ UNCHANGED setupVars
  BY <1>5 DEF WriteUnder, setupVars, HostSetupTypeOK, RunInv, Selected, Wired,
     HostsStartTheEngine, Starts, Preserved, StartsFrom, Holds
<1> QED
  BY <1>1, <1>2, <1>3, <1>4, <1>5 DEF HostSetupNext

LEMMA HostInvariant == HostSetupSpec => []HostInv
<1>1. HostInv /\ [HostSetupNext]_setupVars => HostInv'
  BY VisitKeeps, OtherHostSteps
<1> QED BY <1>1, HostInit, PTL DEF HostSetupSpec

\* The places hold what their readers and writers know, and a run has
\* somewhere to go.
THEOREM HostSetupTypeCorrect == HostSetupSpec => []HostSetupTypeOK
<1>1. HostInv => HostSetupTypeOK
  BY DEF HostInv
<1> QED BY <1>1, HostInvariant, PTL

\* A run that ended undisturbed has wired its hosts to the engine that ran it,
\* and they stay so until the engine moves or somebody edits.
THEOREM SetupWiresItsHosts == HostSetupSpec => []HostsStartTheEngine
<1>1. HostInv => HostsStartTheEngine
  BY DEF HostInv
<1> QED BY <1>1, HostInvariant, PTL

\* What a visit does to a place that is the user's.
LEMMA VisitSpares ==
  ASSUME HostSetupTypeOK, NEW p \in Place, NEW force \in BOOLEAN
  PROVE  /\ file[p] = "foreign" /\ Visit(p, force) # "foreign" =>
              force /\ p \in Entry \cup Skill \cup {"bridge"}
         /\ file[p] = "damaged" => Visit(p, force) = "damaged"
<1>1. file[p] \in Holds(p) /\ KnownRoots \subseteq Engine
  BY DEF HostSetupTypeOK, KnownRoots
<1>2. "foreign" \notin Engine /\ "damaged" \notin Engine
  BY SetupAssumption DEF Marks
<1> USE <1>1, <1>2
<1>3. CASE p \in Entry
  <2>1. Visit(p, force) = Merge(file[p], "launcher", force)
    BY <1>3 DEF Visit, Entry, Skill, LegacyEntry, Link
  <2> QED BY <1>3, <2>1 DEF Merge, IsKnownLaunch
<1>4. CASE p = "bridge"
  <2>1. Visit(p, force) = Bridge(force)
    BY <1>4 DEF Visit, Entry, Skill, LegacyEntry, Link
  <2> QED BY <1>4, <2>1 DEF Bridge, Merge, IsKnownLaunch
<1>5. CASE p \in Skill
  <2>1. Visit(p, force) = CopySkill(file[p], force)
    BY <1>5 DEF Visit, Entry, Skill, LegacyEntry, Link
  <2>2. Holds(p) = {"none", "foreign"} \cup Engine
    BY <1>5 DEF Holds, Entry, Skill, LegacyEntry, Link
  <2> QED BY <1>5, <2>1, <2>2 DEF CopySkill
<1>6. CASE p \in LegacyEntry
  <2>1. Visit(p, force) = RemoveEntry(file[p])
    BY <1>6 DEF Visit, Entry, Skill, LegacyEntry, Link
  <2> QED BY <2>1 DEF RemoveEntry, IsKnownLaunch
<1>7. CASE p \in Link
  <2>1. Visit(p, force) = RemoveLink(file[p])
    BY <1>7 DEF Visit, Entry, Skill, LegacyEntry, Link
  <2> QED BY <2>1 DEF RemoveLink
<1>8. CASE p \in {"runtime", "claude section"}
  <2>1. Holds(p) = {"none"} \cup Engine
    BY <1>8 DEF Holds, Entry, Skill, LegacyEntry, Link
  <2> QED BY <2>1
<1>9. CASE p = "agents block"
  <2>1. Visit(p, force) = IF file[p] = "foreign" THEN file[p] ELSE engine
    BY <1>9 DEF Visit, Entry, Skill, LegacyEntry, Link
  <2>2. Holds(p) = {"none", "foreign"} \cup Engine
    BY <1>9 DEF Holds, Entry, Skill, LegacyEntry, Link
  <2> QED BY <2>1, <2>2
<1> QED BY <1>3, <1>4, <1>5, <1>6, <1>7, <1>8, <1>9 DEF Place

\* Only a visit changes a file while a run is under way and the user's edits
\* are not counted on.
LEMMA EditsAreCounted ==
  ASSUME ownEdits \in Nat, [HostSetupNext]_setupVars
  PROVE  /\ ownEdits' \in Nat
         /\ setup # NoSetup /\ ownEdits' = ownEdits =>
              VisitNext \/ UNCHANGED <<file, under>>
<1>1. ASSUME NEW p, NEW x, UserEdits(p, x) PROVE ownEdits' = ownEdits + 1
  BY <1>1 DEF UserEdits
<1>2. WriteUnder => ownEdits' = ownEdits + 1
  BY DEF WriteUnder
<1>3. VisitNext => ownEdits' = ownEdits
  BY DEF VisitNext
<1>4. ASSUME NEW e, MoveEngine(e) PROVE ownEdits' = ownEdits /\ setup = NoSetup
  BY <1>4 DEF MoveEngine
<1>5. ASSUME NEW hosts, NEW force, NEW update, BeginSetup(hosts, force, update)
      PROVE  ownEdits' = ownEdits /\ setup = NoSetup
  BY <1>5 DEF BeginSetup
<1>6. StopSetup \/ UNCHANGED setupVars => UNCHANGED <<file, under, ownEdits>>
  BY DEF StopSetup, setupVars
<1> QED BY <1>1, <1>2, <1>3, <1>4, <1>5, <1>6 DEF HostSetupNext

\* What setup and update take of the user's, at most.
THEOREM UsersEntriesAreKept == HostSetupSpec => UsersEntriesStay
<1> DEFINE Keeps ==
      setup # NoSetup /\ ownEdits' = ownEdits =>
        /\ \A p \in Place : file[p] = "foreign" /\ file'[p] # "foreign" =>
             setup.force /\ p \in Entry \cup Skill \cup {"bridge"}
        /\ \A p \in Place : file[p] = "damaged" => file'[p] = "damaged"
        /\ file["bridge link"] # "none" => file'["bridge"] = file["bridge"]
        /\ under /\ ~under' => setup.update /\ file["claude section"] # engine
<1>1. ASSUME HostInv, VisitNext PROVE Keeps
  <2>1. PICK next \in setup.todo :
          /\ file' = [file EXCEPT ![Visits[next]] = Visit(Visits[next], setup.force)]
          /\ under' = (under /\ file'["claude section"] = file["claude section"])
          /\ setup # NoSetup
    BY <1>1 DEF VisitNext
  <2> DEFINE here == Visits[next]
  <2>2. /\ here \in Place /\ setup.force \in BOOLEAN /\ HostSetupTypeOK
        /\ Visited(here, setup.hosts, setup.update) /\ DOMAIN file = Place
    BY <1>1, <2>1, PositionOfVisit DEF HostInv, RunInv, Selected, HostSetupTypeOK
  <2>3. ASSUME NEW p \in Place
        PROVE  file'[p] = IF p = here THEN Visit(p, setup.force) ELSE file[p]
    BY <2>1, <2>2 DEF HostSetupTypeOK
  <2> HIDE DEF here
  <2>4. \A p \in Place : file[p] = "foreign" /\ file'[p] # "foreign" =>
             setup.force /\ p \in Entry \cup Skill \cup {"bridge"}
    BY <2>2, <2>3, VisitSpares
  <2>5. \A p \in Place : file[p] = "damaged" => file'[p] = "damaged"
    BY <2>2, <2>3, VisitSpares
  <2>6. file["bridge link"] # "none" => file'["bridge"] = file["bridge"]
    <3>1. Visit("bridge", setup.force) = Bridge(setup.force)
      BY DEF Visit, Entry, Skill, LegacyEntry, Link
    <3> QED BY <2>3, <3>1 DEF Bridge, Place
  <2>7. ASSUME under, ~under' PROVE setup.update /\ file["claude section"] # engine
    <3>1. here = "claude section"
      BY <2>1, <2>3, <2>7 DEF Place
    <3>2. Visit("claude section", setup.force) = engine
      BY DEF Visit, Entry, Skill, LegacyEntry, Link
    <3>3. Visited("claude section", setup.hosts, setup.update) = setup.update
      BY DEF Visited, LegacyEntry, Link
    <3> QED BY <2>1, <2>2, <2>3, <2>7, <3>1, <3>2, <3>3 DEF Place
  <2> QED BY <2>4, <2>5, <2>6, <2>7
<1>2. ASSUME HostInv, ownEdits \in Nat, [HostSetupNext]_setupVars PROVE Keeps
  <2>1. CASE UNCHANGED <<file, under>>
    BY <2>1
  <2>2. CASE setup = NoSetup \/ ownEdits' # ownEdits
    BY <2>2
  <2> HIDE DEF Keeps
  <2> QED BY <1>1, <1>2, <2>1, <2>2, EditsAreCounted
<1> DEFINE Counted == ownEdits \in Nat
<1>3. HostInv /\ Counted /\ [HostSetupNext]_setupVars => [Keeps]_setupVars
  <2> HIDE DEF Keeps
  <2> QED BY <1>2
<1>4. HostSetupInit => Counted
  BY DEF HostSetupInit
<1>5. Counted /\ [HostSetupNext]_setupVars => Counted'
  BY EditsAreCounted
<1> HIDE DEF Counted
<1> QED
  BY <1>3, <1>4, <1>5, HostInvariant, PTL DEF HostSetupSpec, UsersEntriesStay

-----------------------------------------------------------------------------
(* Initialisation through the server: the generation an apply gives to what *)
(* it writes tells its writes from everything recorded before.             *)

\* Where an apply writes the generated part of a file.
StepOf(p) == CASE p = "state" -> 1 [] p = "spec" -> 2 [] p = "ignore" -> 3
               [] p = "design" -> 5 [] p = "agents" -> 7

\* The files that the snapshot sees and a roll-back puts back.
Shown == {"spec", "ignore", "design", "agents"}

Running(c) == applying[c] # NoInit
Begun(c) == Running(c) /\ applying[c].at > 1

Bounded(x, p) ==
  x.gen <= applies + 1 /\ x.put <= applies + 1 /\ (p \in Shown => x.own <= touches + 1)

BoundInv ==
  /\ \A p \in Path : Bounded(disk[p], p)
  /\ \A c \in Caller : Running(c) =>
       /\ applying[c].run \in 2..applies + 1
       /\ \A p \in Path : Bounded(applying[c].before[p], p)
       /\ \A d \in Caller : Running(d) /\ applying[d].run = applying[c].run => c = d
  /\ \A h \in Challenge : request[h] # NoRequest =>
       /\ request[h].session[2] <= applies + 1
       /\ \A p \in Seen : Bounded(request[h].files[p], p)

\* Nothing says of a file what only a later write or failure of c can say.
Unused(x, p, c) ==
  /\ x.put # applying[c].run
  /\ p \in Shown \cup {"state"} /\ applying[c].at <= StepOf(p) =>
       x.gen # applying[c].run

FreshInv ==
  \A c \in Caller : Running(c) =>
    /\ \A p \in Path : Unused(disk[p], p, c)
    /\ \A d \in Caller : Running(d) =>
         \A p \in Path : Unused(applying[d].before[p], p, c)
    /\ \A h \in Challenge : request[h] # NoRequest =>
         /\ \A p \in Seen : Unused(request[h].files[p], p, c)
         /\ ~Begun(c) => request[h].session[2] # applying[c].run

\* These files are not what the phrase was shown for.
Moved(h, files) ==
  \/ files["state"].gen # request[h].session[2]
  \/ \E p \in Shown : Exists(request[h].files[p]) /\ files[p] # request[h].files[p]
  \/ clobbered /\ \A p \in Shown : ~Exists(request[h].files[p])

\* Phrases an apply, but for c's, has begun to write for.
WrittenBut(c) ==
  granted \cup {h \in Challenge : \E d \in Caller \ {c} : Begun(d) /\ applying[d].ask = h}

WrittenFor ==
  granted \cup {h \in Challenge : \E d \in Caller : Begun(d) /\ applying[d].ask = h}

ReplayInv ==
  /\ \A h \in WrittenFor : Moved(h, disk)
  /\ \A h \in granted : request[h] # NoRequest
  /\ \A c \in Caller : Running(c) => request[applying[c].ask] # NoRequest
  /\ \A c \in Caller : Running(c) /\ applying[c].alone =>
       \A h \in WrittenBut(c) : Moved(h, applying[c].before)

SpentInv == \A h \in spent : cached[h] = {} /\ request[h] # NoRequest

ServerInv == ServerInitTypeOK /\ BoundInv /\ FreshInv /\ ReplayInv /\ SpentInv

LEMMA SnapshotFiles ==
  /\ Path = {"state", "spec", "ignore", "attributes", "design", "scan", "agents"}
  /\ Seen = {"spec", "ignore", "attributes", "design", "agents"}
  /\ Copied = {"state", "spec", "ignore", "design", "scan", "agents"}
  /\ Seen \cap Copied = Shown
<1>1. 1..7 = {1, 2, 3, 4, 5, 6, 7}
  OBVIOUS
<1>2. Path = {"state", "spec", "ignore", "attributes", "design", "scan", "agents"}
  BY <1>1 DEF Path, Order
<1>3. Seen = {"spec", "ignore", "attributes", "design", "agents"}
  BY <1>2 DEF Seen
<1>4. Copied = {"state", "spec", "ignore", "design", "scan", "agents"}
  BY <1>2 DEF Copied, Roots
<1>5. Seen \cap Copied = Shown
  BY <1>3, <1>4 DEF Shown
<1> QED BY <1>2, <1>3, <1>4, <1>5

LEMMA ServerInitial == ServerInitInit => ServerInv
<1> SUFFICES ASSUME ServerInitInit PROVE ServerInv
  OBVIOUS
<1>1. ServerInitTypeOK
  <2>1. disk \in [Path -> [own : 0..1, gen : 0..1, put : {0}]]
    BY ServerInitAssumption DEF ServerInitInit
  <2>2. disk \in [Path -> FileState]
    BY <2>1 DEF FileState
  <2>3. MaxApplies \in Nat /\ MaxTouches \in Nat
    BY ServerInitAssumption
  <2>4. applies \in 0..MaxApplies /\ touches \in 0..MaxTouches
    BY <2>3 DEF ServerInitInit
  <2>5. /\ cached \in [Challenge -> SUBSET {"temporary", "durable"}]
        /\ DOMAIN request = Challenge /\ \A h \in Challenge : request[h] = NoRequest
        /\ DOMAIN applying = Caller /\ \A c \in Caller : applying[c] = NoInit
        /\ granted = {} /\ spent = {} /\ clobbered = FALSE
    BY DEF ServerInitInit
  <2> QED BY <2>2, <2>4, <2>5 DEF ServerInitTypeOK
<1>2. BoundInv
  <2>1. \A p \in Path : disk[p] \in [own : 0..1, gen : 0..1, put : {0}]
    BY ServerInitAssumption DEF ServerInitInit
  <2>2. \A p \in Path : Bounded(disk[p], p)
    BY <2>1 DEF ServerInitInit, Bounded
  <2> QED BY <2>2 DEF ServerInitInit, BoundInv, Running
<1>3. FreshInv /\ SpentInv /\ ReplayInv
  BY DEF ServerInitInit, FreshInv, SpentInv, ReplayInv, Running, Begun, WrittenFor
<1> QED BY <1>1, <1>2, <1>3 DEF ServerInv

\* What an apply may make of a file in one write.
Writes(c, t, x) ==
  /\ x.put \in {0, disk[t].put} /\ x.gen \in {disk[t].gen, applying[c].run}
  /\ t \in Shown /\ x # disk[t] => x.gen = applying[c].run
  /\ t \in Shown \cup {"state"} /\ x.gen # disk[t].gen => applying[c].at = StepOf(t)
  /\ applying[c].at = 1 => t = "state" /\ x.gen = applying[c].run
  /\ t \notin {"state", "scan"} => x.own = disk[t].own
  /\ t \in Shown /\ x # disk[t] => applying[c].at = StepOf(t)

LEMMA OneWrite ==
  ASSUME ServerInv, NEW c \in Caller, WriteNext(c)
  PROVE  \E t \in Path, x \in FileState :
           disk' = [disk EXCEPT ![t] = x] /\ Writes(c, t, x)
<1>1. /\ applying[c].at \in 1..8 /\ applying[c].run \in Nat /\ disk \in [Path -> FileState]
  BY ServerInitAssumption DEF WriteNext, ServerInv, ServerInitTypeOK, Order
<1>2. PICK x \in Written(Order[applying[c].at], applying[c].run) :
        disk' = [disk EXCEPT ![Target(Order[applying[c].at])] = x]
  BY DEF WriteNext
<1>3. applying[c].at \in {1, 2, 3, 4, 5, 6, 7, 8}
  BY <1>1
<1>4. /\ Order[1] = "state" /\ Order[2] = "spec" /\ Order[3] = "ignore"
      /\ Order[4] = "attributes" /\ Order[5] = "design" /\ Order[6] = "scan"
      /\ Order[7] = "agents" /\ Order[8] = "session"
  BY DEF Order
<1> DEFINE t == Target(Order[applying[c].at])
<1>5. x \in FileState /\ t \in Path /\ Writes(c, t, x)
  <2> USE <1>1, <1>2, <1>4, SnapshotFiles DEF Target, Written, FileState, Writes, Shown, StepOf
  <2>1. CASE applying[c].at = 1
    BY <2>1
  <2>2. CASE applying[c].at \in {2, 5}
    BY <2>2 DEF WriteInitArtifact, Exists
  <2>3. CASE applying[c].at \in {3, 4}
    BY <2>3 DEF AppendBlock
  <2>4. CASE applying[c].at = 6
    BY <2>4
  <2>5. CASE applying[c].at = 7
    BY <2>5 DEF UpsertBlock
  <2>6. CASE applying[c].at = 8
    BY <2>6 DEF SaveDigests
  <2> QED BY ONLY <1>3, <2>1, <2>2, <2>3, <2>4, <2>5, <2>6
<1> QED BY <1>2, <1>5

-----------------------------------------------------------------------------
(* Steps that touch neither the files nor the applies under way.           *)

LEMMA TypeOf ==
  ASSUME ServerInv
  PROVE  /\ disk \in [Path -> FileState] /\ applies \in Nat /\ touches \in Nat
         /\ \A c \in Caller : Running(c) =>
              /\ applying[c].run \in Nat /\ applying[c].at \in 1..8
              /\ applying[c].ask \in Challenge
              /\ applying[c].before \in [Path -> FileState]
         /\ \A h \in Challenge : request[h] # NoRequest =>
              request[h].files \in [Seen -> FileState] /\ request[h].session[2] \in Nat
BY ServerInitAssumption DEF ServerInv, ServerInitTypeOK, Running, Order

LEMMA PrepareKeeps ==
  ASSUME ServerInv, NEW h \in Challenge, NEW refresh, PrepareInit(h, refresh)
  PROVE  ServerInv'
<1> USE DEF ServerInv
<1>1. /\ request[h] = NoRequest /\ request' = [request EXCEPT ![h] = OnboardingSnapshot]
      /\ cached' = [cached EXCEPT ![h] = {"temporary"}]
      /\ UNCHANGED <<disk, applying, applies, touches, granted, spent, clobbered>>
  BY DEF PrepareInit
<1>2. /\ OnboardingSnapshot.files = [p \in Seen |-> disk[p]]
      /\ OnboardingSnapshot.session = Body(disk["state"])
      /\ OnboardingSnapshot.session[2] = disk["state"].gen
      /\ OnboardingSnapshot \in [files : [Seen -> FileState], session : Nat \X Nat]
  BY TypeOf, SnapshotFiles DEF OnboardingSnapshot, Body, FileState
<1>3. ServerInitTypeOK'
  BY <1>1, <1>2 DEF ServerInitTypeOK
<1>4. BoundInv'
  <2>1. \A p \in Seen : p \in Path /\ Bounded(OnboardingSnapshot.files[p], p)
    BY <1>2 DEF BoundInv, Seen
  <2>2. OnboardingSnapshot.session[2] <= applies + 1
    BY <1>2, SnapshotFiles DEF BoundInv, Bounded
  <2> QED BY <1>1, <2>1, <2>2 DEF BoundInv, Bounded, Running, ServerInitTypeOK
<1>5. FreshInv'
  <2>1. ASSUME NEW c \in Caller, Running(c)
        PROVE  /\ \A p \in Seen : Unused(OnboardingSnapshot.files[p], p, c)
               /\ ~Begun(c) => OnboardingSnapshot.session[2] # applying[c].run
    BY <1>2, <2>1, SnapshotFiles, TypeOf DEF FreshInv, Unused, Begun, StepOf
  <2> QED BY <1>1, <2>1 DEF FreshInv, Unused, Running, Begun, ServerInitTypeOK
<1>6. ReplayInv'
  <2>1. ASSUME NEW g \in Challenge, g # h
        PROVE  /\ Moved(g, disk) => Moved(g, disk)'
               /\ \A c \in Caller : Moved(g, applying[c].before) =>
                                     Moved(g, applying[c].before)'
    BY <1>1, <2>1 DEF Moved, ServerInitTypeOK
  <2>2. h \notin WrittenFor /\ \A c \in Caller : h \notin WrittenBut(c) 
    BY <1>1 DEF WrittenFor, ReplayInv, WrittenBut, Begun
  <2>3. WrittenFor' = WrittenFor /\ \A c \in Caller : WrittenBut(c)' = WrittenBut(c)
    BY <1>1 DEF WrittenFor, WrittenBut, Begun, Running
  <2>4. WrittenFor \subseteq Challenge /\ \A c \in Caller : WrittenBut(c) \subseteq Challenge
    BY DEF WrittenFor, WrittenBut, ServerInitTypeOK
  <2>5. \A g \in WrittenFor' : Moved(g, disk)'
    BY <2>1, <2>2, <2>3, <2>4 DEF ReplayInv
  <2>6. \A c \in Caller : Running(c)' /\ applying'[c].alone =>
          \A g \in WrittenBut(c)' : Moved(g, applying[c].before)'
    BY <1>1, <2>1, <2>2, <2>3, <2>4 DEF ReplayInv, Running
  <2>7. /\ \A g \in granted' : request'[g] # NoRequest
        /\ \A c \in Caller : Running(c)' => request'[applying'[c].ask] # NoRequest
    BY <1>1, TypeOf DEF ReplayInv, Running, ServerInitTypeOK
  <2> QED BY <2>5, <2>6, <2>7 DEF ReplayInv
<1>7. SpentInv'
  BY <1>1 DEF SpentInv, ServerInitTypeOK
<1> QED BY <1>3, <1>4, <1>5, <1>6, <1>7

\* Staging and expiry.
LEMMA CacheKeeps ==
  ASSUME ServerInv, NEW h \in Challenge,
         StageInit(h) \/ \E tier \in {"temporary", "durable"} : Expire(h, tier)
  PROVE  ServerInv'
<1> USE DEF ServerInv
<1>1. /\ UNCHANGED <<disk, request, applying, applies, touches, granted, clobbered>>
      /\ cached' \in [Challenge -> SUBSET {"temporary", "durable"}]
      /\ spent' \subseteq spent
      /\ \A g \in spent' : cached'[g] \subseteq cached[g]
  BY DEF StageInit, Expire, ServerInitTypeOK
<1>2. ServerInitTypeOK' /\ SpentInv'
  BY <1>1 DEF ServerInitTypeOK, SpentInv
<1>3. BoundInv' /\ FreshInv' /\ ReplayInv'
  BY <1>1 DEF BoundInv, Bounded, FreshInv, Unused, Running, Begun, ReplayInv,
     WrittenFor, WrittenBut, Moved
<1> QED BY <1>2, <1>3

\* An apply begins.
LEMMA BeginKeeps ==
  ASSUME ServerInv, NEW c \in Caller, NEW h \in Challenge, NEW token \in BOOLEAN,
         NEW draft, BeginInit(c, h, token, draft)
  PROVE  ServerInv'
<1> USE DEF ServerInv
<1> DEFINE new == [run |-> applies + 2, ask |-> h, bare |-> ~token, at |-> 1,
                   before |-> disk, alone |-> TRUE]
<1>1. /\ applying[c] = NoInit /\ applies < MaxApplies /\ request[h] # NoRequest
      /\ cached' = [cached EXCEPT ![h] = {}] /\ applies' = applies + 1
      /\ applying' = [applying EXCEPT ![c] = new]
      /\ spent' \subseteq spent \cup {h}
      /\ UNCHANGED <<disk, request, touches, granted, clobbered>>
  BY DEF BeginInit, RemovePendingPreparation
<1>2. /\ new.run = applies + 2 /\ new.ask = h /\ new.at = 1 /\ new.before = disk
      /\ new.alone = TRUE
  OBVIOUS
<1>3. ServerInitTypeOK'
  <2>1. applies + 2 \in 2..MaxApplies + 1 /\ applies + 1 \in 0..MaxApplies /\ 1 \in 1..Len(Order)
    BY <1>1, ServerInitAssumption DEF ServerInitTypeOK, Order
  <2>2. new \in [run : 2..MaxApplies + 1, ask : Challenge, bare : BOOLEAN,
                 at : 1..Len(Order), before : [Path -> FileState], alone : BOOLEAN]
    BY <2>1 DEF ServerInitTypeOK
  <2> HIDE DEF new
  <2> QED BY <1>1, <2>1, <2>2 DEF ServerInitTypeOK
<1>4. ASSUME NEW d \in Caller
      PROVE  applying'[d] = IF d = c THEN new ELSE applying[d]
  BY <1>1 DEF ServerInitTypeOK
<1> HIDE DEF new
<1>5. BoundInv'
  <2>1. applies' = applies + 1 /\ touches' = touches /\ applies \in Nat /\ touches \in Nat
    BY <1>1, TypeOf
  <2>2. \A p \in Path : Bounded(disk[p], p)'
    BY <1>1, <2>1, TypeOf DEF BoundInv, Bounded, FileState
  <2>3. ASSUME NEW d \in Caller, Running(d)'
        PROVE  /\ applying'[d].run \in 2..applies' + 1
               /\ \A p \in Path : Bounded(applying[d].before[p], p)'
    <3>1. CASE d = c
      BY <1>1, <1>2, <1>4, <2>1, <2>2, <3>1 DEF Bounded
    <3>2. CASE d # c
      BY <1>4, <2>1, <2>3, <3>2, TypeOf DEF BoundInv, Bounded, Running, FileState
    <3> QED BY <3>1, <3>2
  <2>4. ASSUME NEW d \in Caller, Running(d)', NEW e \in Caller, Running(e)',
               applying'[d].run = applying'[e].run
        PROVE  d = e
    BY <1>2, <1>4, <2>1, <2>4 DEF BoundInv, Running
  <2>5. \A g \in Challenge : request'[g] # NoRequest =>
          /\ request'[g].session[2] <= applies' + 1
          /\ \A p \in Seen : Bounded(request[g].files[p], p)'
    BY <1>1, <2>1, TypeOf DEF BoundInv, Bounded, FileState
  <2> QED BY <2>2, <2>3, <2>4, <2>5 DEF BoundInv
<1>6. FreshInv'
  <2>1. ASSUME NEW d \in Caller, Running(d)', d # c
        PROVE  Running(d) /\ applying'[d] = applying[d] /\ Begun(d)' = Begun(d)
    BY <1>4, <2>1 DEF Running, Begun
  <2>2. ASSUME NEW p \in Path, NEW x \in FileState, Bounded(x, p)
        PROVE  x.put # new.run /\ x.gen # new.run
    BY <1>2, <2>2, TypeOf DEF Bounded, FileState
  <2>3. /\ \A p \in Path : Unused(disk[p], p, c)'
        /\ \A d \in Caller : Running(d)' => \A p \in Path : Unused(applying[d].before[p], p, c)'
        /\ \A g \in Challenge : request'[g] # NoRequest =>
             /\ \A p \in Seen : Unused(request[g].files[p], p, c)'
             /\ request'[g].session[2] # applying'[c].run
    <3>1. \A p \in Path : Unused(disk[p], p, c)'
      BY <1>1, <1>4, <2>2, TypeOf DEF BoundInv, Unused
    <3>2. ASSUME NEW d \in Caller, Running(d)', NEW p \in Path
          PROVE  Unused(applying[d].before[p], p, c)'
      <4>1. CASE d = c
        BY <1>1, <1>2, <1>4, <3>1, <4>1 DEF Unused
      <4>2. CASE d # c
        BY <1>4, <2>1, <2>2, <3>2, <4>2, TypeOf DEF BoundInv, Unused
      <4> QED BY <4>1, <4>2
    <3>3. ASSUME NEW g \in Challenge, request[g] # NoRequest
          PROVE  /\ \A p \in Seen : Unused(request[g].files[p], p, c)'
                 /\ request[g].session[2] # new.run
      <4>1. request[g].session[2] <= applies + 1 /\ request[g].session[2] \in Nat /\ applies \in Nat
        BY <3>3, TypeOf DEF BoundInv
      <4>2. Seen \subseteq Path
        BY DEF Seen
      <4> QED BY <1>1, <1>2, <1>4, <2>2, <3>3, <4>1, <4>2, TypeOf DEF BoundInv, Unused
    <3> QED BY <1>1, <1>4, <3>1, <3>2, <3>3
  <2>4. ASSUME NEW d \in Caller, Running(d)', d # c
        PROVE  /\ \A p \in Path : Unused(disk[p], p, d)'
               /\ \A e \in Caller : Running(e)' => \A p \in Path : Unused(applying[e].before[p], p, d)'
               /\ \A g \in Challenge : request'[g] # NoRequest =>
                    /\ \A p \in Seen : Unused(request[g].files[p], p, d)'
                    /\ ~Begun(d)' => request'[g].session[2] # applying'[d].run
    <3>1. \A p \in Path : Unused(disk[p], p, d)'
      BY <1>1, <2>1, <2>4 DEF FreshInv, Unused
    <3>2. ASSUME NEW e \in Caller, Running(e)', NEW p \in Path
          PROVE  Unused(applying[e].before[p], p, d)'
      <4>1. CASE e = c
        BY <1>1, <1>2, <1>4, <3>1, <4>1 DEF Unused
      <4>2. CASE e # c
        BY <2>1, <2>4, <3>2, <4>2 DEF FreshInv, Unused
      <4> QED BY <4>1, <4>2
    <3> QED BY <1>1, <2>1, <2>4, <3>1, <3>2 DEF FreshInv, Unused
  <2> QED
    <3>1. ASSUME NEW d \in Caller, Running(d)'
          PROVE  /\ \A p \in Path : Unused(disk[p], p, d)'
                 /\ \A e \in Caller : Running(e)' => \A p \in Path : Unused(applying[e].before[p], p, d)'
                 /\ \A g \in Challenge : request'[g] # NoRequest =>
                      /\ \A p \in Seen : Unused(request[g].files[p], p, d)'
                      /\ ~Begun(d)' => request'[g].session[2] # applying'[d].run
      BY <2>3, <2>4, <3>1
    <3> QED BY <3>1 DEF FreshInv
<1>7. ReplayInv'
  <2>1. ~Begun(c)' /\ ~Begun(c)
    BY <1>1, <1>2, <1>4 DEF Begun, Running
  <2>2. WrittenFor' = WrittenFor
    BY <1>1, <1>4, <2>1 DEF WrittenFor, Begun, Running
  <2>3. \A d \in Caller : d # c => WrittenBut(d)' = WrittenBut(d)
    BY <1>1, <1>4, <2>1 DEF WrittenBut, Begun, Running
  <2>4. WrittenBut(c)' \subseteq WrittenFor
    BY <1>1, <1>4 DEF WrittenBut, WrittenFor, Begun, Running
  <2>5. \A g \in WrittenFor' : Moved(g, disk)'
    BY <1>1, <2>2 DEF ReplayInv, Moved
  <2>6. ASSUME NEW d \in Caller, Running(d)', applying'[d].alone, NEW g \in WrittenBut(d)'
        PROVE  Moved(g, applying[d].before)'
    <3>1. CASE d = c
      BY <1>1, <1>2, <1>4, <2>2, <2>4, <2>5, <2>6, <3>1 DEF Moved
    <3>2. CASE d # c
      BY <1>1, <1>4, <2>3, <2>6, <3>2 DEF Moved, ReplayInv, Running
    <3> QED BY <3>1, <3>2
  <2>7. /\ \A g \in granted' : request'[g] # NoRequest
        /\ \A d \in Caller : Running(d)' => request'[applying'[d].ask] # NoRequest
    BY <1>1, <1>2, <1>4 DEF ReplayInv, Running
  <2> QED BY <2>5, <2>6, <2>7 DEF ReplayInv
<1>8. SpentInv'
  BY <1>1 DEF SpentInv, ServerInitTypeOK
<1> QED BY <1>3, <1>5, <1>6, <1>7, <1>8

-----------------------------------------------------------------------------
(* Steps that change files.                                                *)

ApplyRecord ==
  [run : 2..MaxApplies + 1, ask : Challenge, bare : BOOLEAN, at : 1..Len(Order),
   before : [Path -> FileState], alone : BOOLEAN]

LEMMA NoLongerAlone ==
  ASSUME NEW r \in ApplyRecord, NEW s, s = [r EXCEPT !.alone = FALSE]
  PROVE  /\ s \in ApplyRecord /\ s.alone = FALSE
         /\ s.run = r.run /\ s.ask = r.ask /\ s.at = r.at /\ s.before = r.before
<1>1. s \in ApplyRecord
  BY DEF ApplyRecord
<1>2. s.alone = FALSE
  BY DEF ApplyRecord
<1>3. s.run = r.run /\ s.ask = r.ask /\ s.at = r.at /\ s.before = r.before
  BY DEF ApplyRecord
<1> QED BY <1>1, <1>2, <1>3

\* Applies go on, or end; none begins.
GoOn ==
  /\ DOMAIN applying' = Caller
  /\ \A d \in Caller : Running(d)' =>
       /\ Running(d) /\ applying'[d] \in ApplyRecord
       /\ applying'[d].run = applying[d].run /\ applying'[d].ask = applying[d].ask
       /\ applying'[d].before = applying[d].before
       /\ applying'[d].at >= applying[d].at
       /\ applying'[d].alone => applying[d].alone

LEMMA FilesKeep ==
  ASSUME ServerInv, GoOn, UNCHANGED <<request, applies>>,
         touches' \in {touches, touches + 1}, disk' \in [Path -> FileState],
         \A p \in Path : Bounded(disk[p], p)',
         \A d \in Caller : Running(d)' => \A p \in Path : Unused(disk[p], p, d)'
  PROVE  BoundInv' /\ FreshInv'
<1>1. touches' >= touches /\ applies' = applies
  BY TypeOf
<1>2. BoundInv'
  <2>1. ASSUME NEW d \in Caller, Running(d)'
        PROVE  /\ applying'[d].run \in 2..applies' + 1
               /\ \A p \in Path : Bounded(applying[d].before[p], p)'
    BY <1>1, <2>1, TypeOf DEF ServerInv, GoOn, BoundInv, Bounded, FileState
  <2>2. ASSUME NEW d \in Caller, Running(d)', NEW e \in Caller, Running(e)',
               applying'[d].run = applying'[e].run
        PROVE  d = e
    BY <2>2 DEF ServerInv, GoOn, BoundInv
  <2>3. \A g \in Challenge : request'[g] # NoRequest =>
          /\ request'[g].session[2] <= applies' + 1
          /\ \A p \in Seen : Bounded(request[g].files[p], p)'
    BY <1>1, TypeOf DEF ServerInv, BoundInv, Bounded, FileState
  <2> QED BY <2>1, <2>2, <2>3 DEF BoundInv
<1>3. ASSUME NEW d \in Caller, Running(d)', NEW p, NEW x, Unused(x, p, d)
      PROVE  /\ x.put # applying'[d].run
             /\ p \in Shown \cup {"state"} /\ applying'[d].at <= StepOf(p) =>
                  x.gen # applying'[d].run
  <2>1. p \in Shown \cup {"state"} => StepOf(p) \in Nat
    BY DEF StepOf, Shown
  <2> QED BY <1>3, <2>1, TypeOf DEF GoOn, Unused, ApplyRecord
<1>4. ASSUME NEW d \in Caller, Running(d)', ~Begun(d)' PROVE ~Begun(d)
  BY <1>4, TypeOf DEF GoOn, Begun, ApplyRecord
<1>5. FreshInv'
  <2>1. ASSUME NEW d \in Caller, Running(d)', NEW e \in Caller, Running(e)', NEW p \in Path
        PROVE  Unused(applying[e].before[p], p, d)'
    BY <1>3, <2>1 DEF ServerInv, GoOn, FreshInv, Unused
  <2>2. ASSUME NEW d \in Caller, Running(d)', NEW g \in Challenge, request'[g] # NoRequest
        PROVE  /\ \A p \in Seen : Unused(request[g].files[p], p, d)'
               /\ ~Begun(d)' => request'[g].session[2] # applying'[d].run
    BY <1>3, <1>4, <2>2 DEF ServerInv, GoOn, FreshInv, Unused
  <2> QED BY <2>1, <2>2 DEF FreshInv
<1> QED BY <1>2, <1>5

\* One write.
LEMMA WriteKeeps == ASSUME ServerInv, NEW c \in Caller, WriteNext(c) PROVE ServerInv'
<1> USE DEF ServerInv
<1>1. PICK t \in Path, x \in FileState :
        disk' = [disk EXCEPT ![t] = x] /\ Writes(c, t, x)
  BY OneWrite
<1>2. /\ Running(c) /\ UNCHANGED <<request, cached, applies, touches, spent, clobbered>>
      /\ applying' = [Disturbed(c) EXCEPT ![c] =
             IF applying[c].at = Len(Order) THEN NoInit ELSE [applying[c] EXCEPT !.at = @ + 1]]
      /\ granted' \subseteq granted \cup {applying[c].ask} /\ granted \subseteq granted'
      /\ applying[c].at < 8 => granted' = granted
  BY DEF WriteNext, Running, Order
<1>3. /\ \A d \in Caller : d # c =>
           applying'[d] = IF Running(d) THEN [applying[d] EXCEPT !.alone = FALSE] ELSE applying[d]
      /\ Running(c)' => applying[c].at < 8 /\ applying'[c] = [applying[c] EXCEPT !.at = @ + 1]
      /\ DOMAIN applying' = Caller
  <2>1. Len(Order) = 8 /\ applying[c].at \in 1..8
    BY <1>2, TypeOf DEF Order
  <2>2. \A d \in Caller : applying'[d] =
          IF d = c
          THEN IF applying[c].at = 8 THEN NoInit ELSE [applying[c] EXCEPT !.at = @ + 1]
          ELSE IF Running(d) THEN [applying[d] EXCEPT !.alone = FALSE] ELSE applying[d]
    BY <1>2, <2>1 DEF Disturbed, Running
  <2>3. DOMAIN applying' = Caller
    BY <1>2 DEF Disturbed
  <2> QED BY <2>1, <2>2, <2>3 DEF Running
<1>4. GoOn
  <2>1. \A d \in Caller : Running(d) => applying[d] \in ApplyRecord
    BY DEF ServerInitTypeOK, ApplyRecord, Running
  <2>2. Len(Order) = 8
    BY DEF Order
  <2>3. ASSUME NEW d \in Caller, Running(d)', d # c
        PROVE  /\ Running(d) /\ applying'[d] = [applying[d] EXCEPT !.alone = FALSE]
               /\ applying'[d].at = applying[d].at
    BY <1>3, <2>1, <2>3 DEF Running, ApplyRecord
  <2>4. ASSUME NEW d \in Caller, Running(d)'
        PROVE  /\ Running(d) /\ applying'[d] \in ApplyRecord
               /\ applying'[d].run = applying[d].run /\ applying'[d].ask = applying[d].ask
               /\ applying'[d].before = applying[d].before
               /\ applying'[d].at >= applying[d].at
               /\ applying'[d].alone => applying[d].alone
    <3>1. CASE d = c
      BY <1>2, <1>3, <2>1, <2>2, <2>4, <3>1 DEF ApplyRecord
    <3>2. CASE d # c
      <4>1. applying[d] \in ApplyRecord /\ applying'[d] = [applying[d] EXCEPT !.alone = FALSE]
        BY <2>1, <2>3, <2>4, <3>2
      <4>2. applying'[d] \in ApplyRecord
        BY <4>1 DEF ApplyRecord
      <4>3. applying'[d].at >= applying[d].at
        BY <2>2, <4>1 DEF ApplyRecord
      <4> QED BY <2>3, <2>4, <3>2, <4>1, <4>2, <4>3 DEF ApplyRecord
    <3> QED BY <3>1, <3>2
  <2> QED BY <1>3, <2>4 DEF GoOn
<1>5. disk' \in [Path -> FileState] /\ \A p \in Path : disk'[p] = IF p = t THEN x ELSE disk[p]
  BY <1>1, TypeOf
<1>6. \A p \in Path : Bounded(disk[p], p)'
  <2>1. x.own = disk[t].own \/ t \notin Shown
    BY <1>1 DEF Writes, Shown
  <2> QED BY <1>1, <1>2, <1>5, <2>1, TypeOf DEF BoundInv, Bounded, Writes, FileState, Running
<1>7. ASSUME NEW d \in Caller, Running(d)', NEW p \in Path
      PROVE  Unused(disk[p], p, d)'
  <2>1. /\ Running(d) /\ applying'[d].run = applying[d].run /\ applying[d].run # 0
        /\ applying'[d].at >= applying[d].at /\ Unused(disk[p], p, d)
    BY <1>4, <1>7, TypeOf DEF GoOn, FreshInv, BoundInv
  <2>2. p \in Shown \cup {"state"} => StepOf(p) \in Nat
    BY DEF StepOf, Shown
  <2>3. CASE p # t
    BY <1>4, <1>5, <1>7, <2>1, <2>2, <2>3, TypeOf DEF Unused, GoOn, ApplyRecord
  <2>4. CASE p = t /\ d # c
    <3>1. applying[d].run # applying[c].run
      BY <1>2, <2>1, <2>4 DEF BoundInv
    <3> QED BY <1>1, <1>4, <1>5, <1>7, <2>1, <2>2, <2>4, <3>1, TypeOf DEF Unused, GoOn, ApplyRecord, Writes
  <2>5. CASE p = t /\ d = c
    <3>1. applying'[c].at = applying[c].at + 1
      BY <1>2, <1>3, <1>7, <2>5, TypeOf DEF Running
    <3>2. /\ x.put # applying[c].run
          /\ p \in Shown \cup {"state"} /\ applying[c].at + 1 <= StepOf(p) =>
               x.gen # applying[c].run
      BY <1>1, <1>2, <2>1, <2>2, <2>5, TypeOf DEF Unused, Writes, Running
    <3> QED BY <1>5, <2>1, <2>5, <3>1, <3>2 DEF Unused
  <2> QED BY <2>3, <2>4, <2>5
<1>8. BoundInv' /\ FreshInv'
  BY <1>2, <1>4, <1>5, <1>6, <1>7, FilesKeep
<1>9. ServerInitTypeOK' /\ SpentInv'
  BY <1>2, <1>4, <1>5, TypeOf DEF ServerInitTypeOK, GoOn, ApplyRecord, SpentInv, Running
<1>10. ReplayInv'
  <2>1. Running(c) /\ request' = request /\ clobbered' = clobbered
    BY <1>2
  <2>2. ASSUME NEW h \in WrittenFor' PROVE h \in WrittenFor \/ (applying[c].at = 1 /\ h = applying[c].ask)
    <3>1. h \in granted' => h \in granted \/ (h = applying[c].ask /\ applying[c].at = 8)
      BY <1>2, TypeOf DEF Running
    <3>2. ASSUME NEW d \in Caller, Begun(d)', applying'[d].ask = h
          PROVE  h \in WrittenFor \/ (applying[c].at = 1 /\ h = applying[c].ask)
      <4>1. d # c => applying'[d].at = applying[d].at
        BY <1>3, <1>4, <3>2, TypeOf DEF Begun, GoOn, Running, ServerInitTypeOK
      <4>2. Running(d) /\ applying[d].ask = h /\ applying[d].at \in 1..8
        BY <1>4, <3>2, TypeOf DEF Begun, GoOn
      <4>3. applying'[d].at > 1
        BY <3>2 DEF Begun
      <4>4. h \in Challenge
        BY <4>2, TypeOf
      <4>5. d = c => applying[c].at = 1 \/ Begun(c)
        BY <4>2 DEF Begun
      <4>6. d # c => Begun(d)
        BY <4>1, <4>2, <4>3 DEF Begun
      <4> QED BY <4>2, <4>4, <4>5, <4>6 DEF WrittenFor
    <3>3. applying[c].at = 8 => applying[c].ask \in WrittenFor
      BY <2>1, TypeOf DEF Begun, WrittenFor
    <3> QED BY <2>2, <3>1, <3>2, <3>3 DEF WrittenFor
  <2>3. ASSUME NEW h \in WrittenFor, Moved(h, disk)
        PROVE  Moved(h, disk)'
    <3>1. h \in Challenge /\ request[h] # NoRequest
      BY DEF WrittenFor, ReplayInv, ServerInitTypeOK, Begun
    <3>2. CASE disk["state"].gen # request[h].session[2]
      <4>1. disk'["state"].gen \in {disk["state"].gen, applying[c].run}
        BY <1>1, <1>5, SnapshotFiles DEF Writes
      <4>2. disk'["state"].gen # disk["state"].gen => applying[c].at = 1
        BY <1>1, <1>5, SnapshotFiles DEF Writes, StepOf
      <4>3. applying[c].at = 1 => request[h].session[2] # applying[c].run
        BY <2>1, <3>1 DEF FreshInv, Begun
      <4> QED BY <2>1, <3>2, <4>1, <4>2, <4>3 DEF Moved
    <3>3. ASSUME NEW p \in Shown, Exists(request[h].files[p]), disk[p] # request[h].files[p]
          PROVE  Moved(h, disk)'
      <4>1. p \in Seen /\ p \in Path
        BY SnapshotFiles DEF Shown
      <4>2. Unused(request[h].files[p], p, c)
        BY <2>1, <3>1, <4>1 DEF FreshInv
      <4>3. disk'[p] # request[h].files[p]
        BY <1>1, <1>5, <3>3, <4>1, <4>2, TypeOf DEF Writes, Unused, StepOf, Shown
      <4> QED BY <2>1, <3>3, <4>3 DEF Moved, Exists
    <3>4. CASE clobbered /\ \A p \in Shown : ~Exists(request[h].files[p])
      BY <2>1, <3>4 DEF Moved, Exists
    <3> QED BY <2>3, <3>2, <3>3, <3>4 DEF Moved
  <2>4. ASSUME NEW h, h = applying[c].ask, applying[c].at = 1 PROVE Moved(h, disk)'
    <3>1. disk'["state"].gen = applying[c].run
      BY <1>1, <1>5, <2>4 DEF Writes
    <3>2. request[h].session[2] # applying[c].run
      BY <2>1, <2>4, TypeOf DEF FreshInv, Begun, ReplayInv
    <3> QED BY <2>1, <3>1, <3>2 DEF Moved
  <2>5. \A h \in WrittenFor' : Moved(h, disk)'
    BY <2>2, <2>3, <2>4 DEF ReplayInv
  <2>6. /\ \A h \in granted' : request'[h] # NoRequest
        /\ \A d \in Caller : Running(d)' => request'[applying'[d].ask] # NoRequest
    BY <1>2, <1>4, <2>1 DEF ReplayInv, GoOn
  <2>7. ASSUME NEW d \in Caller, Running(d)', applying'[d].alone, NEW h \in WrittenBut(d)'
        PROVE  Moved(h, applying[d].before)'
    <3>0. Running(d) /\ applying[d].alone /\ applying[d] \in ApplyRecord
      BY <1>4, <2>7 DEF GoOn, ServerInitTypeOK, Running, ApplyRecord
    <3>3. ASSUME d # c PROVE FALSE
      <4>1. applying'[d] = [applying[d] EXCEPT !.alone = FALSE]
        BY <1>3, <3>0, <3>3
      <4>2. applying'[d].alone = FALSE
        BY <3>0, <4>1, NoLongerAlone
      <4> QED BY <2>7, <4>2
    <3>1. d = c /\ applying[c].alone
      BY <3>0, <3>3
    <3>2. h \in WrittenBut(c)
      <4>1. granted' = granted
        BY <1>2, <1>3, <2>7, <3>1
      <4>2. ASSUME NEW e \in Caller \ {c}, Begun(e)'
            PROVE  Begun(e) /\ applying[e].ask = applying'[e].ask
        <5>1. Running(e) /\ applying[e] \in ApplyRecord
          BY <1>4, <4>2 DEF GoOn, Begun, ServerInitTypeOK, ApplyRecord, Running
        <5>2. applying'[e] = [applying[e] EXCEPT !.alone = FALSE]
          BY <1>3, <5>1
        <5> QED BY <4>2, <5>1, <5>2, NoLongerAlone DEF Begun
      <4> QED BY <2>7, <3>1, <4>1, <4>2 DEF WrittenBut
    <3> QED BY <1>4, <2>1, <2>7, <3>1, <3>2 DEF ReplayInv, Moved, GoOn
  <2> QED BY <2>5, <2>6, <2>7 DEF ReplayInv
<1> QED BY <1>8, <1>9, <1>10

\* A failure puts back what was copied.
LEMMA FailKeeps == ASSUME ServerInv, NEW c \in Caller, Running(c), FailInit(c) PROVE ServerInv'
<1> USE DEF ServerInv
<1> DEFINE n == applying[c].run
           old == applying[c].before
<1>1. /\ UNCHANGED <<request, cached, applies, touches, granted, spent>>
      /\ applying' = [Disturbed(c) EXCEPT ![c] = NoInit]
      /\ clobbered' = (clobbered \/ ~applying[c].alone)
      /\ disk' = [p \in Path |->
           IF p \notin Copied THEN disk[p]
           ELSE IF Exists(old[p]) THEN [old[p] EXCEPT !.put = n] ELSE Blank]
  BY DEF FailInit
<1>2. /\ n \in Nat /\ old \in [Path -> FileState] /\ disk \in [Path -> FileState]
      /\ n <= applies + 1 /\ applies \in Nat /\ touches \in Nat /\ n >= 2
  BY TypeOf DEF BoundInv
<1>3. GoOn /\ ~Running(c)' /\ \A d \in Caller : Running(d)' => ~applying'[d].alone /\ applying'[d].at = applying[d].at
  <2>1. \A d \in Caller : Running(d) => applying[d] \in ApplyRecord
    BY DEF ServerInitTypeOK, ApplyRecord, Running
  <2>2. Len(Order) = 8
    BY DEF Order
  <2>3. \A d \in Caller : applying'[d] =
          IF d = c THEN NoInit
          ELSE IF Running(d) THEN [applying[d] EXCEPT !.alone = FALSE] ELSE NoInit
    BY <1>1 DEF Disturbed, Running
  <2>4. DOMAIN applying' = Caller
    BY <1>1 DEF Disturbed
  <2>5. ASSUME NEW d \in Caller, Running(d)'
        PROVE  /\ Running(d) /\ applying'[d] \in ApplyRecord
               /\ applying'[d].run = applying[d].run /\ applying'[d].ask = applying[d].ask
               /\ applying'[d].before = applying[d].before
               /\ applying'[d].at = applying[d].at /\ applying[d].at \in 1..8
               /\ ~applying'[d].alone
    <3>1. Running(d) /\ applying'[d] = [applying[d] EXCEPT !.alone = FALSE] /\ applying[d] \in ApplyRecord
      BY <2>1, <2>3, <2>5 DEF Running
    <3> QED BY <3>1, NoLongerAlone, TypeOf
  <2>6. ~Running(c)'
    BY <2>3 DEF Running
  <2> QED BY <2>4, <2>5, <2>6 DEF GoOn
<1>4. ASSUME NEW p \in Path
      PROVE  /\ disk'[p] \in FileState
             /\ p \notin Copied => disk'[p] = disk[p]
             /\ p \in Copied => /\ disk'[p].own = old[p].own /\ disk'[p].gen = old[p].gen
                                /\ disk'[p].put \in {0, n}
                                /\ Exists(old[p]) => disk'[p].put = n
                                /\ ~Exists(old[p]) => ~Exists(disk'[p])
  BY <1>1, <1>2 DEF FileState, Blank, Exists
<1> HIDE DEF n, old
<1>5. disk' \in [Path -> FileState]
  BY <1>1, <1>4
<1>6. \A p \in Path : Bounded(disk[p], p)'
  <2>1. \A p \in Path : Bounded(disk[p], p) /\ Bounded(old[p], p)
    BY DEF BoundInv, old
  <2>2. ASSUME NEW p \in Path PROVE Bounded(disk[p], p)'
    <3>1. /\ disk[p] \in FileState /\ old[p] \in FileState
          /\ applies' = applies /\ touches' = touches
      BY <1>1, <1>2
    <3>2. /\ disk'[p].gen \in {disk[p].gen, old[p].gen} /\ disk'[p].own \in {disk[p].own, old[p].own}
          /\ disk'[p].put \in {disk[p].put, 0, n}
      BY <1>4
    <3> QED BY <1>2, <2>1, <3>1, <3>2 DEF Bounded, FileState
  <2> QED BY <2>2
<1>7. ASSUME NEW d \in Caller, Running(d)', NEW p \in Path PROVE Unused(disk[p], p, d)'
  <2>1. Running(d) /\ d # c /\ applying'[d].run = applying[d].run /\ applying'[d].at = applying[d].at
    BY <1>3, <1>7 DEF GoOn
  <2>2. applying[d].run # n /\ applying[d].run # 0
    BY <2>1 DEF BoundInv, n
  <2>3. Unused(disk[p], p, d) /\ Unused(old[p], p, d)
    BY <2>1 DEF FreshInv, old
  <2> QED BY <1>4, <2>1, <2>2, <2>3 DEF Unused
<1>8. BoundInv' /\ FreshInv'
  BY <1>1, <1>2, <1>3, <1>5, <1>6, <1>7, FilesKeep
<1>9. ServerInitTypeOK' /\ SpentInv'
  BY <1>1, <1>3, <1>5, TypeOf DEF ServerInitTypeOK, GoOn, ApplyRecord, SpentInv, Running
<1>10. ReplayInv'
  <2>1. ASSUME NEW h \in WrittenFor' PROVE h \in WrittenBut(c) /\ h \in WrittenFor /\ h \in Challenge /\ request[h] # NoRequest
    <3>1. ASSUME NEW d \in Caller, Begun(d)', applying'[d].ask = h
          PROVE  d # c /\ Begun(d) /\ applying[d].ask = h
      BY <1>3, <3>1 DEF Begun, GoOn
    <3>2. h \in Challenge /\ request[h] # NoRequest
      BY <1>1, <1>3, <2>1, TypeOf DEF WrittenFor, ReplayInv, Begun, GoOn, ServerInitTypeOK
    <3> QED BY <1>1, <2>1, <3>1, <3>2 DEF WrittenFor, WrittenBut
  <2>2. ASSUME NEW h \in Challenge, request[h] # NoRequest, NEW p \in Shown, Exists(request[h].files[p])
        PROVE  Moved(h, disk)'
    <3>1. p \in Path /\ p \in Copied /\ p \in Seen
      BY SnapshotFiles
    <3>2. request[h].files[p].put # n
      BY <2>2, <3>1 DEF FreshInv, Unused, n
    <3>3. disk'[p] # request[h].files[p]
      BY <1>4, <2>2, <3>1, <3>2 DEF Exists
    <3> QED BY <1>1, <2>2, <3>3 DEF Moved, Exists
  <2>3. ASSUME NEW h \in WrittenFor', \A p \in Shown : ~Exists(request[h].files[p])
        PROVE  Moved(h, disk)'
    <3>1. CASE applying[c].alone
      <4>1. Moved(h, old)
        BY <2>1, <2>3, <3>1 DEF ReplayInv, old
      <4>2. disk'["state"].gen = old["state"].gen
        BY <1>4, SnapshotFiles
      <4> QED BY <1>1, <2>3, <4>1, <4>2 DEF Moved, Exists
    <3>2. CASE ~applying[c].alone
      BY <1>1, <2>3, <3>2 DEF Moved, Exists
    <3> QED BY <3>1, <3>2
  <2>4. \A h \in WrittenFor' : Moved(h, disk)'
    BY <2>1, <2>2, <2>3
  <2>5. /\ \A h \in granted' : request'[h] # NoRequest
        /\ \A d \in Caller : Running(d)' => request'[applying'[d].ask] # NoRequest
    BY <1>1, <1>3 DEF ReplayInv, GoOn
  <2> QED BY <1>3, <2>4, <2>5 DEF ReplayInv
<1> QED BY <1>8, <1>9, <1>10

\* A server is killed: its apply is gone.
LEMMA KillKeeps == ASSUME ServerInv, NEW c \in Caller, KillServer(c) PROVE ServerInv'
<1> USE DEF ServerInv
<1>1. /\ UNCHANGED <<disk, request, cached, applies, touches, granted, spent, clobbered>>
      /\ \A d \in Caller : Running(d)' => Running(d) /\ applying'[d] = applying[d]
      /\ DOMAIN applying' = Caller
  BY DEF KillServer, Running, ServerInitTypeOK
<1>2. GoOn
  <2>1. ASSUME NEW d \in Caller, Running(d)' PROVE applying[d] \in ApplyRecord
    BY <1>1, <2>1 DEF ServerInitTypeOK, ApplyRecord, Running
  <2> QED BY <1>1, <2>1, TypeOf DEF GoOn
<1>3. BoundInv' /\ FreshInv'
  <2>1. disk' \in [Path -> FileState] /\ \A p \in Path : Bounded(disk[p], p)'
    BY <1>1, TypeOf DEF BoundInv, Bounded
  <2>2. \A d \in Caller : Running(d)' => \A p \in Path : Unused(disk[p], p, d)'
    BY <1>1 DEF FreshInv, Unused
  <2> QED BY <1>1, <1>2, <2>1, <2>2, FilesKeep
<1>4. ServerInitTypeOK' /\ SpentInv'
  BY <1>1 DEF ServerInitTypeOK, SpentInv, Running
<1>5. ReplayInv'
  <2>1. WrittenFor' \subseteq WrittenFor /\ \A d \in Caller : WrittenBut(d)' \subseteq WrittenBut(d)
    BY <1>1 DEF WrittenFor, WrittenBut, Begun
  <2>2. \A h : Moved(h, disk) => Moved(h, disk)'
    BY <1>1 DEF Moved
  <2>3. ASSUME NEW d \in Caller, Running(d)', applying'[d].alone, NEW h \in WrittenBut(d)'
        PROVE  Moved(h, applying[d].before)'
    BY <1>1, <2>1, <2>3 DEF ReplayInv, Moved
  <2>4. /\ \A h \in granted' : request'[h] # NoRequest
        /\ \A d \in Caller : Running(d)' => request'[applying'[d].ask] # NoRequest
    BY <1>1 DEF ReplayInv
  <2>5. \A h \in WrittenFor' : Moved(h, disk)'
    BY <2>1, <2>2 DEF ReplayInv
  <2> QED BY <2>3, <2>4, <2>5 DEF ReplayInv
<1> QED BY <1>3, <1>4, <1>5

\* The author edits a file: what it says was said by nobody before.
LEMMA TouchKeeps == ASSUME ServerInv, NEW q \in Path, TouchFile(q) PROVE ServerInv'
<1> USE DEF ServerInv
<1> DEFINE x == [own |-> IF q = "state" THEN disk[q].own + 1 ELSE touches + 2,
                 gen |-> disk[q].gen, put |-> 0]
<1>1. /\ UNCHANGED <<request, cached, applies, granted, spent, clobbered>>
      /\ touches' = touches + 1 /\ touches < MaxTouches
      /\ disk' = [disk EXCEPT ![q] = x] /\ DOMAIN applying' = Caller
      /\ \A d \in Caller : Running(d)' => Running(d) /\ applying'[d] = [applying[d] EXCEPT !.alone = FALSE]
  BY DEF TouchFile, Running
<1>2. /\ x \in FileState /\ x.gen = disk[q].gen /\ x.put = 0
      /\ q # "state" => x.own = touches + 2
  BY TypeOf DEF FileState
<1> HIDE DEF x
<1>3. disk' \in [Path -> FileState] /\ \A p \in Path : disk'[p] = IF p = q THEN x ELSE disk[p]
  BY <1>1, <1>2, TypeOf
<1>4. ASSUME NEW d \in Caller, Running(d)'
      PROVE  /\ Running(d) /\ applying'[d] \in ApplyRecord /\ ~applying'[d].alone
             /\ applying'[d].run = applying[d].run /\ applying'[d].ask = applying[d].ask
             /\ applying'[d].at = applying[d].at /\ applying'[d].before = applying[d].before
             /\ applying[d].run \in Nat /\ applying[d].run # 0
  <2>1. Running(d) /\ applying'[d] = [applying[d] EXCEPT !.alone = FALSE]
    BY <1>1, <1>4
  <2>2. applying[d] \in ApplyRecord
    BY <2>1 DEF ServerInitTypeOK, ApplyRecord, Running
  <2>3. applying[d].run \in Nat /\ applying[d].run # 0
    BY <2>1, TypeOf DEF BoundInv
  <2> QED BY <2>1, <2>2, <2>3, NoLongerAlone
<1>5. GoOn
  BY <1>1, <1>4, TypeOf DEF GoOn
<1>6. ASSUME NEW p \in Path PROVE Bounded(disk[p], p)'
  <2>1. /\ applies \in Nat /\ touches \in Nat /\ applies' = applies /\ touches' = touches + 1
        /\ disk[p] \in FileState /\ Bounded(disk[p], p)
    BY <1>1, TypeOf DEF BoundInv
  <2>2. CASE p = q
    <3>1. p \in Shown => p # "state"
      BY DEF Shown
    <3> QED BY <1>2, <1>3, <2>1, <2>2, <3>1 DEF Bounded, FileState
  <2>3. CASE p # q
    BY <1>3, <2>1, <2>3 DEF Bounded, FileState
  <2> QED BY <2>2, <2>3
<1>7. ASSUME NEW d \in Caller, Running(d)', NEW p \in Path PROVE Unused(disk[p], p, d)'
  <2>1. Unused(disk[p], p, d)
    BY <1>4, <1>7 DEF FreshInv
  <2> QED BY <1>2, <1>3, <1>4, <1>7, <2>1 DEF Unused
<1>8. BoundInv' /\ FreshInv'
  BY <1>1, <1>3, <1>5, <1>6, <1>7, FilesKeep
<1>9. ServerInitTypeOK' /\ SpentInv'
  <2>1. touches' \in 0..MaxTouches
    BY <1>1, ServerInitAssumption DEF ServerInitTypeOK
  <2>2. \A d \in Caller : applying'[d] # NoInit => applying'[d] \in ApplyRecord
    BY <1>4 DEF Running
  <2>3. ServerInitTypeOK'
    BY <1>1, <1>3, <2>1, <2>2 DEF ServerInitTypeOK, ApplyRecord
  <2> QED BY <1>1, <2>3 DEF SpentInv
<1>10. ReplayInv'
  <2>1. WrittenFor' \subseteq WrittenFor
    BY <1>1, <1>4 DEF WrittenFor, Begun
  <2>2. ASSUME NEW h \in WrittenFor PROVE Moved(h, disk)'
    <3>1. h \in Challenge /\ request[h] # NoRequest /\ Moved(h, disk)
      BY DEF WrittenFor, ReplayInv, ServerInitTypeOK, Begun
    <3>2. disk'["state"].gen = disk["state"].gen
      BY <1>2, <1>3, SnapshotFiles
    <3>3. ASSUME NEW p \in Shown, disk[p] # request[h].files[p]
          PROVE  disk'[p] # request[h].files[p]
      <4>1. p \in Path /\ p \in Seen /\ p # "state"
        BY SnapshotFiles DEF Shown
      <4>2. request[h].files[p].own <= touches + 1 /\ request[h].files[p].own \in Nat
        BY <3>1, <4>1, TypeOf DEF BoundInv, Bounded, FileState
      <4> QED BY <1>2, <1>3, <3>3, <4>1, <4>2, TypeOf
    <3> QED BY <1>1, <3>1, <3>2, <3>3 DEF Moved, Exists
  <2>3. \A h \in WrittenFor' : Moved(h, disk)'
    BY <2>1, <2>2
  <2>4. /\ \A h \in granted' : request'[h] # NoRequest
        /\ \A d \in Caller : Running(d)' => request'[applying'[d].ask] # NoRequest
    BY <1>1, <1>4 DEF ReplayInv
  <2> QED BY <1>4, <2>3, <2>4 DEF ReplayInv
<1> QED BY <1>8, <1>9, <1>10

LEMMA ServerStep == ServerInv /\ [ServerInitNext]_initVars => ServerInv'
<1> SUFFICES ASSUME ServerInv, [ServerInitNext]_initVars PROVE ServerInv'
  OBVIOUS
<1>1. CASE UNCHANGED initVars
  BY <1>1 DEF initVars, ServerInv, ServerInitTypeOK, BoundInv, Bounded, FreshInv, Unused,
     Running, Begun, ReplayInv, WrittenFor, WrittenBut, Moved, SpentInv
<1>2. CASE \E h \in Challenge, refresh \in BOOLEAN : PrepareInit(h, refresh)
  BY <1>2, PrepareKeeps
<1>3. CASE \E h \in Challenge :
             StageInit(h) \/ \E tier \in {"temporary", "durable"} : Expire(h, tier)
  BY <1>3, CacheKeeps
<1>4. CASE \E h \in Challenge, c \in Caller, token, draft \in BOOLEAN :
             BeginInit(c, h, token, draft)
  BY <1>4, BeginKeeps
<1>5. CASE \E c \in Caller : WriteNext(c)
  BY <1>5, WriteKeeps
<1>6. CASE \E c \in Caller : FailInit(c)
  BY <1>6, FailKeeps DEF FailInit, Running
<1>7. CASE \E c \in Caller : KillServer(c)
  BY <1>7, KillKeeps
<1>8. CASE \E p \in Path : TouchFile(p)
  BY <1>8, TouchKeeps
<1> QED BY <1>1, <1>2, <1>3, <1>4, <1>5, <1>6, <1>7, <1>8 DEF ServerInitNext

LEMMA ServerInvariant == ServerInitSpec => []ServerInv
<1>1. ServerInitInit => ServerInv
  BY ServerInitial
<1> QED BY <1>1, ServerStep, PTL DEF ServerInitSpec

\* Whatever the servers, the author and the failures do, files, requests
\* and applies keep their form.
THEOREM ServerInitTypeCorrect == ServerInitSpec => []ServerInitTypeOK
<1>1. ServerInv => ServerInitTypeOK
  BY DEF ServerInv
<1> QED BY <1>1, ServerInvariant, PTL

\* No replay of an answered phrase begins an apply (BeginInit compares the
\* snapshot, and every file that an apply writes or puts back differs from
\* what was shown), and a phrase alone serves once for each staging.
THEOREM ReplaysAreRefused == ServerInitSpec => ReplaysDoNotWrite
<1> DEFINE Refused(c) ==
      Begins(c) =>
        LET h == applying'[c].ask
        IN /\ h \in granted =>
                clobbered /\ \A p \in Seen \cap Copied : ~Exists(request[h].files[p])
           /\ applying'[c].bare => h \notin spent
<1>1. ASSUME ServerInv, [ServerInitNext]_initVars, NEW c \in Caller, Begins(c)
      PROVE  \E h \in Challenge, token, draft \in BOOLEAN : BeginInit(c, h, token, draft)
  <2>1. ~UNCHANGED initVars /\ ~UNCHANGED applying
    BY <1>1 DEF Begins, initVars
  <2>2. ASSUME NEW d \in Caller, NEW h \in Challenge, NEW token \in BOOLEAN, NEW draft \in BOOLEAN,
               BeginInit(d, h, token, draft)
        PROVE  d = c
    BY <1>1, <2>2 DEF BeginInit, Begins, ServerInv, ServerInitTypeOK
  <2>3. ~\E d \in Caller : WriteNext(d) \/ FailInit(d) \/ KillServer(d)
    <3>1. ASSUME NEW d \in Caller, NEW v, applying' = [Disturbed(d) EXCEPT ![d] = v],
                 applying[d] # NoInit
          PROVE  FALSE
      BY <1>1, <3>1 DEF Begins, Disturbed
    <3>2. ASSUME NEW d \in Caller, WriteNext(d) PROVE FALSE
      BY <3>1, <3>2 DEF WriteNext
    <3>3. ASSUME NEW d \in Caller, FailInit(d) PROVE FALSE
      BY <3>1, <3>3 DEF FailInit
    <3>4. ASSUME NEW d \in Caller, KillServer(d) PROVE FALSE
      BY <1>1, <3>4 DEF KillServer, Begins, ServerInv, ServerInitTypeOK
    <3> QED BY <3>2, <3>3, <3>4
  <2>4. ~\E p \in Path : TouchFile(p)
    BY <1>1 DEF Begins, TouchFile
  <2> QED BY <1>1, <2>1, <2>2, <2>3, <2>4
          DEF ServerInitNext, PrepareInit, StageInit, Expire
<1>2. ASSUME ServerInv, [ServerInitNext]_initVars, NEW c \in Caller PROVE Refused(c)
  <2> SUFFICES ASSUME Begins(c) PROVE Refused(c)
    OBVIOUS
  <2>1. PICK h \in Challenge, token \in BOOLEAN, draft \in BOOLEAN : BeginInit(c, h, token, draft)
    BY <1>1, <1>2
  <2>2. applying'[c].ask = h /\ applying'[c].bare = ~token /\ request[h] # NoRequest
    <3>1. applying'[c] = [run |-> applies + 2, ask |-> h, bare |-> ~token, at |-> 1,
                          before |-> disk, alone |-> TRUE]
      BY <1>2, <2>1 DEF BeginInit, ServerInv, ServerInitTypeOK
    <3>2. applying'[c].ask = h /\ applying'[c].bare = ~token
      BY <3>1
    <3> QED BY <2>1, <3>2 DEF BeginInit
  <2>3. ~Moved(h, disk) \/ (clobbered /\ \A p \in Shown : ~Exists(request[h].files[p]))
    <3>1. request[h] = OnboardingSnapshot
      BY <2>1 DEF BeginInit
    <3> SUFFICES ASSUME Moved(h, disk)
                 PROVE  clobbered /\ \A p \in Shown : ~Exists(request[h].files[p])
      OBVIOUS
    <3>2. /\ request[h].session[2] = disk["state"].gen
          /\ \A p \in Shown : request[h].files[p] = disk[p]
      BY <3>1, SnapshotFiles DEF OnboardingSnapshot, Body
    <3> QED BY <3>2 DEF Moved
  <2>4. h \in granted =>
          clobbered /\ \A p \in Seen \cap Copied : ~Exists(request[h].files[p])
    <3>1. h \in granted => Moved(h, disk)
      BY <1>2 DEF ServerInv, ReplayInv, WrittenFor
    <3> QED BY <2>3, <3>1, SnapshotFiles
  <2>5. ~token => h \notin spent
    BY <1>2, <2>1 DEF BeginInit, ServerInv, SpentInv
  <2> QED BY <2>2, <2>4, <2>5
<1>3. ASSUME ServerInv, [ServerInitNext]_initVars PROVE \A c \in Caller : Refused(c)
  BY <1>2, <1>3
<1> HIDE DEF Refused
<1>4. [][\A c \in Caller : Refused(c)]_initVars => ReplaysDoNotWrite
  BY PTL DEF ReplaysDoNotWrite, Refused
<1> QED BY <1>3, <1>4, ServerInvariant, PTL DEF ServerInitSpec

\* The author's part of a file changes by the author's hand or goes back to
\* what a failed apply found, and an undisturbed apply that fails puts every
\* file but .gitattributes back (OneWrite: writeArtifact, appendManagedBlock
\* and writeSpecDrivenAgentsMd leave the author's part alone; FailInit).
THEOREM AuthorsFilesSurvive == ServerInitSpec => NothingIsLost
<1> DEFINE Kept(p) ==
      disk'[p].own # disk[p].own =>
        touches' # touches
        \/ \E c \in Caller : Fails(c) /\ Body(disk'[p]) = Body(applying[c].before[p])
    Undone(c) ==
      Fails(c) /\ applying[c].alone =>
        \A p \in Path \ {"attributes"} : Body(disk'[p]) = Body(applying[c].before[p])
<1>1. ASSUME ServerInv, NEW c \in Caller, Fails(c), NEW p \in Path \ {"attributes"}
      PROVE  Body(disk'[p]) = Body(applying[c].before[p])
  <2>1. p \in Copied /\ p \in Path /\ applying[c].before \in [Path -> FileState]
    BY <1>1, SnapshotFiles, TypeOf DEF Fails, Running
  <2>2. disk'[p] = IF Exists(applying[c].before[p])
                   THEN [applying[c].before[p] EXCEPT !.put = applying[c].run] ELSE Blank
    BY <1>1, <2>1 DEF Fails, FailInit
  <2> QED BY <2>1, <2>2 DEF Body, Blank, Exists, FileState
<1>2. ASSUME ServerInv, [ServerInitNext]_initVars, NEW p \in Path \ {"state", "scan"},
             disk'[p].own # disk[p].own, touches' = touches
      PROVE  \E c \in Caller : Fails(c) /\ Body(disk'[p]) = Body(applying[c].before[p])
  <2>1. disk' # disk
    BY <1>2
  <2>2. ASSUME NEW c \in Caller, WriteNext(c) PROVE FALSE
    <3>1. PICK t \in Path, x \in FileState : disk' = [disk EXCEPT ![t] = x] /\ Writes(c, t, x)
      BY <1>2, <2>2, OneWrite
    <3> QED BY <1>2, <3>1, TypeOf DEF Writes
  <2>3. ASSUME NEW q \in Path, TouchFile(q) PROVE FALSE
    BY <1>2, <2>3, TypeOf DEF TouchFile
  <2>4. \E c \in Caller : FailInit(c)
    BY <1>2, <2>1, <2>2, <2>3 DEF ServerInitNext, initVars, PrepareInit, StageInit, Expire,
       BeginInit, KillServer
  <2>5. PICK c \in Caller : Fails(c)
    BY <2>4 DEF FailInit, Fails
  <2>6. p # "attributes"
    BY <1>2, <2>5, SnapshotFiles DEF Fails, FailInit
  <2> QED BY <1>1, <1>2, <2>5, <2>6
<1>3. ASSUME ServerInv, [ServerInitNext]_initVars
      PROVE  (\A p \in Path \ {"state", "scan"} : Kept(p)) /\ \A c \in Caller : Undone(c)
  BY <1>1, <1>2, <1>3
<1>4. [][(\A p \in Path \ {"state", "scan"} : Kept(p)) /\ \A c \in Caller : Undone(c)]_initVars
        => NothingIsLost
  BY PTL DEF NothingIsLost, Kept, Undone
<1> HIDE DEF Kept, Undone
<1> QED BY <1>3, <1>4, ServerInvariant, PTL DEF ServerInitSpec
-----------------------------------------------------------------------------
(* The onboarding interview: what is kept anywhere of an artifact, in the  *)
(* session, a proposal or a command under way, has no edit that the design *)
(* has lost, so what was made from it can be compared with the design.     *)

Text == [answers : SUBSET Question, edits : SUBSET Nat] \cup {Missing}

\* A session, as it is on disk or in a command.
Form(s) ==
  /\ DOMAIN s = {"status", "qa", "answered", "digests", "review", "bases"}
  /\ s.answered \subseteq Question /\ s.qa \in Seq(Question)
  /\ DOMAIN s.digests \subseteq Artifact /\ \A a \in DOMAIN s.digests : s.digests[a] \in Text
  /\ s.review \subseteq Artifact /\ DOMAIN s.bases = s.review
  /\ \A a \in s.review : s.bases[a] \in Text

Working == {"propose", "typed", "publish", "document", "save"}

\* What a command has in hand, by its phase.
JobForm(w) ==
  /\ w.phase \in {"drafted", "asking"} \cup Working
  /\ w.phase = "drafted" => DOMAIN w = {"phase", "kind", "left"}
  /\ w.phase = "asking" =>
       /\ w.kind = "question"
       /\ DOMAIN w = {"phase", "kind", "was", "question", "state", "base"}
       /\ Form(w.was) /\ Form(w.state) /\ w.question \in Question
       /\ w.base \in [Artifact -> Text]
  /\ w.phase \in Working =>
       /\ w.kind \in {"refinement", "proposal", "review"}
       /\ DOMAIN w = IF w.kind = "review"
                     THEN {"phase", "kind", "targets", "base", "body", "state"}
                     ELSE {"phase", "kind", "targets", "question", "last", "base",
                           "body", "state"}
       /\ w.kind # "review" => w.question \in Question /\ w.targets = Artifact
       /\ Form(w.state) /\ w.targets \subseteq Artifact
       /\ w.base \in [Artifact -> Text] /\ w.body \in [Artifact -> Text]
  /\ w.phase = "propose" => w.kind = "proposal"
  /\ w.phase \in {"typed", "publish", "document"} => w.kind # "proposal"

\* The artifacts whose edits a publication would notice.
Sound == Artifact \ late

\* Every edit in the texts is in the design, now.
Old(texts, arts, now, sound) ==
  \A a \in arts \cap sound : Edits(texts[a]) \subseteq Edits(now[a])

OldSession(s, now, sound) ==
  Old(s.digests, DOMAIN s.digests, now, sound) /\ Old(s.bases, s.review, now, sound)

\* What a command was shown is old, what was accepted last is in what it was
\* shown, and what it is about to publish has everything it was made from.  A
\* typed publication is not bound to bytes: nothing was written since.
JobTexts(w, now, sound, typed) ==
  /\ w.phase = "asking" =>
       /\ OldSession(w.was, now, sound) /\ OldSession(w.state, now, sound)
       /\ Old(w.base, Artifact, now, sound)
       /\ \A a \in sound :
            IF a \in DOMAIN w.was.digests
            THEN Edits(w.was.digests[a]) \subseteq Edits(w.base[a])
            ELSE typed /\ a # Context => Edits(now[a]) \subseteq Edits(w.base[a])
  /\ w.phase \in Working =>
       /\ OldSession(w.state, now, sound)
       /\ Old(w.base, Artifact, now, sound) /\ Old(w.body, Artifact, now, sound)
       /\ Old(w.base, w.targets, w.body, sound)
  /\ w.phase = "typed" => Old(now, w.targets \ {Context}, w.base, sound)
  /\ w.phase \in {"typed", "document"} => typed

\* Before the first init with an intent there is no session.
Known == session # NoSession \/ \E c \in Busy : job[c].kind # "scaffold"

\* Commands may overlap as they like.
TextInv ==
  /\ native \in BOOLEAN
  /\ design \in [Artifact -> Text] /\ proposal \in [Artifact -> Text]
  /\ Known => Form(session) /\ OldSession(session, design, Sound)
  /\ Old(proposal, Artifact, design, Sound)
  /\ DOMAIN job = Command
  /\ \A c \in Busy : JobForm(job[c]) /\ JobTexts(job[c], design, Sound, native)
  /\ told \subseteq Question /\ late \subseteq Artifact
  /\ rewrites \in 0..MaxRewrites

-----------------------------------------------------------------------------
\* Facts about the constants and the texts made from them.
LEMMA Constants ==
  /\ Context \in Artifact
  /\ \A A \in SUBSET Question, E \in SUBSET Nat :
       LET t == [answers |-> A, edits |-> E] IN
       t \in Text /\ t # Missing /\ Edits(t) = E /\ Answers(t) = A
  /\ Missing \in Text
  /\ Edits(Missing) = {} /\ Answers(Missing) = {}
  /\ MaxRewrites \in Nat
<1>1. /\ Context \in Artifact /\ MaxRewrites \in Nat
      /\ Missing \notin [answers : SUBSET Question, edits : SUBSET Nat]
  BY OnboardingAssumption
<1>2. ASSUME NEW A \in SUBSET Question, NEW E \in SUBSET Nat
      PROVE  LET t == [answers |-> A, edits |-> E] IN
             t \in Text /\ t # Missing /\ Edits(t) = E /\ Answers(t) = A
  <2> DEFINE t == [answers |-> A, edits |-> E]
  <2>1. t \in [answers : SUBSET Question, edits : SUBSET Nat] /\ t.answers = A /\ t.edits = E
    OBVIOUS
  <2> HIDE DEF t
  <2>2. t # Missing
    BY <1>1, <2>1
  <2> QED BY <2>1, <2>2 DEF Text, Edits, Answers, t
<1> QED BY <1>1, <1>2 DEF Text, Edits, Answers

LEMMA TextParts ==
  ASSUME NEW b \in Text
  PROVE  Edits(b) \in SUBSET Nat /\ Answers(b) \in SUBSET Question
BY DEF Text, Edits, Answers

\* What is old stays old while the design keeps the author's edits.
LEMMA OldMoves ==
  ASSUME NEW texts, NEW arts, NEW now, NEW sound, Old(texts, arts, now, sound),
         NEW next, NEW left \in SUBSET sound,
         \A a \in left : Edits(now[a]) \subseteq Edits(next[a])
  PROVE  Old(texts, arts, next, left)
BY DEF Old

\* So does a command, if the edits are the same, which a typed publication asks.
LEMMA JobMoves ==
  ASSUME NEW w, JobForm(w), NEW now, NEW sound, sound \subseteq Artifact, NEW typed,
         JobTexts(w, now, sound, typed),
         NEW next, NEW left \in SUBSET sound,
         \A a \in left : Edits(now[a]) = Edits(next[a])
  PROVE  JobTexts(w, next, left, typed)
BY DEF JobTexts, OldSession, Old

\* A step of one command, which keeps the edits of what is not late.
LEMMA TextStep ==
  ASSUME TextInv, NEW c \in Command, native' = native, late \subseteq late',
         late' \subseteq Artifact, told' \subseteq Question, rewrites' = rewrites,
         design' \in [Artifact -> Text], proposal' \in [Artifact -> Text],
         \A a \in Artifact \ late' : Edits(design[a]) = Edits(design'[a]),
         Old(proposal', Artifact, design', Artifact \ late'),
         Known' => Form(session') /\ OldSession(session', design', Artifact \ late'),
         NEW new, job' = [job EXCEPT ![c] = new],
         new # NoJob =>
           JobForm(new) /\ JobTexts(new, design', Artifact \ late', native)
  PROVE  TextInv'
<1>1. Sound' = Artifact \ late' /\ Sound' \in SUBSET Sound /\ Sound \subseteq Artifact
  BY DEF Sound
<1>2. DOMAIN job' = Command
  BY DEF TextInv
<1>3. ASSUME NEW d \in Command, job'[d] # NoJob
      PROVE  JobForm(job'[d]) /\ JobTexts(job'[d], design', Sound', native)
  <2>1. CASE d = c
    BY <1>1, <1>3, <2>1 DEF TextInv
  <2>2. CASE d # c
    <3>1. job'[d] = job[d]
      BY <2>2 DEF TextInv
    <3>2. JobForm(job[d]) /\ JobTexts(job[d], design, Sound, native)
      BY <1>3, <3>1 DEF TextInv, Busy
    <3>3. \A a \in Sound' : Edits(design[a]) = Edits(design'[a])
      BY <1>1
    <3> QED BY <1>1, <3>1, <3>2, <3>3, JobMoves
  <2> QED BY <2>1, <2>2
<1>4. \A d \in Busy' : JobForm(job'[d]) /\ JobTexts(job'[d], design', Sound', native')
  BY <1>3 DEF Busy
<1> QED BY <1>1, <1>2, <1>4 DEF TextInv

\* What holds at first and is handed on holds up to n.
LEMMA UpTo ==
  ASSUME NEW n \in Nat, NEW S, 0 \in S, \A i \in 1..n : i - 1 \in S => i \in S
  PROVE  0..n \subseteq S
<1> DEFINE Out == {i \in 0..n : i \notin S}
<1>1. SUFFICES ASSUME Out # {} PROVE FALSE
  OBVIOUS
<1>2. Out \in SUBSET Nat
  OBVIOUS
<1>3. PICK low \in Out : \A i \in Out : ~(<<i, low>> \in OpToRel(<, Nat))
  BY <1>1, <1>2, NatLessThanWellFounded, WFMin
<1>4. low # 0 /\ low \in 0..n /\ low \notin S
  OBVIOUS
<1>5. low - 1 \in Out
  BY <1>4
<1>6. low - 1 < low /\ low - 1 \in Nat /\ low \in Nat
  BY <1>4
<1> QED BY <1>3, <1>5, <1>6 DEF OpToRel

\* Asking more changes the questions of a session, and nothing else.
LEMMA AppendedForm ==
  ASSUME NEW s, Form(s), NEW questions \in NextQuestions
  PROVE  LET t == Appended(s, questions) IN
         /\ Form(t) /\ t.answered = s.answered /\ t.digests = s.digests
         /\ t.review = s.review /\ t.bases = s.bases /\ t.status = s.status
<1> DEFINE n == Len(questions)
           Asked == Seq(Question)
           Next(q, i) == IF \E j \in DOMAIN q : q[j] = questions[i]
                         THEN q ELSE Append(q, questions[i])
           Run(f, k) == /\ f \in [0..n -> Asked] /\ f[0] = s.qa
                        /\ \A i \in 1..k : f[i] = Next(f[i - 1], i)
           Runs == {k \in 0..n : \E f : Run(f, k)}
           qa == CHOOSE f : f = [i \in 0..Len(questions) |->
                   IF i = 0 THEN s.qa
                   ELSE IF \E j \in DOMAIN f[i - 1] : f[i - 1][j] = questions[i]
                   THEN f[i - 1] ELSE Append(f[i - 1], questions[i])]
<1>1. n \in Nat /\ \A i \in 1..n : questions[i] \in Question
  BY OnboardingAssumption
<1>2. s.qa \in Asked
  BY DEF Form
<1>3. ASSUME NEW q \in Asked, NEW i \in 1..n PROVE Next(q, i) \in Asked
  BY <1>1, <1>3
<1> HIDE DEF Next, Asked
<1>4. 0 \in Runs
  <2> DEFINE f == [i \in 0..n |-> s.qa]
  <2>1. f \in [0..n -> Asked] /\ f[0] = s.qa
    BY <1>1, <1>2
  <2> HIDE DEF f
  <2>2. Run(f, 0)
    BY <2>1
  <2> QED BY <1>1, <2>2
<1>5. ASSUME NEW k \in 1..n, k - 1 \in Runs PROVE k \in Runs
  <2>1. PICK f : Run(f, k - 1)
    BY <1>5
  <2> DEFINE h == [f EXCEPT ![k] = Next(f[k - 1], k)]
  <2>2. k - 1 \in 0..n /\ k \in 0..n /\ k # 0 /\ f[k - 1] \in Asked
    BY <1>1, <2>1
  <2>3. Next(f[k - 1], k) \in Asked
    BY <1>3, <2>2
  <2>4. h \in [0..n -> Asked] /\ h[0] = s.qa
    BY <1>1, <2>1, <2>2, <2>3
  <2>5. ASSUME NEW i \in 1..k PROVE h[i] = Next(h[i - 1], i)
    <3>1. h[k] = Next(f[k - 1], k) /\ h[i - 1] = f[i - 1]
      BY <1>1, <2>1, <2>2
    <3>2. CASE i = k
      BY <3>1, <3>2
    <3>3. CASE i # k
      <4>1. i \in 1..(k - 1) /\ h[i] = f[i]
        BY <1>1, <2>1, <3>3
      <4> QED BY <2>1, <3>1, <4>1
    <3> QED BY <3>2, <3>3
  <2> HIDE DEF h
  <2>6. Run(h, k)
    BY <2>4, <2>5
  <2> QED BY <2>2, <2>6
<1>6. PICK f : Run(f, n)
  <2>1. 0..n \subseteq Runs
    <3> HIDE DEF Runs, n
    <3> QED BY <1>1, <1>4, <1>5, UpTo
  <2> QED BY <1>1, <2>1
<1>7. f = [i \in 0..Len(questions) |->
             IF i = 0 THEN s.qa
             ELSE IF \E j \in DOMAIN f[i - 1] : f[i - 1][j] = questions[i]
             THEN f[i - 1] ELSE Append(f[i - 1], questions[i])]
  <2>1. \A i \in 0..n : i # 0 => i \in 1..n
    BY <1>1
  <2>2. \A i \in 0..n : f[i] = IF i = 0 THEN s.qa
             ELSE IF \E j \in DOMAIN f[i - 1] : f[i - 1][j] = questions[i]
             THEN f[i - 1] ELSE Append(f[i - 1], questions[i])
    BY <1>6, <2>1 DEF Next
  <2>3. f = [i \in 0..n |-> f[i]]
    BY <1>6
  <2> QED BY <2>2, <2>3
<1>8. qa = [i \in 0..Len(questions) |->
             IF i = 0 THEN s.qa
             ELSE IF \E j \in DOMAIN qa[i - 1] : qa[i - 1][j] = questions[i]
             THEN qa[i - 1] ELSE Append(qa[i - 1], questions[i])]
  <2> HIDE DEF Run, Runs, n
  <2> QED BY ONLY <1>7, Zenon DEF qa
<1>9. Appended(s, questions) = [s EXCEPT !.qa = qa[Len(questions)]]
  BY Zenon DEF Appended, qa
<1> HIDE DEF qa
<1>10. qa[n] \in Asked
  <2> DEFINE S == {i \in 0..n : qa[i] \in Asked}
  <2>1. /\ 0 \in 0..n /\ \A i \in 1..n : i \in 0..n /\ i # 0
    BY <1>1
  <2>2. \A i \in 0..Len(questions) : qa[i] = IF i = 0 THEN s.qa
             ELSE IF \E j \in DOMAIN qa[i - 1] : qa[i - 1][j] = questions[i]
             THEN qa[i - 1] ELSE Append(qa[i - 1], questions[i])
    BY <1>8
  <2>3. qa[0] = s.qa /\ \A i \in 1..n : qa[i] = Next(qa[i - 1], i)
    BY <2>1, <2>2 DEF Next
  <2>4. 0 \in S
    BY <1>2, <2>1, <2>3
  <2>5. ASSUME NEW i \in 1..n, i - 1 \in S PROVE i \in S
    BY <1>3, <2>1, <2>3, <2>5
  <2>6. 0..n \subseteq S
    <3> HIDE DEF S, n
    <3> QED BY <1>1, <2>4, <2>5, UpTo
  <2> QED BY <1>1, <2>6
<1> DEFINE t == Appended(s, questions)
           last == qa[n]
<1>11. t = [s EXCEPT !.qa = last]
  BY <1>9
<1> HIDE DEF last, n, t
<1>12. last \in Seq(Question)
  BY <1>10 DEF last, Asked
<1>13. /\ DOMAIN t = DOMAIN s /\ t.qa = last
       /\ t.answered = s.answered /\ t.digests = s.digests
       /\ t.review = s.review /\ t.bases = s.bases /\ t.status = s.status
  BY <1>11 DEF Form
<1>14. Form(t)
  BY <1>12, <1>13 DEF Form
<1> QED BY <1>13, <1>14 DEF t

LEMMA TextInitially == OnboardInit => TextInv
<1> SUFFICES ASSUME OnboardInit PROVE TextInv
  OBVIOUS
<1>1. Nothing \in [Artifact -> Text] /\ \A a \in Artifact : Edits(Nothing[a]) = {}
  BY Constants DEF Nothing
<1>2. Drafted \in Text
  BY Constants DEF Drafted
<1>3. design \in [Artifact -> Text] /\ proposal \in [Artifact -> Text]
  BY <1>1, <1>2 DEF OnboardInit
<1>4. Old(proposal, Artifact, design, Sound)
  BY <1>1 DEF OnboardInit, Old, Sound
<1>5. Known => Form(session) /\ OldSession(session, design, Sound)
  <2>1. SUFFICES ASSUME session # NoSession,
                        NEW questions \in FirstQuestions,
                        session = [Started(questions) EXCEPT !.digests = Captured]
                 PROVE  Form(session) /\ OldSession(session, design, Sound)
    BY DEF OnboardInit, Known, Busy
  <2>2. /\ DOMAIN session = {"status", "qa", "answered", "digests", "review", "bases"}
        /\ session.answered = {} /\ session.review = {} /\ session.bases = NoDigests
        /\ session.qa \in Seq(Question)
        /\ session.digests = Captured
    BY <2>1, OnboardingAssumption DEF Started
  <2>3. DOMAIN NoDigests = {}
    BY DEF NoDigests
  <2>4. DOMAIN Captured \subseteq Artifact /\ \A a \in DOMAIN Captured : Captured[a] = design[a]
    BY DEF Captured
  <2> QED BY <1>3, <2>2, <2>3, <2>4 DEF Form, OldSession, Old
<1>6. Busy = {} /\ DOMAIN job = Command
  BY DEF OnboardInit, Busy
<1>7. rewrites \in 0..MaxRewrites
  BY Constants DEF OnboardInit
<1>8. native \in BOOLEAN /\ told = {} /\ late = {}
  BY DEF OnboardInit
<1> QED BY <1>3, <1>4, <1>5, <1>6, <1>7, <1>8 DEF TextInv

\* What is kept stays old while the author's edits stay.
LEMMA Kept ==
  ASSUME TextInv, late \subseteq late',
         \A a \in Artifact \ late' : Edits(design[a]) = Edits(design'[a])
  PROVE  /\ Old(proposal, Artifact, design', Artifact \ late')
         /\ Known => Form(session) /\ OldSession(session, design', Artifact \ late')
BY OldMoves DEF TextInv, OldSession, Sound

LEMMA CapturedTexts ==
  ASSUME design \in [Artifact -> Text]
  PROVE  /\ DOMAIN Captured \subseteq Artifact
         /\ \A a \in DOMAIN Captured : Captured[a] = design[a] /\ Captured[a] \in Text
BY DEF Captured

LEMMA StartedForm ==
  ASSUME NEW questions \in FirstQuestions, NEW now, NEW sound
  PROVE  /\ Form(Started(questions)) /\ OldSession(Started(questions), now, sound)
         /\ Started(questions).answered = {} /\ Started(questions).review = {}
BY OnboardingAssumption DEF Started, NoDigests, Form, OldSession, Old

\* What a session becomes when the design is accepted as it is.
LEMMA AcceptedForm ==
  ASSUME NEW s, Form(s), design \in [Artifact -> Text], NEW t,
         t.digests = Captured, DOMAIN t = DOMAIN s, t.answered = s.answered, t.qa = s.qa,
         t.review \subseteq s.review, DOMAIN t.bases = t.review,
         \A a \in t.review : t.bases[a] = s.bases[a],
         NEW sound, OldSession(s, design, sound)
  PROVE  Form(t) /\ OldSession(t, design, sound)
BY CapturedTexts DEF Form, OldSession, Old

LEMMA InitializeKeeps ==
  ASSUME TextInv, NEW c \in Command, Initialize(c) PROVE TextInv'
<1> DEFINE new == [phase |-> "drafted", kind |-> "init", left |-> Artifact]
<1>1. PICK questions \in FirstQuestions : session' = Started(questions)
  BY DEF Initialize
<1>2. /\ job' = [job EXCEPT ![c] = new] /\ told' = {} /\ rewrites' = rewrites
      /\ UNCHANGED <<native, design, proposal, late>>
  BY DEF Initialize, Enter
<1>3. JobForm(new) /\ JobTexts(new, design', Artifact \ late', native)
  BY DEF JobForm, JobTexts, Working
<1>4. Form(session') /\ OldSession(session', design', Artifact \ late')
  BY <1>1, StartedForm
<1>5. /\ design' \in [Artifact -> Text] /\ proposal' \in [Artifact -> Text]
      /\ late' \subseteq Artifact /\ Old(proposal', Artifact, design', Artifact \ late')
  BY <1>2, Kept DEF TextInv
<1> HIDE DEF new
<1> QED BY <1>2, <1>3, <1>4, <1>5, TextStep

\* A command that changes neither the design nor the proposals.
LEMMA TextStepAside ==
  ASSUME TextInv, NEW c \in Command,
         UNCHANGED <<native, design, proposal, rewrites>>,
         late \subseteq late', late' \subseteq Artifact, told' \subseteq Question,
         Known' => Form(session') /\ OldSession(session', design, Artifact \ late'),
         NEW new, job' = [job EXCEPT ![c] = new],
         new # NoJob => JobForm(new) /\ JobTexts(new, design, Artifact \ late', native)
  PROVE  TextInv'
<1>1. /\ design' \in [Artifact -> Text] /\ proposal' \in [Artifact -> Text]
      /\ \A a \in Artifact \ late' : Edits(design[a]) = Edits(design'[a])
  BY DEF TextInv
<1>2. Old(proposal', Artifact, design', Artifact \ late')
  BY <1>1, Kept
<1> QED BY <1>1, <1>2, TextStep

\* A job that goes on to its next phase.
LEMMA NextPhase ==
  ASSUME NEW w, JobForm(w), w.phase \in Working, NEW p, NEW new,
         new = [w EXCEPT !.phase = p]
  PROVE  /\ DOMAIN new = DOMAIN w /\ new.phase = p /\ new.kind = w.kind
         /\ new.targets = w.targets /\ new.base = w.base /\ new.body = w.body
         /\ new.state = w.state
         /\ w.kind # "review" => new.question = w.question /\ new.last = w.last
BY DEF JobForm, Working

LEMMA Busily ==
  ASSUME TextInv, NEW c \in Command, NEW p, In(c, p)
  PROVE  /\ job[c].phase = p
         /\ JobForm(job[c]) /\ JobTexts(job[c], design, Sound, native)
         /\ p # "drafted" \/ job[c].kind # "scaffold" => Known
<1>1. /\ c \in Busy /\ job[c].phase = p
      /\ JobForm(job[c]) /\ JobTexts(job[c], design, Sound, native)
  BY DEF TextInv, In, Busy
<1>2. p # "drafted" => job[c].kind # "scaffold"
  BY <1>1 DEF JobForm, Working
<1> QED BY <1>1, <1>2 DEF Known

\* An init without an intent does not bring a session about.
LEMMA KnownStays ==
  ASSUME TextInv, NEW c \in Command, session' = session,
         NEW new, job' = [job EXCEPT ![c] = new],
         new # NoJob /\ new.kind # "scaffold" => Known
  PROVE  Known' => Known
<1>1. \A d \in Command : job'[d] = IF d = c THEN new ELSE job[d]
  BY DEF TextInv
<1> QED BY <1>1 DEF Known, Busy

LEMMA ScaffoldKeeps ==
  ASSUME TextInv, NEW c \in Command, Scaffold(c) PROVE TextInv'
<1> DEFINE new == [phase |-> "drafted", kind |-> "scaffold", left |-> Artifact]
<1>1. /\ job' = [job EXCEPT ![c] = new]
      /\ UNCHANGED <<native, design, proposal, session, told, late, rewrites>>
  BY DEF Scaffold, Enter
<1>2. JobForm(new) /\ JobTexts(new, design, Artifact \ late', native)
  BY DEF JobForm, JobTexts, Working
<1>3. new.kind = "scaffold"
  OBVIOUS
<1> HIDE DEF new
<1>4. late' \subseteq Artifact /\ told' \subseteq Question /\ Sound = Artifact \ late'
  BY <1>1 DEF TextInv, Sound
<1>5. Known' => Form(session') /\ OldSession(session', design, Artifact \ late')
  <2>1. Known' => Known
    BY <1>1, <1>3, KnownStays
  <2> QED BY <1>1, <1>4, <2>1 DEF TextInv
<1> QED BY <1>1, <1>2, <1>4, <1>5, TextStepAside

LEMMA WriteArtifactKeeps ==
  ASSUME TextInv, NEW c \in Command, WriteArtifact(c) PROVE TextInv'
<1>1. PICK a \in job[c].left :
        /\ IF design[a] = Missing
           THEN design' = [design EXCEPT ![a] = Drafted] /\ UNCHANGED proposal
           ELSE proposal' = [proposal EXCEPT ![a] = Drafted] /\ UNCHANGED design
        /\ job' = [job EXCEPT ![c].left = @ \ {a}]
  BY DEF WriteArtifact
<1> DEFINE new == [job[c] EXCEPT !.left = @ \ {a}]
<1>2. /\ job[c].phase = "drafted" /\ DOMAIN job[c] = {"phase", "kind", "left"}
      /\ job[c].kind # "scaffold" => Known
  BY Busily DEF WriteArtifact, JobForm
<1>3. /\ JobForm(new) /\ JobTexts(new, design', Artifact \ late', native)
      /\ new.kind = job[c].kind
  BY <1>2 DEF JobForm, JobTexts, Working
<1>4. job' = [job EXCEPT ![c] = new]
  BY <1>1
<1>5. Drafted \in Text /\ Edits(Drafted) = {}
  BY Constants DEF Drafted
<1>6. UNCHANGED <<native, session, told, late, rewrites>>
  BY DEF WriteArtifact
<1>7. /\ design' \in [Artifact -> Text] /\ proposal' \in [Artifact -> Text]
      /\ late' \subseteq Artifact /\ told' \subseteq Question
      /\ \A b \in Artifact : Edits(design[b]) = Edits(design'[b])
      /\ \A b \in Artifact : proposal'[b] = proposal[b] \/ Edits(proposal'[b]) = {}
  BY <1>1, <1>5, <1>6, Constants DEF TextInv
<1> HIDE DEF new
<1>8. /\ Old(proposal', Artifact, design', Artifact \ late')
      /\ Known' => Form(session') /\ OldSession(session', design', Artifact \ late')
  <2>1. /\ Old(proposal, Artifact, design', Artifact \ late')
        /\ Known => Form(session) /\ OldSession(session, design', Artifact \ late')
    BY <1>6, <1>7, Kept
  <2>2. Known' => Known
    BY <1>2, <1>3, <1>4, <1>6, KnownStays
  <2> QED BY <1>6, <1>7, <2>1, <2>2 DEF Old
<1> QED BY <1>3, <1>4, <1>6, <1>7, <1>8, TextStep

LEMMA CaptureFirstKeeps ==
  ASSUME TextInv, NEW c \in Command, CaptureFirst(c) PROVE TextInv'
<1>1. /\ session' = IF job[c].kind = "scaffold" THEN session
                    ELSE [session EXCEPT !.digests = Captured]
      /\ job' = [job EXCEPT ![c] = NoJob]
      /\ UNCHANGED <<native, design, proposal, told, late, rewrites>>
  BY DEF CaptureFirst, Leave
<1>2. late' \subseteq Artifact /\ told' \subseteq Question /\ Sound = Artifact \ late'
  BY <1>1 DEF TextInv, Sound
<1>3. Known' => Form(session') /\ OldSession(session', design, Sound)
  <2>1. CASE job[c].kind = "scaffold"
    <3>1. Known' => Known
      BY <1>1, <2>1, KnownStays
    <3> QED BY <1>1, <2>1, <3>1 DEF TextInv
  <2>2. CASE job[c].kind # "scaffold"
    <3>1. Form(session) /\ OldSession(session, design, Sound)
      BY <2>2, Busily DEF CaptureFirst, TextInv
    <3>2. /\ session'.digests = Captured /\ DOMAIN session' = DOMAIN session
          /\ session'.answered = session.answered /\ session'.review = session.review
          /\ session'.bases = session.bases /\ session'.qa = session.qa
      BY <1>1, <2>2, <3>1 DEF Form
    <3>3. design \in [Artifact -> Text] /\ DOMAIN session.bases = session.review
      BY <3>1 DEF TextInv, Form
    <3> QED BY <3>1, <3>2, <3>3, AcceptedForm
  <2> QED BY <2>1, <2>2
<1> QED BY <1>1, <1>2, <1>3, TextStepAside

LEMMA AskKeeps ==
  ASSUME TextInv, NEW c \in Command, Ask(c) PROVE TextInv'
<1>1. PICK i \in Pending(session) :
        Enter(c, [phase |-> "asking", kind |-> "question", was |-> session,
                  question |-> session.qa[i],
                  state |-> [session EXCEPT !.answered = @ \cup {session.qa[i]}],
                  base |-> design])
  BY DEF Ask
<1> DEFINE q == session.qa[i]
           state == [session EXCEPT !.answered = @ \cup {q}]
           new == [phase |-> "asking", kind |-> "question", was |-> session, question |-> q,
                   state |-> state, base |-> design]
<1>2. /\ job' = [job EXCEPT ![c] = new]
      /\ UNCHANGED <<native, design, proposal, session, told, late, rewrites>>
  BY <1>1 DEF Ask, Enter
<1>3. Form(session) /\ OldSession(session, design, Sound)
  BY DEF Ask, TextInv, Known
<1>4. q \in Question
  BY <1>1, <1>3 DEF Pending, Form
<1> HIDE DEF q
<1>5. /\ state.digests = session.digests /\ DOMAIN state = DOMAIN session
      /\ state.answered = session.answered \cup {q} /\ state.review = session.review
      /\ state.bases = session.bases /\ state.qa = session.qa
  BY <1>3 DEF Form
<1>6. Form(state) /\ OldSession(state, design, Sound)
  BY <1>3, <1>4, <1>5 DEF Form, OldSession
<1> HIDE DEF state
<1>7. JobForm(new)
  BY <1>3, <1>4, <1>6 DEF JobForm, Working, TextInv
<1>8. JobTexts(new, design, Sound, native)
  BY <1>3, <1>6 DEF JobTexts, Working, OldSession, Old
<1>9. late' \subseteq Artifact /\ told' \subseteq Question /\ Sound = Artifact \ late'
  BY <1>2 DEF TextInv, Sound
<1> HIDE DEF new
<1> QED BY <1>2, <1>3, <1>7, <1>8, <1>9, TextStepAside

LEMMA CloseKeeps ==
  ASSUME TextInv, NEW c \in Command, Close(c) PROVE TextInv'
<1>1. /\ session' = [session EXCEPT !.status = "done"]
      /\ UNCHANGED <<native, design, proposal, job, told, late, rewrites>>
  BY DEF Close
<1>2. Form(session) /\ OldSession(session, design, Sound)
  BY DEF Close, TextInv, Known
<1>3. Form(session') /\ OldSession(session', design, Sound)
  BY <1>1, <1>2 DEF Form, OldSession
<1>4. Busy' = Busy /\ Sound' = Sound
  BY <1>1 DEF Busy, Sound
<1> QED BY <1>1, <1>3, <1>4 DEF TextInv

LEMMA AbortKeeps ==
  ASSUME TextInv, NEW c \in Command, Abort(c) PROVE TextInv'
<1>1. /\ job' = [job EXCEPT ![c] = NoJob]
      /\ UNCHANGED <<native, design, proposal, session, told, late, rewrites>>
  BY DEF Abort, Leave
<1>2. Known' => Form(session) /\ OldSession(session, design, Sound)
  <2>1. Known' => Known
    BY <1>1, KnownStays
  <2> QED BY <2>1 DEF TextInv
<1>3. late' \subseteq Artifact /\ told' \subseteq Question /\ Sound = Artifact \ late'
  BY <1>1 DEF TextInv, Sound
<1> QED BY <1>1, <1>2, <1>3, TextStepAside

\* A refinement keeps the edits of the text it was made from.
LEMMA RefinedBodies ==
  ASSUME NEW work, work.state.answered \subseteq Question, work.question \in Question,
         work.base \in [Artifact -> Text], NEW source
  PROVE  /\ Refined(work, source) \in [Artifact -> Text]
         /\ \A a \in Artifact : Edits(Refined(work, source)[a]) = Edits(work.base[a])
<1>1. ASSUME NEW a \in Artifact
      PROVE  /\ Refined(work, source)[a] \in Text
             /\ Edits(Refined(work, source)[a]) = Edits(work.base[a])
  <2>1. Edits(work.base[a]) \in SUBSET Nat /\ Answers(work.base[a]) \in SUBSET Question
    BY TextParts
  <2>2. \A A \in SUBSET Question :
          LET t == [answers |-> A, edits |-> Edits(work.base[a])] IN
          t \in Text /\ Edits(t) = Edits(work.base[a])
    BY <2>1, Constants
  <2>3. Answers(work.base[a]) \cup {work.question} \in SUBSET Question
    BY <2>1
  <2>4. \/ Refined(work, source)[a] =
             [answers |-> work.state.answered, edits |-> Edits(work.base[a])]
        \/ Refined(work, source)[a] =
             [answers |-> Answers(work.base[a]) \cup {work.question},
              edits |-> Edits(work.base[a])]
        \/ Refined(work, source)[a] = work.base[a]
    BY DEF Refined
  <2> QED BY <2>2, <2>3, <2>4
<1>2. Refined(work, source) = [a \in Artifact |-> Refined(work, source)[a]]
  BY DEF Refined
<1> QED BY <1>1, <1>2

LEMMA RespondKeeps ==
  ASSUME TextInv, NEW c \in Command, NEW source, NEW questions \in NextQuestions,
         Respond(c, source, questions)
  PROVE  TextInv'
<1> DEFINE work == job[c]
           apply == Untouched(work.was)
           after == Appended(work.state, questions)
           body == Refined(work, source)
           state == IF apply THEN after
                    ELSE [after EXCEPT !.status = "needs_review", !.review = Artifact,
                                       !.bases = ReviewBases(work)]
           phase == IF ~apply THEN "propose" ELSE IF native THEN "typed" ELSE "publish"
           kind == IF apply THEN "refinement" ELSE "proposal"
           new == [phase |-> phase, kind |-> kind,
                   targets |-> Artifact, question |-> work.question,
                   last |-> questions = <<>>, base |-> work.base, body |-> body,
                   state |-> state]
<1>1. /\ In(c, "asking") /\ job' = [job EXCEPT ![c] = new]
      /\ UNCHANGED <<native, design, proposal, session, told, late, rewrites>>
  BY Zenon DEF Respond
<1>2. /\ Known /\ work.phase = "asking" /\ JobForm(work)
      /\ JobTexts(work, design, Sound, native)
  BY <1>1, Busily
<1>3. /\ Form(work.was) /\ Form(work.state) /\ work.question \in Question
      /\ work.base \in [Artifact -> Text]
  BY <1>2 DEF JobForm
<1>4. /\ OldSession(work.state, design, Sound) /\ Old(work.base, Artifact, design, Sound)
      /\ \A a \in Sound :
           IF a \in DOMAIN work.was.digests
           THEN Edits(work.was.digests[a]) \subseteq Edits(work.base[a])
           ELSE native /\ a # Context => Edits(design[a]) \subseteq Edits(work.base[a])
  BY <1>2 DEF JobTexts
<1> HIDE DEF work
<1>5. /\ body \in [Artifact -> Text]
      /\ \A a \in Artifact : Edits(body[a]) = Edits(work.base[a])
  BY <1>3, RefinedBodies DEF Form
<1>6. Form(state) /\ OldSession(state, design, Sound)
  <2>1. Form(after) /\ OldSession(after, design, Sound)
    <3>1. /\ Form(after) /\ after.answered = work.state.answered
          /\ after.digests = work.state.digests
          /\ after.review = work.state.review /\ after.bases = work.state.bases
      BY <1>3, AppendedForm
    <3> HIDE DEF after
    <3> QED BY <1>4, <3>1 DEF OldSession
  <2> HIDE DEF after, apply
  <2>2. CASE apply
    BY <2>1, <2>2
  <2>3. CASE ~apply
    <3>1. /\ DOMAIN state = DOMAIN after /\ state.answered = after.answered
          /\ state.qa = after.qa /\ state.digests = after.digests
          /\ state.review = Artifact /\ state.bases = work.base
      BY <2>1, <2>3 DEF Form, ReviewBases
    <3> HIDE DEF state
    <3> QED BY <1>3, <1>4, <2>1, <3>1 DEF Form, OldSession
  <2> QED BY <2>2, <2>3
<1>7. apply /\ native => Old(design, Artifact \ {Context}, work.base, Sound)
  BY <1>4, Zenon DEF Untouched, Old
<1>8. /\ ~apply => phase = "propose" /\ kind = "proposal"
      /\ apply => kind = "refinement" /\ phase \in {"typed", "publish"}
      /\ phase = "typed" => apply /\ native
  OBVIOUS
<1> HIDE DEF after, apply, body, state, phase, kind
<1>9. JobForm(new)
  BY <1>3, <1>5, <1>6, <1>8 DEF JobForm, Working
<1>10. JobTexts(new, design, Sound, native)
  <2>1. Old(body, Artifact, design, Sound) /\ Old(work.base, Artifact, body, Sound)
    BY <1>4, <1>5 DEF Old, Sound
  <2>2. new.phase \in Working /\ new.phase # "document" /\ new.phase # "asking"
    BY <1>8 DEF Working
  <2>3. new.phase = "typed" => native /\ Old(design, new.targets \ {Context}, new.base, Sound)
    BY <1>7, <1>8
  <2> QED BY <1>4, <1>6, <2>1, <2>2, <2>3 DEF JobTexts
<1>11. Form(session) /\ OldSession(session, design, Sound)
  BY <1>2 DEF TextInv
<1>12. late' \subseteq Artifact /\ told' \subseteq Question /\ Sound = Artifact \ late'
  BY <1>1 DEF TextInv, Sound
<1> HIDE DEF new
<1> QED BY <1>1, <1>9, <1>10, <1>11, <1>12, TextStepAside

LEMMA ProposeKeeps ==
  ASSUME TextInv, NEW c \in Command, Propose(c) PROVE TextInv'
<1> DEFINE w == job[c]
           new == [w EXCEPT !.phase = "save"]
<1>1. /\ In(c, "propose") /\ job' = [job EXCEPT ![c] = new] /\ proposal' = w.body
      /\ UNCHANGED <<native, design, session, told, late, rewrites>>
  BY DEF Propose
<1>2. /\ Known /\ w.phase = "propose" /\ JobForm(w) /\ JobTexts(w, design, Sound, native)
  BY <1>1, Busily
<1> HIDE DEF w
<1>3. JobForm(new) /\ JobTexts(new, design, Sound, native)
  BY <1>2, NextPhase DEF JobForm, JobTexts, Working
<1>4. proposal' \in [Artifact -> Text] /\ Old(proposal', Artifact, design, Sound)
  BY <1>1, <1>2 DEF JobForm, JobTexts, Working
<1>5. Form(session) /\ OldSession(session, design, Sound)
  BY <1>2 DEF TextInv
<1>6. /\ late' \subseteq Artifact /\ told' \subseteq Question /\ Sound = Artifact \ late'
      /\ design' \in [Artifact -> Text]
      /\ \A a \in Artifact \ late' : Edits(design[a]) = Edits(design'[a])
  BY <1>1 DEF TextInv, Sound
<1> HIDE DEF new
<1> QED BY <1>1, <1>3, <1>4, <1>5, <1>6, TextStep

\* What a job puts in place has exactly the edits that were there.
LEMMA PutKeepsEdits ==
  ASSUME TextInv, NEW w, w.phase \in Working, JobForm(w),
         JobTexts(w, design, Sound, native),
         NEW arts \in SUBSET w.targets, Old(design, arts, w.base, Sound), Put(w, arts)
  PROVE  /\ design' \in [Artifact -> Text]
         /\ \A a \in Sound : Edits(design[a]) = Edits(design'[a])
<1>1. /\ w.body \in [Artifact -> Text] /\ w.targets \subseteq Artifact
      /\ Old(w.body, Artifact, design, Sound) /\ Old(w.base, w.targets, w.body, Sound)
  BY DEF JobForm, JobTexts
<1>2. /\ design \in [Artifact -> Text]
      /\ design' = [a \in Artifact |-> IF a \in arts THEN w.body[a] ELSE design[a]]
  BY DEF TextInv, Put
<1>3. ASSUME NEW a \in Sound PROVE Edits(design[a]) = Edits(design'[a])
  <2>1. a \in Artifact
    BY DEF Sound
  <2>2. CASE a \in arts
    <3>1. /\ Edits(design[a]) \subseteq Edits(w.base[a])
          /\ Edits(w.base[a]) \subseteq Edits(w.body[a])
          /\ Edits(w.body[a]) \subseteq Edits(design[a])
      BY <1>1, <2>1, <2>2 DEF Old
    <3> QED BY <1>2, <2>1, <2>2, <3>1
  <2>3. CASE a \notin arts
    BY <1>2, <2>1, <2>3
  <2> QED BY <2>2, <2>3
<1> QED BY <1>1, <1>2, <1>3

LEMMA PublicationKeeps ==
  ASSUME TextInv, NEW c \in Command, NEW p \in {"publish", "typed", "document"}, In(c, p),
         NEW arts \in SUBSET job[c].targets, Old(design, arts, job[c].base, Sound),
         Put(job[c], arts), NEW q \in {"document", "save"}, q = "document" => p = "typed",
         job' = [job EXCEPT ![c].phase = q],
         UNCHANGED <<native, proposal, session, told, late, rewrites>>
  PROVE  /\ TextInv'
         /\ \A a \in Sound : Edits(design[a]) = Edits(design'[a])
<1> DEFINE w == job[c]
           new == [w EXCEPT !.phase = q]
<1>1. /\ Known /\ w.phase = p /\ JobForm(w) /\ JobTexts(w, design, Sound, native)
      /\ w.phase \in Working
  BY Busily DEF Working
<1>2. /\ design' \in [Artifact -> Text]
      /\ \A a \in Sound : Edits(design[a]) = Edits(design'[a])
  BY <1>1, PutKeepsEdits
<1>3. Sound \subseteq Artifact /\ Sound = Artifact \ late'
  BY DEF Sound
<1>4. JobTexts(w, design', Sound, native)
  BY <1>1, <1>2, <1>3, JobMoves
<1>5. job' = [job EXCEPT ![c] = new]
  OBVIOUS
<1> HIDE DEF w
<1>6. JobForm(new) /\ JobTexts(new, design', Sound, native)
  BY <1>1, <1>4, NextPhase DEF JobForm, JobTexts, Working
<1> HIDE DEF new
<1>7. Form(session) /\ OldSession(session, design', Sound)
      /\ Old(proposal, Artifact, design', Sound)
  BY <1>1, <1>2, <1>3, Kept
<1>8. TextInv'
  <2>1. late \subseteq late' /\ late' \subseteq Artifact /\ told' \subseteq Question
    BY DEF TextInv
  <2>2. proposal' \in [Artifact -> Text]
    BY DEF TextInv
  <2> QED BY <1>2, <1>3, <1>5, <1>6, <1>7, <2>1, <2>2, TextStep
<1> QED BY <1>2, <1>8

LEMMA UnmovedIsOld ==
  ASSUME NEW w, NEW arts, Unmoved(w, arts), NEW sound
  PROVE  Old(design, arts, w.base, sound)
BY DEF Unmoved, Old

LEMMA PublishKeeps ==
  ASSUME TextInv, NEW c \in Command, Publish(c)
  PROVE  /\ TextInv'
         /\ \A a \in Sound : Edits(design[a]) = Edits(design'[a])
<1>1. Old(design, job[c].targets, job[c].base, Sound)
  BY UnmovedIsOld DEF Publish
<1> QED BY <1>1, PublicationKeeps DEF Publish

LEMMA PublishTypedKeeps ==
  ASSUME TextInv, NEW c \in Command, PublishTyped(c)
  PROVE  /\ TextInv'
         /\ \A a \in Sound : Edits(design[a]) = Edits(design'[a])
<1>1. Old(design, job[c].targets \ {Context}, job[c].base, Sound)
  BY Busily DEF PublishTyped, JobTexts
<1> QED BY <1>1, PublicationKeeps DEF PublishTyped

LEMMA PublishDocumentKeeps ==
  ASSUME TextInv, NEW c \in Command, PublishDocument(c)
  PROVE  /\ TextInv'
         /\ \A a \in Sound : Edits(design[a]) = Edits(design'[a])
<1>1. Old(design, job[c].targets \cap {Context}, job[c].base, Sound)
  BY UnmovedIsOld DEF PublishDocument
<1> QED BY <1>1, PublicationKeeps DEF PublishDocument

LEMMA SaveStateKeeps ==
  ASSUME TextInv, NEW c \in Command, SaveState(c) PROVE TextInv'
<1> DEFINE w == job[c]
<1>1. /\ Known /\ w.phase = "save" /\ JobForm(w) /\ JobTexts(w, design, Sound, native)
  BY Busily DEF SaveState
<1>2. /\ job' = [job EXCEPT ![c] = NoJob]
      /\ UNCHANGED <<native, design, late, rewrites>>
  BY DEF SaveState, Leave
<1>3. /\ Form(w.state) /\ OldSession(w.state, design, Sound)
      /\ w.kind # "review" => w.question \in Question
      /\ design \in [Artifact -> Text]
  BY <1>1 DEF JobForm, JobTexts, Working, TextInv
<1>4. IF w.kind = "review"
      THEN /\ session' = Reviewed(w.state, w.targets)
           /\ proposal' = [a \in Artifact |-> IF a \in w.targets THEN Missing
                                              ELSE proposal[a]]
           /\ UNCHANGED told
      ELSE /\ session' = Answered(w)
           /\ told' = told \cup {w.question}
           /\ UNCHANGED proposal
  BY DEF SaveState
<1> HIDE DEF w
<1>5. Form(session') /\ OldSession(session', design, Sound)
  <2>1. CASE w.kind = "review"
    <3> DEFINE rest == w.state.review \ w.targets
               t == Reviewed(w.state, w.targets)
    <3>1. /\ DOMAIN t = DOMAIN w.state /\ t.digests = Captured
          /\ t.answered = w.state.answered /\ t.qa = w.state.qa
          /\ t.review = rest /\ t.bases = [a \in rest |-> w.state.bases[a]]
      BY <1>3 DEF Reviewed, Form
    <3>2. session' = t
      BY <1>4, <2>1
    <3> HIDE DEF t
    <3>3. rest \subseteq w.state.review /\ DOMAIN t.bases = t.review
          /\ \A a \in t.review : t.bases[a] = w.state.bases[a]
      BY <3>1
    <3> HIDE DEF rest
    <3> QED BY <1>3, <3>1, <3>2, <3>3, AcceptedForm
  <2>2. CASE w.kind = "proposal"
    BY <1>3, <1>4, <2>2 DEF Answered
  <2>3. CASE w.kind # "review" /\ w.kind # "proposal"
    <3> DEFINE t == Answered(w)
    <3>1. /\ DOMAIN t = DOMAIN w.state /\ t.digests = Captured
          /\ t.answered = w.state.answered /\ t.qa = w.state.qa
          /\ t.review = w.state.review /\ t.bases = w.state.bases
      BY <1>3, <2>3 DEF Answered, Form
    <3>2. session' = t
      BY <1>4, <2>3
    <3> HIDE DEF t
    <3>3. DOMAIN t.bases = t.review
      BY <1>3, <3>1 DEF Form
    <3> QED BY <1>3, <3>1, <3>2, <3>3, AcceptedForm
  <2> QED BY <2>1, <2>2, <2>3
<1>6. /\ proposal' \in [Artifact -> Text] /\ told' \subseteq Question
      /\ Old(proposal', Artifact, design, Sound)
  <2>1. /\ proposal \in [Artifact -> Text] /\ told \subseteq Question
        /\ Old(proposal, Artifact, design, Sound)
    BY DEF TextInv
  <2>2. CASE w.kind = "review"
    BY <1>4, <2>1, <2>2, Constants DEF Old
  <2>3. CASE w.kind # "review"
    BY <1>3, <1>4, <2>1, <2>3
  <2> QED BY <2>2, <2>3
<1>7. /\ late' \subseteq Artifact /\ Sound = Artifact \ late' /\ late \subseteq late'
      /\ design' \in [Artifact -> Text] /\ design' = design
      /\ \A a \in Artifact \ late' : Edits(design[a]) = Edits(design'[a])
  BY <1>2 DEF TextInv, Sound
<1> QED BY <1>2, <1>5, <1>6, <1>7, TextStep

LEMMA RewriteKeeps ==
  ASSUME TextInv, NEW a \in Artifact, Rewrite(a)
  PROVE  /\ TextInv'
         /\ \A b \in Artifact : Edits(design[b]) \subseteq Edits(design'[b])
<1> DEFINE text == [answers |-> Answers(design[a]), edits |-> Edits(design[a]) \cup {rewrites + 1}]
<1>1. /\ design' = [design EXCEPT ![a] = text] /\ rewrites' = rewrites + 1
      /\ rewrites < MaxRewrites
      /\ late' = IF a # Context /\ \E c \in Command : Unguarded(c, a)
                 THEN late \cup {a} ELSE late
      /\ UNCHANGED <<native, proposal, session, job, told>>
  BY DEF Rewrite
<1>2. /\ design \in [Artifact -> Text] /\ rewrites \in Nat /\ rewrites' \in 0..MaxRewrites
  BY <1>1, Constants DEF TextInv
<1>3. text \in Text /\ Edits(text) = Edits(design[a]) \cup {rewrites + 1}
  <2>1. Answers(design[a]) \in SUBSET Question /\ Edits(design[a]) \in SUBSET Nat
    BY <1>2, TextParts
  <2>2. Edits(design[a]) \cup {rewrites + 1} \in SUBSET Nat
    BY <1>2, <2>1
  <2> QED BY <2>1, <2>2, Constants
<1> HIDE DEF text
<1>4. /\ design' \in [Artifact -> Text]
      /\ \A b \in Artifact : Edits(design[b]) \subseteq Edits(design'[b])
      /\ \A b \in Artifact : b # a => design'[b] = design[b]
  BY <1>1, <1>2, <1>3
<1>5. /\ Sound' \in SUBSET Sound /\ Sound \subseteq Artifact /\ late' \subseteq Artifact
      /\ \A b \in Sound' : b = a /\ a # Context => \A c \in Command : ~Unguarded(c, a)
  BY <1>1 DEF Sound, TextInv
<1>6. Old(proposal, Artifact, design', Sound')
  BY <1>4, <1>5, OldMoves DEF TextInv
<1>7. Known => Form(session) /\ OldSession(session, design', Sound')
  BY <1>4, <1>5, OldMoves DEF TextInv, OldSession
<1>8. ASSUME NEW c \in Command, job[c] # NoJob
      PROVE  JobForm(job[c]) /\ JobTexts(job[c], design', Sound', native)
  <2> DEFINE w == job[c]
  <2>1. JobForm(w) /\ JobTexts(w, design, Sound, native)
    BY <1>8 DEF TextInv, Busy
  <2>2. ~Unguarded(c, a) =>
          /\ w.phase = "typed" => a \notin w.targets
          /\ w.phase = "asking" /\ native => a \in DOMAIN w.was.digests
    BY <1>8 DEF Unguarded, In
  <2> HIDE DEF w
  <2>3. \A b \in Sound' : b # a \/ a = Context \/
          (/\ w.phase = "typed" => a \notin w.targets
           /\ w.phase = "asking" /\ native => a \in DOMAIN w.was.digests)
    BY <1>5, <2>2
  <2>4. w.phase = "asking" =>
          /\ OldSession(w.was, design', Sound') /\ OldSession(w.state, design', Sound')
          /\ Old(w.base, Artifact, design', Sound')
    BY <1>4, <1>5, <2>1, OldMoves DEF JobTexts, OldSession, JobForm, Form, Old
  <2>5. w.phase = "asking" => \A b \in Sound' :
          IF b \in DOMAIN w.was.digests
          THEN Edits(w.was.digests[b]) \subseteq Edits(w.base[b])
          ELSE native /\ b # Context => Edits(design'[b]) \subseteq Edits(w.base[b])
    BY <1>4, <1>5, <2>1, <2>3 DEF JobTexts
  <2>6. w.phase \in Working =>
          /\ OldSession(w.state, design', Sound')
          /\ Old(w.base, Artifact, design', Sound') /\ Old(w.body, Artifact, design', Sound')
          /\ Old(w.base, w.targets, w.body, Sound')
    BY <1>4, <1>5, <2>1 DEF JobTexts, OldSession, JobForm, Form, Old
  <2>7. w.phase = "typed" => Old(design', w.targets \ {Context}, w.base, Sound')
    BY <1>4, <1>5, <2>1, <2>3 DEF JobTexts, Old
  <2>8. w.phase \in {"typed", "document"} => native
    BY <2>1 DEF JobTexts
  <2>9. JobTexts(w, design', Sound', native)
    BY <2>4, <2>5, <2>6, <2>7, <2>8 DEF JobTexts
  <2> QED BY <2>1, <2>9 DEF w
<1>9. Busy' = Busy /\ Known' = Known
  BY <1>1 DEF Busy, Known
<1>10. \A c \in Busy' : JobForm(job'[c]) /\ JobTexts(job'[c], design', Sound', native')
  BY <1>1, <1>8 DEF Busy
<1>11. TextInv'
  BY <1>1, <1>2, <1>4, <1>5, <1>6, <1>7, <1>9, <1>10 DEF TextInv
<1> QED BY <1>4, <1>11

-----------------------------------------------------------------------------
(* One command at a time: a pending review is of a proposal made from its  *)
(* bases or by an init, and the answers accepted are in the document or a   *)
(* review of the document is pending.                                      *)

\* What awaits review was made from its bases, or is the draft of an init.
Made(texts, arts, props, sound) ==
  \A a \in arts \cap sound : props[a] = Drafted \/ Edits(texts[a]) \subseteq Edits(props[a])

\* What a command has of the session it will replace.
JobAlone(w, s, heard, props, sound) ==
  /\ w.phase = "drafted" /\ w.kind # "scaffold" => s.review = {} /\ heard = {}
  /\ w.phase = "asking" =>
       /\ w.state.review = s.review /\ w.state.bases = s.bases
       /\ s.answered \cup {w.question} \subseteq w.state.answered
       /\ Old(s.bases, s.review, w.base, sound)
  /\ w.phase \in Working =>
       /\ w.kind # "review" => s.answered \cup {w.question} \subseteq w.state.answered
       /\ w.kind = "refinement" => w.state.review = s.review /\ w.state.bases = s.bases
       /\ w.kind = "review" => w.state = s
       /\ w.kind = "proposal" =>
            /\ w.state.review = Artifact /\ w.state.bases = w.base
            /\ w.state.status = "needs_review"
            /\ w.phase = "propose" => Old(s.bases, s.review, w.base, sound)
            /\ w.phase = "save" => Old(w.base, Artifact, props, sound)

AloneInv ==
  ~mixed =>
    /\ \A c, d \in Busy : c = d
    /\ Known => Made(session.bases, session.review, proposal, Sound)
    /\ \A c \in Busy : JobAlone(job[c], session, told, proposal, Sound)

\* The document has the answers.
Heard(heard, texts) == heard \subseteq Answers(texts[Context])

Reflected(s, heard, now) ==
  /\ heard \subseteq s.answered
  /\ Heard(heard, now) \/ Context \in s.review
  /\ s.status = "done" => Heard(heard, now)

\* What a command publishes has them too, and once it has, they are there.
JobHeard(w, heard, now) ==
  w.phase \in Working =>
    /\ w.kind # "review" => Heard(w.state.answered, w.body)
    /\ w.kind = "review" /\ Context \in w.targets => Heard(heard, w.body)
    /\ w.phase = "save" =>
         /\ w.kind = "refinement" => Heard(w.state.answered, now)
         /\ w.kind = "review" /\ Context \in w.targets => Heard(heard, now)

AnswerInv ==
  ~mixed /\ ~unheard /\ Known =>
    /\ Reflected(session, told, design)
    /\ \A c \in Busy : JobHeard(job[c], told, design)

OnboardInv == TextInv /\ AloneInv /\ AnswerInv

\* What is known to a command that is alone.
LEMMA Single ==
  ASSUME OnboardInv, NEW c \in Command, NEW p, In(c, p), ~mixed
  PROVE  /\ job[c].phase = p
         /\ JobForm(job[c]) /\ JobTexts(job[c], design, Sound, native)
         /\ Busy \subseteq {c} /\ JobAlone(job[c], session, told, proposal, Sound)
         /\ Known => /\ Form(session) /\ OldSession(session, design, Sound)
                     /\ Made(session.bases, session.review, proposal, Sound)
                     /\ ~unheard => /\ Reflected(session, told, design)
                                    /\ JobHeard(job[c], told, design)
         /\ p # "drafted" \/ job[c].kind # "scaffold" => Known
<1>1. c \in Busy
  BY DEF In, Busy
<1>2. /\ job[c].phase = p
      /\ JobForm(job[c]) /\ JobTexts(job[c], design, Sound, native)
      /\ p # "drafted" \/ job[c].kind # "scaffold" => Known
  BY Busily DEF OnboardInv
<1>3. Known => Form(session) /\ OldSession(session, design, Sound)
  BY DEF OnboardInv, TextInv
<1>4. /\ Busy \subseteq {c} /\ JobAlone(job[c], session, told, proposal, Sound)
      /\ Known => Made(session.bases, session.review, proposal, Sound)
  BY <1>1 DEF OnboardInv, AloneInv
<1>5. Known /\ ~unheard => /\ Reflected(session, told, design)
                           /\ JobHeard(job[c], told, design)
  BY <1>1 DEF OnboardInv, AnswerInv
<1> QED BY <1>2, <1>3, <1>4, <1>5

\* The only command's step.
LEMMA SingleStep ==
  ASSUME TextInv, NEW c \in Command, Busy \subseteq {c},
         NEW new, job' = [job EXCEPT ![c] = new],
         new # NoJob => JobAlone(new, session', told', proposal', Sound'),
         Known' => /\ Made(session'.bases, session'.review, proposal', Sound')
                   /\ ~unheard' => /\ Reflected(session', told', design')
                                   /\ new # NoJob => JobHeard(new, told', design')
  PROVE  AloneInv' /\ AnswerInv'
<1>1. \A d \in Busy' : d = c /\ new # NoJob /\ job'[d] = new
  BY DEF TextInv, Busy
<1>2. AloneInv'
  BY <1>1 DEF AloneInv
<1>3. AnswerInv'
  BY <1>1 DEF AnswerInv
<1> QED BY <1>2, <1>3

\* While commands overlap nothing is claimed.
LEMMA MixedStep ==
  ASSUME mixed' PROVE AloneInv' /\ AnswerInv'
BY DEF AloneInv, AnswerInv

LEMMA InitializeAlone ==
  ASSUME OnboardInv, NEW c \in Command, Initialize(c), ~mixed'
  PROVE  AloneInv' /\ AnswerInv'
<1> DEFINE new == [phase |-> "drafted", kind |-> "init", left |-> Artifact]
<1>1. PICK questions \in FirstQuestions : session' = Started(questions)
  BY DEF Initialize
<1>2. job' = [job EXCEPT ![c] = new] /\ told' = {} /\ Busy = {}
  BY DEF Initialize, Enter
<1>3. session'.answered = {} /\ session'.review = {}
  BY <1>1, StartedForm
<1>4. JobAlone(new, session', told', proposal', Sound')
      /\ JobHeard(new, told', design')
  BY <1>2, <1>3 DEF JobAlone, JobHeard, Working
<1>5. Made(session'.bases, session'.review, proposal', Sound')
  BY <1>3 DEF Made
<1>6. Reflected(session', told', design')
  BY <1>2 DEF Reflected, Heard
<1>7. TextInv
  BY DEF OnboardInv
<1> HIDE DEF new
<1> QED BY <1>2, <1>4, <1>5, <1>6, <1>7, SingleStep

LEMMA ScaffoldAlone ==
  ASSUME OnboardInv, NEW c \in Command, Scaffold(c), ~mixed'
  PROVE  AloneInv' /\ AnswerInv'
<1> DEFINE new == [phase |-> "drafted", kind |-> "scaffold", left |-> Artifact]
<1>1. /\ job' = [job EXCEPT ![c] = new] /\ Busy = {} /\ ~mixed /\ TextInv
      /\ UNCHANGED <<design, proposal, session, told, late, unheard>>
  BY DEF Scaffold, Enter, OnboardInv
<1>2. /\ JobAlone(new, session, told, proposal, Sound) /\ JobHeard(new, told, design)
      /\ new.kind = "scaffold"
  BY DEF JobAlone, JobHeard, Working
<1> HIDE DEF new
<1>3. Known' => Known
  BY <1>1, <1>2, KnownStays
<1>4. /\ Sound' = Sound
      /\ Known => /\ Made(session.bases, session.review, proposal, Sound)
                  /\ ~unheard => Reflected(session, told, design)
  BY <1>1 DEF OnboardInv, AloneInv, AnswerInv, Sound
<1> QED BY <1>1, <1>2, <1>3, <1>4, SingleStep

LEMMA WriteArtifactAlone ==
  ASSUME OnboardInv, NEW c \in Command, WriteArtifact(c), ~mixed'
  PROVE  AloneInv' /\ AnswerInv'
<1>1. /\ In(c, "drafted") /\ ~mixed /\ TextInv
      /\ UNCHANGED <<session, told, late, unheard>>
  BY DEF WriteArtifact, OnboardInv
<1>2. PICK a \in job[c].left :
        /\ \/ design[a] = Missing /\ design' = [design EXCEPT ![a] = Drafted]
                                  /\ proposal' = proposal
           \/ proposal' = [proposal EXCEPT ![a] = Drafted] /\ design' = design
        /\ job' = [job EXCEPT ![c].left = @ \ {a}]
  BY DEF WriteArtifact
<1> DEFINE w == job[c]
           new == [w EXCEPT !.left = @ \ {a}]
<1>3. /\ w.phase = "drafted" /\ JobForm(w) /\ Busy \subseteq {c}
      /\ JobAlone(w, session, told, proposal, Sound)
      /\ Known => /\ Form(session) /\ Made(session.bases, session.review, proposal, Sound)
                  /\ ~unheard => Reflected(session, told, design)
      /\ w.kind # "scaffold" => Known
  BY <1>1, Single
<1>4. job' = [job EXCEPT ![c] = new]
  BY <1>2
<1>5. new.phase = "drafted" /\ new.kind = w.kind
  BY <1>3 DEF JobForm
<1> HIDE DEF new
<1>6. Known' => Known
  BY <1>1, <1>3, <1>4, <1>5, KnownStays
<1> HIDE DEF w
<1>7. /\ JobAlone(new, session', told', proposal', Sound') /\ JobHeard(new, told', design')
  BY <1>1, <1>3, <1>5 DEF JobAlone, JobHeard, Working
<1>8. /\ \A b \in Artifact : proposal'[b] \in {proposal[b], Drafted}
      /\ Answers(design[Context]) \subseteq Answers(design'[Context])
      /\ Sound' = Sound
  BY <1>1, <1>2, Constants DEF TextInv, Sound
<1>9. Known => /\ Made(session.bases, session.review, proposal', Sound)
               /\ ~unheard => Reflected(session, told, design')
  BY <1>3, <1>8 DEF Made, Form, Reflected, Heard
<1> QED BY <1>1, <1>3, <1>4, <1>6, <1>7, <1>8, <1>9, SingleStep

LEMMA CaptureFirstAlone ==
  ASSUME OnboardInv, NEW c \in Command, CaptureFirst(c), ~mixed'
  PROVE  AloneInv' /\ AnswerInv'
<1>1. /\ In(c, "drafted") /\ ~mixed /\ TextInv
      /\ session' = IF job[c].kind = "scaffold" THEN session
                    ELSE [session EXCEPT !.digests = Captured]
      /\ job' = [job EXCEPT ![c] = NoJob]
      /\ UNCHANGED <<design, proposal, told, late, unheard>>
  BY DEF CaptureFirst, Leave, OnboardInv
<1>2. /\ job[c].phase = "drafted" /\ Busy \subseteq {c}
      /\ JobAlone(job[c], session, told, proposal, Sound)
      /\ Known => /\ Form(session) /\ Made(session.bases, session.review, proposal, Sound)
                  /\ ~unheard => Reflected(session, told, design)
      /\ job[c].kind # "scaffold" => Known
  BY <1>1, Single
<1>3. Sound' = Sound
  BY <1>1 DEF Sound
<1>4. CASE job[c].kind = "scaffold"
  <2>1. session' = session
    BY <1>1, <1>4
  <2>2. Known' => Known
    BY <1>1, <2>1, KnownStays
  <2> QED BY <1>1, <1>2, <1>3, <2>1, <2>2, SingleStep
<1>5. CASE job[c].kind # "scaffold"
  <2>1. session.review = {} /\ told = {} /\ Form(session)
    BY <1>2, <1>5 DEF JobAlone
  <2>2. session'.review = {}
    BY <1>1, <1>5, <2>1 DEF Form
  <2>3. Made(session'.bases, session'.review, proposal', Sound')
        /\ Reflected(session', told', design')
    BY <1>1, <2>1, <2>2 DEF Made, Reflected, Heard
  <2> QED BY <1>1, <1>2, <2>3, SingleStep
<1> QED BY <1>4, <1>5

LEMMA AskAlone ==
  ASSUME OnboardInv, NEW c \in Command, Ask(c), ~mixed'
  PROVE  AloneInv' /\ AnswerInv'
<1>1. PICK i \in Pending(session) :
        Enter(c, [phase |-> "asking", kind |-> "question", was |-> session,
                  question |-> session.qa[i],
                  state |-> [session EXCEPT !.answered = @ \cup {session.qa[i]}],
                  base |-> design])
  BY DEF Ask
<1> DEFINE q == session.qa[i]
           state == [session EXCEPT !.answered = @ \cup {q}]
           new == [phase |-> "asking", kind |-> "question", was |-> session, question |-> q,
                   state |-> state, base |-> design]
<1>2. /\ job' = [job EXCEPT ![c] = new] /\ ~mixed /\ Busy = {} /\ TextInv
      /\ UNCHANGED <<native, design, proposal, session, told, late, unheard>>
  BY <1>1 DEF Ask, Enter, OnboardInv
<1>3. /\ Form(session) /\ OldSession(session, design, Sound) /\ Known
      /\ Made(session.bases, session.review, proposal, Sound) /\ Sound' = Sound
      /\ ~unheard => Reflected(session, told, design)
  BY <1>2 DEF Ask, TextInv, Known, OnboardInv, AloneInv, AnswerInv, Sound
<1> HIDE DEF q
<1>4. /\ state.answered = session.answered \cup {q} /\ state.review = session.review
      /\ state.bases = session.bases
  BY <1>3 DEF Form
<1> HIDE DEF state
<1>5. JobAlone(new, session, told, proposal, Sound)
  BY <1>3, <1>4 DEF JobAlone, Working, OldSession
<1>6. JobHeard(new, told, design)
  BY DEF JobHeard, Working
<1> HIDE DEF new
<1> QED BY <1>2, <1>3, <1>5, <1>6, SingleStep

LEMMA CloseAlone ==
  ASSUME OnboardInv, NEW c \in Command, Close(c), ~mixed'
  PROVE  AloneInv' /\ AnswerInv'
<1>1. /\ session' = [session EXCEPT !.status = "done"] /\ Busy = {} /\ ~mixed
      /\ unheard' = (unheard \/ session.review # {})
      /\ UNCHANGED <<native, design, proposal, job, told, late>>
  BY DEF Close
<1>2. /\ Known /\ Form(session) /\ Sound' = Sound /\ Busy' = {}
      /\ Made(session.bases, session.review, proposal, Sound)
      /\ ~unheard => Reflected(session, told, design)
  BY <1>1 DEF Close, Known, OnboardInv, TextInv, AloneInv, AnswerInv, Sound, Busy
<1>3. /\ session'.review = session.review /\ session'.bases = session.bases
      /\ session'.answered = session.answered
  BY <1>1, <1>2 DEF Form
<1>4. AloneInv'
  BY <1>1, <1>2, <1>3 DEF AloneInv
<1>5. ~unheard' => Reflected(session', told', design')
  BY <1>1, <1>2, <1>3 DEF Reflected
<1>6. AnswerInv'
  BY <1>2, <1>5 DEF AnswerInv
<1> QED BY <1>4, <1>6

LEMMA AbortAlone ==
  ASSUME OnboardInv, NEW c \in Command, Abort(c), ~mixed'
  PROVE  AloneInv' /\ AnswerInv'
<1>1. /\ In(c, job[c].phase) /\ ~mixed /\ TextInv
      /\ job' = [job EXCEPT ![c] = NoJob]
      /\ UNCHANGED <<native, design, proposal, session, told, late, unheard>>
  BY DEF Abort, Leave, In, OnboardInv
<1>2. Sound' = Sound
  BY <1>1 DEF Sound
<1>3. /\ Busy \subseteq {c}
      /\ Known => /\ Made(session.bases, session.review, proposal, Sound)
                  /\ ~unheard => Reflected(session, told, design)
  BY <1>1, Single
<1>4. Known' => Known
  BY <1>1, KnownStays
<1> QED BY <1>1, <1>2, <1>3, <1>4, SingleStep

LEMMA ReviewKeeps ==
  ASSUME OnboardInv, NEW c \in Command, NEW targets \in SUBSET Artifact, Review(c, targets)
  PROVE  TextInv'
<1> DEFINE new == [phase |-> IF native THEN "typed" ELSE "publish", kind |-> "review",
                   targets |-> targets, base |-> design, body |-> proposal,
                   state |-> session]
           left == Artifact \ late'
<1>1. /\ job' = [job EXCEPT ![c] = new] /\ session # NoSession
      /\ targets \subseteq session.review /\ \A a \in targets : Applicable(a)
      /\ late' = late \cup Foreign(targets)
      /\ UNCHANGED <<native, design, proposal, session, told, rewrites>>
  BY DEF Review, Enter
<1>2. TextInv /\ Known
  BY <1>1 DEF OnboardInv, Known
<1>3. /\ Form(session) /\ OldSession(session, design, Sound)
      /\ Old(proposal, Artifact, design, Sound) /\ native \in BOOLEAN
      /\ design \in [Artifact -> Text] /\ proposal \in [Artifact -> Text]
      /\ late \subseteq Artifact /\ told \subseteq Question
  BY <1>2 DEF TextInv
<1>4. left \in SUBSET Sound /\ late' \subseteq Artifact /\ late \subseteq late'
  BY <1>1, <1>3 DEF Sound, Foreign
<1>5. OldSession(session, design, left) /\ Old(proposal, Artifact, design, left)
  BY <1>3, <1>4 DEF OldSession, Old
<1>6. Old(design, targets, proposal, left)
  <2>1. CASE mixed \/ Busy # {}
    BY <1>1, <2>1 DEF Old, Foreign
  <2>2. CASE ~mixed /\ Busy = {}
    <3>1. Made(session.bases, session.review, proposal, Sound)
      BY <1>2, <2>2 DEF OnboardInv, AloneInv
    <3>2. \A a \in targets \cap left : proposal[a] # Drafted
      BY <1>1 DEF Foreign
    <3> QED BY <1>1, <1>4, <3>1, <3>2 DEF Old, Made, Applicable
  <2> QED BY <2>1, <2>2
<1>7. JobForm(new)
  BY <1>3 DEF JobForm, Working
<1>8. JobTexts(new, design, left, native)
  BY <1>3, <1>5, <1>6 DEF JobTexts, Working, Old
<1> HIDE DEF new
<1> QED BY <1>1, <1>2, <1>3, <1>4, <1>5, <1>7, <1>8, TextStepAside

LEMMA ReviewAlone ==
  ASSUME OnboardInv, NEW c \in Command, NEW targets \in SUBSET Artifact, Review(c, targets),
         ~mixed'
  PROVE  AloneInv' /\ AnswerInv'
<1> DEFINE new == [phase |-> IF native THEN "typed" ELSE "publish", kind |-> "review",
                   targets |-> targets, base |-> design, body |-> proposal,
                   state |-> session]
<1>1. /\ job' = [job EXCEPT ![c] = new] /\ session # NoSession
      /\ Busy = {} /\ ~mixed /\ TextInv /\ Known /\ Sound' \subseteq Sound
      /\ UNCHANGED <<native, design, proposal, session, told>>
      /\ ~unheard' => ~unheard /\ (Context \in targets => Heard(told, proposal))
  BY DEF Review, Enter, OnboardInv, Known, Sound, Heard
<1>2. /\ Made(session.bases, session.review, proposal, Sound')
      /\ ~unheard => Reflected(session, told, design)
  BY <1>1 DEF OnboardInv, AloneInv, AnswerInv, Made
<1>3. JobAlone(new, session, told, proposal, Sound')
  BY DEF JobAlone, Working
<1>4. (Context \in targets => Heard(told, proposal)) => JobHeard(new, told, design)
  BY DEF JobHeard, Working
<1> HIDE DEF new
<1> QED BY <1>1, <1>2, <1>3, <1>4, SingleStep

LEMMA RespondAlone ==
  ASSUME OnboardInv, NEW c \in Command, NEW source, NEW questions \in NextQuestions,
         Respond(c, source, questions), ~mixed'
  PROVE  AloneInv' /\ AnswerInv'
<1> DEFINE work == job[c]
           apply == Untouched(work.was)
           after == Appended(work.state, questions)
           body == Refined(work, source)
           state == IF apply THEN after
                    ELSE [after EXCEPT !.status = "needs_review", !.review = Artifact,
                                       !.bases = ReviewBases(work)]
           phase == IF ~apply THEN "propose" ELSE IF native THEN "typed" ELSE "publish"
           kind == IF apply THEN "refinement" ELSE "proposal"
           new == [phase |-> phase, kind |-> kind,
                   targets |-> Artifact, question |-> work.question,
                   last |-> questions = <<>>, base |-> work.base, body |-> body,
                   state |-> state]
<1>1. /\ In(c, "asking") /\ job' = [job EXCEPT ![c] = new]
      /\ UNCHANGED <<native, design, proposal, session, told, late, mixed>>
      /\ unheard' = (unheard \/ ~(work.state.answered \subseteq Answers(body[Context])))
  BY Zenon DEF Respond
<1>2. /\ work.phase = "asking" /\ JobForm(work) /\ Busy \subseteq {c} /\ ~mixed
      /\ JobAlone(work, session, told, proposal, Sound)
      /\ Made(session.bases, session.review, proposal, Sound)
      /\ ~unheard => Reflected(session, told, design)
  BY <1>1, Single
<1>3. /\ TextInv /\ Sound' = Sound
  BY <1>1 DEF OnboardInv, Sound
<1> HIDE DEF work
<1>4. Form(work.state)
  BY <1>2 DEF JobForm
<1>5. /\ Form(after) /\ after.answered = work.state.answered
      /\ after.review = work.state.review /\ after.bases = work.state.bases
  BY <1>4, AppendedForm
<1>6. /\ work.state.review = session.review /\ work.state.bases = session.bases
      /\ session.answered \cup {work.question} \subseteq work.state.answered
      /\ Old(session.bases, session.review, work.base, Sound)
  BY <1>2 DEF JobAlone
<1> HIDE DEF after, apply, body
<1>7. /\ state.answered = work.state.answered
      /\ apply => state.review = session.review /\ state.bases = session.bases
      /\ ~apply => /\ state.status = "needs_review" /\ state.review = Artifact
                   /\ state.bases = work.base
  BY <1>5, <1>6 DEF Form, ReviewBases
<1>8. /\ ~apply => phase = "propose" /\ kind = "proposal"
      /\ apply => kind = "refinement" /\ phase \in {"typed", "publish"}
  OBVIOUS
<1> HIDE DEF state, phase, kind
<1>9. JobAlone(new, session, told, proposal, Sound)
  BY <1>6, <1>7, <1>8 DEF JobAlone, Working
<1>10. ~unheard' => ~unheard /\ JobHeard(new, told, design)
  BY <1>1, <1>7, <1>8 DEF JobHeard, Heard, Working
<1> HIDE DEF new
<1> QED BY <1>1, <1>2, <1>3, <1>9, <1>10, SingleStep

LEMMA ProposeAlone ==
  ASSUME OnboardInv, NEW c \in Command, Propose(c), ~mixed'
  PROVE  AloneInv' /\ AnswerInv'
<1> DEFINE w == job[c]
           new == [w EXCEPT !.phase = "save"]
<1>1. /\ In(c, "propose") /\ job' = [job EXCEPT ![c] = new] /\ proposal' = w.body
      /\ UNCHANGED <<native, design, session, told, late, mixed, unheard>>
  BY DEF Propose
<1>2. /\ w.phase = "propose" /\ JobForm(w) /\ JobTexts(w, design, Sound, native)
      /\ Form(session) /\ Busy \subseteq {c} /\ JobAlone(w, session, told, proposal, Sound)
      /\ ~unheard => /\ Reflected(session, told, design)
                     /\ JobHeard(w, told, design)
  BY <1>1, Single
<1>3. TextInv /\ Sound' = Sound
  BY <1>1 DEF OnboardInv, Sound
<1> HIDE DEF w
<1>4. /\ w.kind = "proposal" /\ w.targets = Artifact /\ w.phase \in Working
  BY <1>2 DEF JobForm, Working
<1>5. /\ new.phase = "save" /\ new.kind = "proposal" /\ new.base = w.base
      /\ new.body = w.body /\ new.state = w.state /\ new.question = w.question
  BY <1>2, <1>4, NextPhase
<1> HIDE DEF new
<1>6. /\ session.answered \cup {w.question} \subseteq w.state.answered
      /\ w.state.review = Artifact /\ w.state.bases = w.base
      /\ w.state.status = "needs_review"
      /\ Old(session.bases, session.review, w.base, Sound)
      /\ Old(w.base, Artifact, w.body, Sound)
  BY <1>2, <1>4 DEF JobAlone, JobTexts
<1>7. JobAlone(new, session, told, w.body, Sound)
  BY <1>5, <1>6 DEF JobAlone, Working
<1>8. Made(session.bases, session.review, w.body, Sound)
  BY <1>2, <1>6 DEF Old, Made, Form
<1>9. ~unheard => /\ Reflected(session, told, design)
                  /\ JobHeard(new, told, design)
  BY <1>2, <1>4, <1>5, <1>6 DEF Reflected, JobHeard, Heard
<1> QED BY <1>1, <1>2, <1>3, <1>7, <1>8, <1>9, SingleStep

\* The document of a job that has published it has what the job answers.
LEMMA PublicationAlone ==
  ASSUME OnboardInv, NEW c \in Command, NEW p \in {"publish", "typed", "document"}, In(c, p),
         NEW arts \in SUBSET job[c].targets, Put(job[c], arts),
         NEW q \in {"document", "save"},
         q = "save" /\ Context \in job[c].targets => Context \in arts,
         job' = [job EXCEPT ![c].phase = q], ~mixed,
         UNCHANGED <<native, proposal, session, told, late, unheard>>
  PROVE  AloneInv' /\ AnswerInv'
<1> DEFINE w == job[c]
           new == [w EXCEPT !.phase = q]
<1>1. /\ w.phase = p /\ JobForm(w) /\ Busy \subseteq {c}
      /\ JobAlone(w, session, told, proposal, Sound)
      /\ Made(session.bases, session.review, proposal, Sound)
      /\ ~unheard => /\ Reflected(session, told, design)
                     /\ JobHeard(w, told, design)
  BY Single
<1>2. TextInv /\ Sound' = Sound /\ Context \in Artifact
  BY Constants DEF OnboardInv, Sound
<1>3. job' = [job EXCEPT ![c] = new]
  OBVIOUS
<1>4. design'[Context] = IF Context \in arts THEN w.body[Context] ELSE design[Context]
  BY <1>2 DEF Put
<1> HIDE DEF w
<1>5. /\ w.phase \in Working /\ w.kind \in {"refinement", "review"}
      /\ w.kind # "review" => w.targets = Artifact
  BY <1>1 DEF JobForm, Working
<1>6. /\ new.phase = q /\ new.kind = w.kind /\ new.body = w.body /\ new.state = w.state
      /\ new.targets = w.targets
      /\ w.kind # "review" => new.question = w.question
  BY <1>1, <1>5, NextPhase
<1> HIDE DEF new
<1>7. JobAlone(new, session, told, proposal, Sound)
  BY <1>1, <1>5, <1>6 DEF JobAlone, Working
<1>8. ASSUME ~unheard, Context \in arts
      PROVE  /\ Heard(told, w.body) /\ Heard(told, design')
             /\ w.kind = "refinement" => Heard(w.state.answered, design')
  <2>1. /\ told \subseteq session.answered
        /\ w.kind = "refinement" =>
             session.answered \subseteq w.state.answered /\ Heard(w.state.answered, w.body)
        /\ w.kind = "review" => Heard(told, w.body)
    BY <1>1, <1>5, <1>8 DEF Reflected, JobAlone, JobHeard, w
  <2> QED BY <1>4, <1>5, <1>8, <2>1 DEF Heard
<1>9. ~unheard => Reflected(session, told, design')
  BY <1>1, <1>4, <1>8 DEF Reflected, Heard
<1>10. ~unheard => JobHeard(new, told, design')
  BY <1>1, <1>2, <1>5, <1>6, <1>8 DEF JobHeard, Working, w
<1> QED BY <1>1, <1>2, <1>3, <1>7, <1>9, <1>10, SingleStep

LEMMA PublicationsAlone ==
  ASSUME OnboardInv, NEW c \in Command, ~mixed',
         Publish(c) \/ PublishTyped(c) \/ PublishDocument(c)
  PROVE  AloneInv' /\ AnswerInv'
<1>1. CASE Publish(c)
  BY <1>1, PublicationAlone DEF Publish
<1>2. CASE PublishTyped(c)
  BY <1>2, PublicationAlone DEF PublishTyped
<1>3. CASE PublishDocument(c)
  <2>1. /\ In(c, "document") /\ Put(job[c], job[c].targets \cap {Context})
        /\ job' = [job EXCEPT ![c].phase = "save"] /\ ~mixed
        /\ UNCHANGED <<native, proposal, session, told, late, unheard>>
    BY <1>3 DEF PublishDocument
  <2>2. job[c].targets \cap {Context} \in SUBSET job[c].targets
        /\ (Context \in job[c].targets => Context \in job[c].targets \cap {Context})
    OBVIOUS
  <2> QED BY <2>1, <2>2, PublicationAlone
<1> QED BY <1>1, <1>2, <1>3

LEMMA SaveStateAlone ==
  ASSUME OnboardInv, NEW c \in Command, SaveState(c), ~mixed'
  PROVE  AloneInv' /\ AnswerInv'
<1> DEFINE w == job[c]
<1>1. /\ In(c, "save") /\ job' = [job EXCEPT ![c] = NoJob]
      /\ UNCHANGED <<native, design, late, mixed, unheard>>
      /\ IF w.kind = "review"
         THEN /\ session' = Reviewed(w.state, w.targets)
              /\ proposal' = [a \in Artifact |-> IF a \in w.targets THEN Missing
                                                 ELSE proposal[a]]
              /\ UNCHANGED told
         ELSE /\ session' = Answered(w)
              /\ told' = told \cup {w.question}
              /\ UNCHANGED proposal
  BY DEF SaveState, Leave
<1>2. /\ w.phase = "save" /\ JobForm(w) /\ Form(session) /\ Busy \subseteq {c}
      /\ JobAlone(w, session, told, proposal, Sound)
      /\ Made(session.bases, session.review, proposal, Sound)
      /\ ~unheard => /\ Reflected(session, told, design)
                     /\ JobHeard(w, told, design)
  BY <1>1, Single
<1>3. /\ TextInv /\ Sound' = Sound /\ Context \in Artifact
  BY <1>1, Constants DEF OnboardInv, Sound
<1> HIDE DEF w
<1>4. /\ w.kind \in {"refinement", "proposal", "review"} /\ Form(w.state)
      /\ w.targets \subseteq Artifact
  BY <1>2 DEF JobForm, Working
<1>5. /\ Made(session'.bases, session'.review, proposal', Sound)
      /\ ~unheard => Reflected(session', told', design)
  <2>1. CASE w.kind = "refinement"
    <3>1. /\ session'.answered = w.state.answered /\ session'.review = session.review
          /\ session'.bases = session.bases /\ proposal' = proposal
      BY <1>1, <1>2, <1>4, <2>1 DEF Answered, Form, JobAlone, Working
    <3>2. session.answered \cup {w.question} \subseteq w.state.answered
      BY <1>2, <2>1 DEF JobAlone, Working
    <3>3. ~unheard => told' \subseteq w.state.answered /\ Heard(w.state.answered, design)
      BY <1>1, <1>2, <2>1, <3>2 DEF Reflected, JobHeard, Working
    <3> QED BY <1>2, <3>1, <3>3 DEF Reflected, Heard
  <2>2. CASE w.kind = "proposal"
    <3>1. session' = w.state /\ proposal' = proposal
      BY <1>1, <2>2 DEF Answered
    <3>2. /\ session.answered \cup {w.question} \subseteq w.state.answered
          /\ w.state.review = Artifact /\ w.state.bases = w.base
          /\ w.state.status = "needs_review" /\ Old(w.base, Artifact, proposal, Sound)
      BY <1>2, <2>2 DEF JobAlone, Working
    <3>3. ~unheard => told' \subseteq w.state.answered
      BY <1>1, <1>2, <2>2, <3>2 DEF Reflected
    <3> QED BY <1>3, <3>1, <3>2, <3>3 DEF Reflected, Old, Made
  <2>3. CASE w.kind = "review"
    <3> DEFINE rest == session.review \ w.targets
    <3>1. w.state = session
      BY <1>2, <2>3 DEF JobAlone, Working
    <3>2. /\ session'.answered = session.answered /\ session'.review = rest
          /\ session'.bases = [a \in rest |-> session.bases[a]]
          /\ rest # {} => session'.status = "needs_review"
      <4> DEFINE status == IF rest # {} THEN "needs_review"
                           ELSE IF Pending(session) # {} THEN "active" ELSE "done"
                 kept == [a \in rest |-> session.bases[a]]
      <4>1. session' = [session EXCEPT !.review = rest, !.bases = kept,
                                       !.digests = Captured, !.status = status]
        BY <1>1, <2>3, <3>1 DEF Reviewed
      <4>2. rest # {} => status = "needs_review"
        OBVIOUS
      <4> HIDE DEF status, kept, rest
      <4>3. /\ session'.answered = session.answered /\ session'.review = rest
            /\ session'.bases = kept /\ session'.status = status
        BY <1>2, <4>1 DEF Form
      <4> QED BY <4>2, <4>3 DEF kept
    <3>3. /\ proposal' = [a \in Artifact |-> IF a \in w.targets THEN Missing ELSE proposal[a]]
          /\ told' = told
      BY <1>1, <2>3
    <3>4. Made(session'.bases, session'.review, proposal', Sound)
      BY <1>2, <3>2, <3>3 DEF Made, Sound
    <3>5. ASSUME ~unheard PROVE Reflected(session', told', design)
      <4>1. /\ Reflected(session, told, design)
            /\ Context \in w.targets => Heard(told, design)
        BY <1>2, <2>3, <3>5 DEF JobHeard, Working
      <4>2. Context \notin rest => Heard(told, design)
        BY <4>1 DEF Reflected
      <4>3. CASE Context \notin rest
        BY <3>2, <3>3, <4>1, <4>2, <4>3 DEF Reflected
      <4>4. CASE Context \in rest
        <5>1. session'.status = "needs_review"
          BY <3>2, <4>4
        <5> QED BY <3>2, <3>3, <4>1, <4>4, <5>1 DEF Reflected
      <4> QED BY <4>3, <4>4
    <3> QED BY <3>4, <3>5
  <2> QED BY <1>4, <2>1, <2>2, <2>3
<1> QED BY <1>1, <1>2, <1>3, <1>5, SingleStep

LEMMA RewriteAlone ==
  ASSUME OnboardInv, NEW a \in Artifact, Rewrite(a), ~mixed'
  PROVE  AloneInv' /\ AnswerInv'
<1>1. /\ design' = [design EXCEPT ![a] = [answers |-> Answers(@),
                                         edits |-> Edits(@) \cup {rewrites + 1}]]
      /\ late \subseteq late' /\ ~mixed
      /\ UNCHANGED <<proposal, session, job, told, unheard>>
  BY DEF Rewrite
<1>2. /\ Sound' \subseteq Sound /\ Busy' = Busy /\ Known' = Known
      /\ design \in [Artifact -> Text] /\ rewrites \in Nat
  BY <1>1 DEF Sound, Busy, Known, OnboardInv, TextInv
<1>3. Answers(design'[Context]) = Answers(design[Context])
  <2>1. /\ Answers(design[a]) \in SUBSET Question
        /\ Edits(design[a]) \cup {rewrites + 1} \in SUBSET Nat
    BY <1>2, TextParts
  <2>2. Answers([answers |-> Answers(design[a]),
                 edits |-> Edits(design[a]) \cup {rewrites + 1}]) = Answers(design[a])
    BY <2>1, Constants
  <2> QED BY <1>1, <1>2, <2>2
<1>4. /\ \A c, d \in Busy : c = d
      /\ Known => Made(session.bases, session.review, proposal, Sound')
      /\ \A c \in Busy : JobAlone(job[c], session, told, proposal, Sound')
  <2>1. \A texts, arts, now :
          /\ Old(texts, arts, now, Sound) => Old(texts, arts, now, Sound')
          /\ Made(texts, arts, now, Sound) => Made(texts, arts, now, Sound')
    BY <1>2 DEF Old, Made
  <2>2. \A c \in Busy : JobAlone(job[c], session, told, proposal, Sound)
                       => JobAlone(job[c], session, told, proposal, Sound')
    BY <2>1, Zenon DEF JobAlone
  <2> QED BY <1>1, <2>1, <2>2 DEF OnboardInv, AloneInv
<1>5. AloneInv'
  BY <1>1, <1>2, <1>4 DEF AloneInv
<1>6. AnswerInv'
  BY <1>1, <1>2, <1>3 DEF OnboardInv, AnswerInv, Reflected, JobHeard, Heard
<1> QED BY <1>5, <1>6

LEMMA OnboardInitially == OnboardInit => OnboardInv
<1> SUFFICES ASSUME OnboardInit PROVE OnboardInv
  OBVIOUS
<1>1. Busy = {} /\ told = {}
  BY DEF OnboardInit, Busy
<1>2. Known => session.review = {}
  BY <1>1 DEF OnboardInit, Known, Started
<1>3. AloneInv
  BY <1>1, <1>2 DEF AloneInv, Made
<1>4. AnswerInv
  <2>1. Known => {} \subseteq session.answered
    OBVIOUS
  <2> QED BY <1>1, <2>1 DEF AnswerInv, Reflected, Heard
<1> QED BY <1>3, <1>4, TextInitially DEF OnboardInv

\* A step keeps the invariant, and the edits of every text that is not late.
LEMMA OnboardStep ==
  ASSUME OnboardInv, [OnboardNext]_onboardVars
  PROVE  OnboardInv' /\ \A a \in Sound : Edits(design[a]) \subseteq Edits(design'[a])
<1> DEFINE Goal == OnboardInv' /\ \A a \in Sound : Edits(design[a]) \subseteq Edits(design'[a])
<1> SUFFICES Goal
  OBVIOUS
<1>t. TextInv
  BY DEF OnboardInv
<1>m. mixed' => AloneInv' /\ AnswerInv'
  BY MixedStep
<1>s. Sound \subseteq Artifact
  BY DEF Sound
<1>1. ASSUME NEW c \in Command, Initialize(c) PROVE Goal
  <2>1. design' = design
    BY <1>1 DEF Initialize
  <2> QED BY <1>1, <1>t, <1>m, <2>1, InitializeKeeps, InitializeAlone DEF OnboardInv
<1>0. ASSUME NEW c \in Command, Scaffold(c) PROVE Goal
  <2>1. design' = design
    BY <1>0 DEF Scaffold
  <2> QED BY <1>0, <1>t, <1>m, <2>1, ScaffoldKeeps, ScaffoldAlone DEF OnboardInv
<1>2. ASSUME NEW c \in Command, WriteArtifact(c) PROVE Goal
  <2>1. \/ design' = design
        \/ \E a \in job[c].left :
             design[a] = Missing /\ design' = [design EXCEPT ![a] = Drafted]
    BY <1>2 DEF WriteArtifact
  <2>2. \A a \in Artifact : Edits(design[a]) \subseteq Edits(design'[a])
    BY <1>t, <2>1, Constants DEF TextInv
  <2> QED BY <1>2, <1>t, <1>m, <1>s, <2>2, WriteArtifactKeeps, WriteArtifactAlone DEF OnboardInv
<1>3. ASSUME NEW c \in Command, CaptureFirst(c) PROVE Goal
  <2>1. design' = design
    BY <1>3 DEF CaptureFirst
  <2> QED BY <1>3, <1>t, <1>m, <2>1, CaptureFirstKeeps, CaptureFirstAlone DEF OnboardInv
<1>4. ASSUME NEW c \in Command, Ask(c) PROVE Goal
  <2>1. design' = design
    BY <1>4 DEF Ask
  <2> QED BY <1>4, <1>t, <1>m, <2>1, AskKeeps, AskAlone DEF OnboardInv
<1>5. ASSUME NEW c \in Command, Close(c) PROVE Goal
  <2>1. design' = design
    BY <1>5 DEF Close
  <2> QED BY <1>5, <1>t, <1>m, <2>1, CloseKeeps, CloseAlone DEF OnboardInv
<1>6. ASSUME NEW c \in Command, NEW source \in {"model", "partial", "none"},
             NEW questions \in NextQuestions, Respond(c, source, questions)
      PROVE  Goal
  <2>1. design' = design
    BY <1>6, Zenon DEF Respond
  <2> QED BY <1>6, <1>t, <1>m, <2>1, RespondKeeps, RespondAlone DEF OnboardInv
<1>7. ASSUME NEW c \in Command, Propose(c) PROVE Goal
  <2>1. design' = design
    BY <1>7 DEF Propose
  <2> QED BY <1>7, <1>t, <1>m, <2>1, ProposeKeeps, ProposeAlone DEF OnboardInv
<1>8. ASSUME NEW c \in Command, NEW targets \in SUBSET Artifact, Review(c, targets) PROVE Goal
  <2>1. design' = design
    BY <1>8 DEF Review
  <2> QED BY <1>8, <1>m, <2>1, ReviewKeeps, ReviewAlone DEF OnboardInv
<1>9. ASSUME NEW c \in Command, Publish(c) \/ PublishTyped(c) \/ PublishDocument(c) PROVE Goal
  <2>1. TextInv' /\ \A a \in Sound : Edits(design[a]) = Edits(design'[a])
    BY <1>9, <1>t, PublishKeeps, PublishTypedKeeps, PublishDocumentKeeps
  <2> QED BY <1>9, <1>m, <2>1, PublicationsAlone DEF OnboardInv
<1>10. ASSUME NEW c \in Command, Abort(c) PROVE Goal
  <2>1. design' = design
    BY <1>10 DEF Abort
  <2> QED BY <1>10, <1>t, <1>m, <2>1, AbortKeeps, AbortAlone DEF OnboardInv
<1>11. ASSUME NEW c \in Command, SaveState(c) PROVE Goal
  <2>1. design' = design
    BY <1>11 DEF SaveState
  <2> QED BY <1>11, <1>t, <1>m, <2>1, SaveStateKeeps, SaveStateAlone DEF OnboardInv
<1>12. ASSUME NEW a \in Artifact, Rewrite(a) PROVE Goal
  BY <1>12, <1>t, <1>m, <1>s, RewriteKeeps, RewriteAlone DEF OnboardInv
<1>13. CASE UNCHANGED onboardVars
  <2>1. /\ UNCHANGED <<native, design, proposal, session, job, told, mixed, late, unheard,
                      rewrites>>
    BY <1>13 DEF onboardVars
  <2>2. Sound' = Sound /\ Busy' = Busy /\ Known' = Known
    BY <2>1 DEF Sound, Busy, Known
  <2>3. TextInv'
    BY <1>t, <2>1, <2>2 DEF TextInv
  <2>4. AloneInv' /\ AnswerInv'
    BY <2>1, <2>2 DEF OnboardInv, AloneInv, AnswerInv
  <2> QED BY <2>1, <2>3, <2>4 DEF OnboardInv
<1> HIDE DEF Goal
<1>14. CASE OnboardNext
  <2>1. CASE \E a \in Artifact : Rewrite(a)
    BY <2>1, <1>12
  <2>2. ASSUME NEW c \in Command,
               \E source \in {"model", "partial", "none"}, questions \in NextQuestions :
                 Respond(c, source, questions)
        PROVE  Goal
    BY <2>2, <1>6
  <2>3. ASSUME NEW c \in Command, \E targets \in SUBSET Artifact : Review(c, targets)
        PROVE  Goal
    BY <2>3, <1>8
  <2> QED BY <1>14, <1>0, <1>1, <1>2, <1>3, <1>4, <1>5, <1>7, <1>9, <1>10, <1>11, <2>1, <2>2, <2>3
          DEF OnboardNext
<1> QED BY <1>13, <1>14

LEMMA OnboardKeepsInv == OnboardSpec => []OnboardInv
BY OnboardInitially, OnboardStep, PTL DEF OnboardSpec

\* No publication of a refinement or of a reviewed proposal loses an edit of
\* the author's, however commands overlap, but for the late ones
\* (refineOnboarding, resolveOnboardingReview).
THEOREM AuthorIsRespected == OnboardSpec => AuthorIsNotOverwritten
<1>1. OnboardInv /\ [OnboardNext]_onboardVars
      => [\A a \in Artifact \ late : EditsStay(a)]_onboardVars
  BY OnboardStep DEF Sound, EditsStay
<1> QED BY <1>1, OnboardKeepsInv, PTL DEF OnboardSpec, AuthorIsNotOverwritten

\* A session that is done has every accepted answer in the design document,
\* unless commands overlapped or an answer went unheard (clarify).
THEOREM DoneIsAnswered == OnboardSpec => []DoneReflectsAnswers
<1>1. OnboardInv => DoneReflectsAnswers
  BY DEF OnboardInv, AnswerInv, Reflected, Heard, Known, DoneReflectsAnswers
<1> QED BY <1>1, OnboardKeepsInv, PTL
=============================================================================
