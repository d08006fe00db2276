------------------------------- MODULE HostSetup -------------------------------
(***************************************************************************)
(* Wiring the engine into a project: clad setup and clad update write the   *)
(* launcher, the hosts' entries and skills, and the managed parts of the   *)
(* instruction files, and remove what installers of earlier versions left  *)
(* in the home directory.  The engine moves when it is upgraded, users     *)
(* keep entries of their own in the same files, and a run may be stopped   *)
(* between any two of its writes.                                          *)
(***************************************************************************)
EXTENDS Naturals, Sequences

CONSTANTS Engine,      \* directories the engine may be installed in
          HomeRoot,    \* the one the home directory's status file names
          Host,        \* hosts a run may be asked for
          FirstFiles,  \* what the places below may hold at the beginning
          Edited,      \* the places the user edits
          NoSetup, NoReport, MaxSetups, MaxMoves, MaxOwnEdits

(* The places a run visits, in its order.  A place holds "none", an entry  *)
(* of the user ("foreign"), a file that does not parse ("damaged"), an     *)
(* entry that starts the project's launcher ("launcher") or clad itself    *)
(* ("clad"), or an engine's directory: the entry starts that engine, or    *)
(* the text is that engine's.  "agents" is Antigravity's project file,     *)
(* "bridge" its machine-wide one, and "bridge link" the symbolic link that *)
(* earlier versions put in its place.                                      *)
Visits == <<"runtime", "shared skill", "links", "bridge link", "codex legacy",
            "cursor legacy", "codex", "gemini", "agents", "bridge",
            "claude skill", "claude", "cursor skill", "cursor",
            "claude section", "agents block">>

Entry == {"codex", "gemini", "agents", "claude", "cursor"}
Skill == {"shared skill", "claude skill", "cursor skill"}
LegacyEntry == {"codex legacy", "cursor legacy"}
Link == {"links", "bridge link"}
Place == {"runtime", "bridge", "claude section", "agents block"}
           \cup Entry \cup Skill \cup LegacyEntry \cup Link

Marks == {"none", "foreign", "damaged", "launcher", "clad"}

\* What a place may hold.  A project's entries start the launcher or clad,
\* never an engine's directory.
Holds(p) ==
  CASE p \in Entry -> Marks
    [] p \in LegacyEntry \cup {"bridge"} -> Marks \cup Engine
    [] p \in Skill \cup Link \cup {"agents block"} -> {"none", "foreign"} \cup Engine
    [] p \in {"runtime", "claude section"} -> {"none"} \cup Engine

ASSUME SetupAssumption ==
  /\ Engine \cap Marks = {}
  /\ Host \subseteq {"codex", "gemini", "antigravity", "claude", "cursor"}
  /\ \A f \in FirstFiles : DOMAIN f = Place /\ \A p \in Place : f[p] \in Holds(p)

VARIABLES engine,    \* where the engine is
          file,      \* what each place holds
          under,     \* the user has written into the section of CLAUDE.md
          setup,     \* the run under way
          report,    \* hosts of the last run that finished, while nothing changes
          setups, moves, ownEdits

setupVars == <<engine, file, under, setup, report, setups, moves, ownEdits>>

\* knownRoots.
KnownRoots == {engine} \cup (Engine \cap {HomeRoot})

\* Mutant: every engine's launch counts as one of the user's.
OnlyTheLauncher(x, roots) == x = "launcher"

\* isKnownLaunch.
IsKnownLaunch(x, roots) == x \in {"launcher", "clad"} \cup roots

HostSetupTypeOK ==
  /\ engine \in Engine
  /\ DOMAIN file = Place /\ \A p \in Place : file[p] \in Holds(p)
  /\ under \in BOOLEAN
  /\ setup # NoSetup =>
       /\ setup \in [hosts : SUBSET Host, force : BOOLEAN, update : BOOLEAN,
                     todo : SUBSET (1..Len(Visits)), calm : BOOLEAN]
       /\ setup.todo # {}

HostSetupInit ==
  /\ engine \in Engine
  /\ file \in FirstFiles
  /\ under = FALSE
  /\ setup = NoSetup /\ report = NoReport
  /\ setups = 0 /\ moves = 0 /\ ownEdits = 0
-----------------------------------------------------------------------------
(* One place                                                               *)

\* Whether a run for these hosts visits a place (runHostSetup, runUpdate).
Visited(p, hosts, update) ==
  CASE p \in {"runtime"} \cup LegacyEntry \cup Link -> TRUE
    [] p = "shared skill" -> hosts \cap {"codex", "gemini", "antigravity"} # {}
    [] p \in {"agents", "bridge"} -> "antigravity" \in hosts
    [] p \in {"claude", "claude skill"} -> "claude" \in hosts
    [] p \in {"cursor", "cursor skill"} -> "cursor" \in hosts
    [] p \in {"claude section", "agents block"} -> update
    [] OTHER -> p \in hosts

\* Mutant: an entry that is there is replaced, whoever wrote it.
MergeOverAll(x, launch, force) == IF x = "damaged" THEN x ELSE launch

\* mergeJsonMcp, mergeCodexMcp: only its own entry, which it recognises
\* without any root.
Merge(x, launch, force) ==
  IF \/ x = "damaged"
     \/ x \notin {"none", launch} /\ ~force /\ ~IsKnownLaunch(x, {})
  THEN x ELSE launch

\* copyManagedSkill: a skill that is not Cladding's needs force.
CopySkill(x, force) == IF x = "foreign" /\ ~force THEN x ELSE engine

\* removeOwnedCodexMcp, removeOwnedCursorMcp.
RemoveEntry(x) == IF IsKnownLaunch(x, KnownRoots) THEN "none" ELSE x

\* removeOwnedSymlink, cleanupAntigravityPlugin.
RemoveLink(x) == IF x \in KnownRoots THEN "none" ELSE x

\* Mutant: the bridge is written through a link that is still there.
BridgeThroughLink(force) == Merge(file["bridge"], engine, force)

\* wireAntigravityGlobal.
Bridge(force) ==
  IF file["bridge link"] # "none" THEN file["bridge"]
  ELSE Merge(file["bridge"], engine, force)

Visit(p, force) ==
  LET x == file[p]
  IN CASE p = "runtime" -> engine
       [] p \in Entry -> Merge(x, "launcher", force)
       [] p = "bridge" -> Bridge(force)
       [] p \in Skill -> CopySkill(x, force)
       [] p \in LegacyEntry -> RemoveEntry(x)
       [] p \in Link -> RemoveLink(x)
       [] p = "claude section" -> engine
       \* writeSpecDrivenAgentsMd: a file without markers is the user's.
       [] p = "agents block" -> IF x = "foreign" THEN x ELSE engine
-----------------------------------------------------------------------------
(* Runs                                                                    *)

\* clad setup, or clad update, which asks for the detected hosts.
BeginSetup(hosts, force, update) ==
  /\ setup = NoSetup /\ setups < MaxSetups
  /\ update => ~force
  /\ setups' = setups + 1
  /\ setup' =
       [hosts |-> hosts, force |-> force, update |-> update,
        todo |-> {i \in 1..Len(Visits) : Visited(Visits[i], hosts, update)},
        calm |-> TRUE]
  /\ UNCHANGED <<engine, file, under, report, moves, ownEdits>>

\* A section that is still current is not written; a stale one is replaced
\* up to the next heading (writeClaudeMdSection).
VisitNext ==
  /\ setup # NoSetup
  /\ \E next \in setup.todo :
       /\ \A i \in setup.todo : next <= i
       /\ LET p == Visits[next]
              last == setup.todo = {next}
          IN /\ file' = [file EXCEPT ![p] = Visit(p, setup.force)]
             /\ under' = (under /\ file'["claude section"] = file["claude section"])
             /\ setup' = IF last THEN NoSetup ELSE [setup EXCEPT !.todo = @ \ {next}]
             /\ report' = IF last /\ setup.calm
                          THEN setup.hosts
                          ELSE IF file' # file THEN NoReport ELSE report
  /\ UNCHANGED <<engine, setups, moves, ownEdits>>

\* The run is stopped, or a write fails outside the channels' own catch.
StopSetup ==
  /\ setup # NoSetup
  /\ setup' = NoSetup
  /\ UNCHANGED <<engine, file, under, report, setups, moves, ownEdits>>

\* An upgrade installs the engine elsewhere.
MoveEngine(e) ==
  /\ setup = NoSetup /\ e # engine /\ moves < MaxMoves
  /\ engine' = e /\ moves' = moves + 1
  /\ report' = NoReport
  /\ UNCHANGED <<file, under, setup, setups, ownEdits>>

\* The user writes or removes an entry, breaks or mends a file, or deletes
\* the launcher.
UserEdits(p, x) ==
  /\ p \in Edited /\ ownEdits < MaxOwnEdits /\ x # file[p]
  /\ CASE p \in Entry \cup {"bridge"} -> x \in {"none", "foreign", "damaged"}
       [] p \in Skill \cup {"agents block"} -> x \in {"none", "foreign"}
       [] p \in {"runtime", "claude section"} -> x = "none"
       [] OTHER -> FALSE
  /\ file' = [file EXCEPT ![p] = x]
  /\ under' = (under /\ p # "claude section")
  /\ ownEdits' = ownEdits + 1 /\ report' = NoReport
  /\ setup' = IF setup = NoSetup THEN NoSetup ELSE [setup EXCEPT !.calm = FALSE]
  /\ UNCHANGED <<engine, setups, moves>>

\* The user writes below the section's heading in CLAUDE.md.
WriteUnder ==
  /\ ownEdits < MaxOwnEdits /\ ~under /\ file["claude section"] # "none"
  /\ under' = TRUE /\ ownEdits' = ownEdits + 1
  /\ UNCHANGED <<engine, file, setup, report, setups, moves>>

HostSetupNext ==
  \/ \E hosts \in SUBSET Host, force, update \in BOOLEAN :
       BeginSetup(hosts, force, update)
  \/ VisitNext \/ StopSetup \/ WriteUnder
  \/ \E e \in Engine : MoveEngine(e)
  \/ \E p \in Place, x \in {"none", "foreign", "damaged"} : UserEdits(p, x)

HostSetupSpec == HostSetupInit /\ [][HostSetupNext]_setupVars
-----------------------------------------------------------------------------
(* Properties                                                              *)

\* The places by which a host starts the engine.
StartsFrom(h) ==
  CASE h = "antigravity" -> {"agents", "bridge"} [] OTHER -> {h}

Starts(p) == IF file[p] = "launcher" THEN file["runtime"] ELSE file[p]

\* What an entry of the user, or a link of his, keeps setup from wiring.
Preserved(p) ==
  \/ file[p] \in {"foreign", "damaged"}
  \/ p = "bridge" /\ file["bridge link"] # "none"

\* A run without force takes nothing of the user's, from entries, skills,
\* links or the home directory, and a forced one only the entry and the
\* skill it replaces; the section of CLAUDE.md loses what the user wrote in
\* it only by a refresh.
UsersEntriesStay ==
  [][setup # NoSetup /\ ownEdits' = ownEdits =>
       /\ \A p \in Place : file[p] = "foreign" /\ file'[p] # "foreign" =>
            setup.force /\ p \in Entry \cup Skill \cup {"bridge"}
       /\ \A p \in Place : file[p] = "damaged" => file'[p] = "damaged"
       /\ file["bridge link"] # "none" => file'["bridge"] = file["bridge"]
       /\ under /\ ~under' => setup.update /\ file["claude section"] # engine]_setupVars

\* When a run has finished and nothing has changed since, every host it
\* was asked for starts the engine that ran it, after an upgrade and after
\* runs that were stopped; but for entries that are the user's, and for
\* Antigravity's machine-wide entry of an engine that has moved.
HostsStartTheEngine ==
  report # NoReport =>
    \A h \in report : \A p \in StartsFrom(h) :
      \/ Starts(p) = engine \/ Preserved(p)
      \/ p = "bridge" /\ file[p] \in Engine

\* What spec/features/setup-command-80d19d.yaml says of a run after an
\* upgrade: host channels launch the upgraded engine without manual cleanup.
UpgradeNeedsNoCleanup ==
  report # NoReport =>
    \A h \in report : \A p \in StartsFrom(h) :
      Starts(p) = engine \/ Preserved(p)
=============================================================================
