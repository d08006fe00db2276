------------------------------ MODULE ServerInit ------------------------------
(***************************************************************************)
(* Initialisation through the MCP server: clad_prepare_init shows what will *)
(* change under a fresh approval phrase, clad_stage_init keeps the host's  *)
(* draft, clad_init applies it when the phrase comes back and the folder   *)
(* is still the one that was shown.  The apply is runInit, a row of file   *)
(* writes; one that fails is taken back from copies.  Servers of several   *)
(* hosts, and an author with an editor, work in the same folder.           *)
(***************************************************************************)
EXTENDS Naturals, Sequences, TLC

CONSTANTS Challenge,   \* approval phrases
          Caller,      \* calls of clad_init that may be under way
          Touched,     \* the paths the author edits
          FirstDisk,   \* what the folder may hold at the beginning
          NoRequest, NoInit, MaxApplies, MaxTouches

(* A path stands for the files init treats alike: "design" for those of    *)
(* writeArtifact, "scan" for proposals and scenario drafts, "state" for    *)
(* the onboarding session.                                                 *)
Order == <<"state", "spec", "ignore", "attributes", "design", "scan",
           "agents", "session">>
Path == {Order[i] : i \in 1..7}

\* ONBOARDING_WRITE_ROOTS.
Roots == Path \ {"attributes"}

\* Mutant: the folder of proposals is not copied.
RootsWithoutScan == Roots \ {"scan"}

\* What was copied before, and is put back after a failure.
Copied == Roots

\* A file: the author's last edit in it, the apply that generated its rest
\* (1 is an init of earlier days), and the rollback that wrote it last.  A
\* file with neither of the first two does not exist.
Blank == [own |-> 0, gen |-> 0, put |-> 0]
Exists(x) == x.own # 0 \/ x.gen # 0
Body(x) == <<x.own, x.gen>>
FileState == [own : Nat, gen : Nat, put : Nat]

ASSUME ServerInitAssumption ==
  /\ MaxApplies \in Nat /\ MaxTouches \in Nat
  /\ FirstDisk \subseteq [Path -> [own : 0..1, gen : 0..1, put : {0}]]

VARIABLES disk,     \* the files
          request,  \* what each phrase was shown for
          cached,   \* for each phrase, the tiers of the consent cache it is in
          applying, \* the apply each call has under way
          applies,  \* applies begun
          touches,  \* edits of the author, and moves of the session
          granted,  \* history: phrases whose apply was reported done
          spent,    \* history: phrases that came without a token since staged
          clobbered \* history: an apply that was not alone has been taken back

initVars ==
  <<disk, request, cached, applying, applies, touches, granted, spent, clobbered>>

\* workspaceSnapshot, which sees size and time of every file outside
\* .cladding, and the bytes of the session.
Seen == Path \ {"state", "scan"}

SnapshotWithoutSession == [files |-> [p \in Seen |-> disk[p]]]

OnboardingSnapshot ==
  [files |-> [p \in Seen |-> disk[p]], session |-> Body(disk["state"])]

ServerInitTypeOK ==
  /\ disk \in [Path -> FileState]
  /\ DOMAIN request = Challenge
  /\ \A h \in Challenge : request[h] # NoRequest =>
       request[h] \in [files : [Seen -> FileState], session : Nat \X Nat]
  /\ cached \in [Challenge -> SUBSET {"temporary", "durable"}]
  /\ DOMAIN applying = Caller
  /\ \A c \in Caller : applying[c] # NoInit =>
       applying[c] \in [run : 2..MaxApplies + 1, ask : Challenge, bare : BOOLEAN,
                       at : 1..Len(Order), before : [Path -> FileState],
                       alone : BOOLEAN]
  /\ applies \in 0..MaxApplies
  /\ touches \in 0..MaxTouches
  /\ granted \subseteq Challenge /\ spent \subseteq Challenge
  /\ clobbered \in BOOLEAN

ServerInitInit ==
  /\ disk \in FirstDisk
  /\ request = [h \in Challenge |-> NoRequest]
  /\ cached = [h \in Challenge |-> {}]
  /\ applying = [c \in Caller |-> NoInit]
  /\ applies = 0 /\ touches = 0 /\ granted = {} /\ spent = {}
  /\ clobbered = FALSE
-----------------------------------------------------------------------------
(* Tools of the server                                                     *)

\* clad_prepare_init: an initialised folder only for a refresh.
PrepareInit(h, refresh) ==
  /\ request[h] = NoRequest
  /\ Exists(disk["spec"]) => refresh
  /\ request' = [request EXCEPT ![h] = OnboardingSnapshot]
  /\ cached' = [cached EXCEPT ![h] = {"temporary"}]
  /\ UNCHANGED <<disk, applying, applies, touches, granted, spent, clobbered>>

\* clad_stage_init: the token carries the request.
StageInit(h) ==
  /\ request[h] = OnboardingSnapshot
  /\ cached' = [cached EXCEPT ![h] = @ \cup {"durable"}]
  /\ spent' = spent \ {h}
  /\ UNCHANGED <<disk, request, applying, applies, touches, granted, clobbered>>

\* PREPARATION_TTL_MS is over for one tier, or the entry is damaged.
Expire(h, tier) ==
  /\ tier \in cached[h]
  /\ cached' = [cached EXCEPT ![h] = @ \ {tier}]
  /\ UNCHANGED <<disk, request, applying, applies, touches, granted, spent, clobbered>>

\* Mutant: the entry stays in the cache until the apply is done.
KeepPendingPreparation(h) == UNCHANGED cached

RemovePendingPreparation(h) == cached' = [cached EXCEPT ![h] = {}]

\* clad_init up to its first await: with the token the request is at hand,
\* with the phrase alone it is looked up; likewise the draft.
BeginInit(c, h, token, draft) ==
  /\ applying[c] = NoInit /\ applies < MaxApplies
  /\ request[h] # NoRequest
  /\ token \/ cached[h] # {}
  /\ request[h] = OnboardingSnapshot
  /\ draft \/ "durable" \in cached[h]
  /\ RemovePendingPreparation(h)
  /\ applies' = applies + 1
  /\ applying' = [applying EXCEPT ![c] =
       [run |-> applies + 2, ask |-> h, bare |-> ~token, at |-> 1,
        before |-> disk, alone |-> TRUE]]
  /\ spent' = IF token THEN spent ELSE spent \cup {h}
  /\ UNCHANGED <<disk, request, touches, granted, clobbered>>
-----------------------------------------------------------------------------
(* runInit, one write after the other                                      *)

\* Mutant: an artifact replaces what is there.
ReplaceArtifact(x, n) == {[own |-> 0, gen |-> n, put |-> 0]}

\* spec.yaml and writeArtifact: only what does not exist.
WriteInitArtifact(x, n) ==
  {IF Exists(x) THEN x ELSE [own |-> 0, gen |-> n, put |-> 0]}

\* appendManagedBlock, once.
AppendBlock(x, n) == {IF x.gen # 0 THEN x ELSE [own |-> x.own, gen |-> n, put |-> 0]}

\* writeSpecDrivenAgentsMd: a file without markers is the author's, and a
\* block that renders the same is not written.
UpsertBlock(x, n) ==
  IF x.own # 0 /\ x.gen = 0 THEN {x}
  ELSE {[own |-> x.own, gen |-> n, put |-> 0]} \cup IF Exists(x) THEN {x} ELSE {}

\* saveState with the digests, when there is a state.
SaveDigests(x) == {IF Exists(x) THEN [x EXCEPT !.own = @ + 1] ELSE x}

Target(step) == IF step = "session" THEN "state" ELSE step

Written(step, n) ==
  LET x == disk[Target(step)]
  IN CASE step \in {"state", "scan"} -> {[own |-> 0, gen |-> n, put |-> 0]}
       [] step \in {"spec", "design"} -> WriteInitArtifact(x, n)
       [] step \in {"ignore", "attributes"} -> AppendBlock(x, n)
       [] step = "agents" -> UpsertBlock(x, n)
       [] step = "session" -> SaveDigests(x)

\* The other applies under way are no longer alone.
Disturbed(c) ==
  [d \in Caller |-> IF d # c /\ applying[d] # NoInit
                    THEN [applying[d] EXCEPT !.alone = FALSE] ELSE applying[d]]

WriteNext(c) ==
  /\ applying[c] # NoInit
  /\ LET step == Order[applying[c].at]
         last == applying[c].at = Len(Order)
     IN /\ \E x \in Written(step, applying[c].run) :
             disk' = [disk EXCEPT ![Target(step)] = x]
        /\ applying' = [Disturbed(c) EXCEPT ![c] =
             IF last THEN NoInit ELSE [applying[c] EXCEPT !.at = @ + 1]]
        /\ granted' = granted \cup IF last THEN {applying[c].ask} ELSE {}
  /\ UNCHANGED <<request, cached, applies, touches, spent, clobbered>>

\* Any write fails: restoreOnboardingRollback removes the roots and writes
\* the copies, which gives them a new time.
FailInit(c) ==
  /\ applying[c] # NoInit
  /\ disk' = [p \in Path |->
       IF p \notin Copied THEN disk[p]
       ELSE IF Exists(applying[c].before[p])
       THEN [applying[c].before[p] EXCEPT !.put = applying[c].run] ELSE Blank]
  /\ applying' = [Disturbed(c) EXCEPT ![c] = NoInit]
  /\ clobbered' = (clobbered \/ ~applying[c].alone)
  /\ UNCHANGED <<request, cached, applies, touches, granted, spent>>

\* The server is killed: nothing takes its writes back.
KillServer(c) ==
  /\ applying[c] # NoInit
  /\ applying' = [applying EXCEPT ![c] = NoInit]
  /\ UNCHANGED <<disk, request, cached, applies, touches, granted, spent, clobbered>>
-----------------------------------------------------------------------------
(* Beside the server                                                       *)

\* An edit of the author; in the session, an answer that clad_clarify saves.
TouchFile(p) ==
  /\ p \in Touched /\ touches < MaxTouches
  /\ p = "state" => Exists(disk[p])
  /\ touches' = touches + 1
  /\ disk' = [disk EXCEPT ![p] =
       [own |-> IF p = "state" THEN disk[p].own + 1 ELSE touches + 2,
        gen |-> disk[p].gen, put |-> 0]]
  /\ applying' = [c \in Caller |-> IF applying[c] = NoInit THEN NoInit
                                ELSE [applying[c] EXCEPT !.alone = FALSE]]
  /\ UNCHANGED <<request, cached, applies, granted, spent, clobbered>>

ServerInitNext ==
  \/ \E h \in Challenge :
       \/ \E refresh \in BOOLEAN : PrepareInit(h, refresh)
       \/ StageInit(h)
       \/ \E tier \in {"temporary", "durable"} : Expire(h, tier)
       \/ \E c \in Caller, token, draft \in BOOLEAN : BeginInit(c, h, token, draft)
  \/ \E c \in Caller : WriteNext(c) \/ FailInit(c) \/ KillServer(c)
  \/ \E p \in Path : TouchFile(p)

ServerInitSpec == ServerInitInit /\ [][ServerInitNext]_initVars
-----------------------------------------------------------------------------
(* Properties                                                              *)

Begins(c) == applying[c] = NoInit /\ applying'[c] # NoInit
Fails(c) == applying[c] # NoInit /\ FailInit(c)

\* "Malformed, stale, or replayed requests do not write files": no apply
\* begins from a phrase whose apply was reported done, whatever tokens the
\* host has kept, unless an overlapped apply was taken back and the phrase
\* had been shown for a folder with nothing in it that init writes; and the
\* phrase alone serves once for each staging, also while its apply is under
\* way.
ReplaysDoNotWrite ==
  [][\A c \in Caller : Begins(c) =>
       LET h == applying'[c].ask
       IN /\ h \in granted =>
               clobbered /\ \A p \in Seen \cap Copied : ~Exists(request[h].files[p])
          /\ applying'[c].bare => h \notin spent]_initVars

\* What the author has in a file changes by the author's hand, or returns
\* to what it was when a failed apply began (writeArtifact, appendManagedBlock,
\* restorePathRollback), except in proposals and drafts, which are written
\* anew; an apply that nothing disturbed leaves, when it fails, every file
\* but .gitattributes as it found it.
NothingIsLost ==
  [][/\ \A p \in Path \ {"state", "scan"} : disk'[p].own # disk[p].own =>
          touches' # touches
          \/ \E c \in Caller :
               Fails(c) /\ Body(disk'[p]) = Body(applying[c].before[p])
     /\ \A c \in Caller : Fails(c) /\ applying[c].alone =>
          \A p \in Path \ {"attributes"} :
            Body(disk'[p]) = Body(applying[c].before[p])]_initVars

\* What the answer of clad_init says of a failure: all onboarding files
\* were restored.
FailureLeavesNothing ==
  [][\A c \in Caller : Fails(c) /\ applying[c].alone =>
       \A p \in Path : Body(disk'[p]) = Body(applying[c].before[p])]_initVars
=============================================================================
